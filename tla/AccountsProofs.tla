---------------------------- MODULE AccountsProofs ----------------------------
(***************************************************************************)
(* Proofs about who may come in, what he may use and what it costs.  First *)
(* the companies, for any companies, users, emails and requests; then the  *)
(* sessions, the services and the prices, each by the inductive invariant  *)
(* its module ends with.                                                   *)
(*                                                                         *)
(* Most steps of the companies leave the users alone.  The others change   *)
(* one user, or two in a handover: each says what becomes of the users an  *)
(* email leads to, of the accounts linked to Google and of the owners of a *)
(* company.                                                                *)
(***************************************************************************)
EXTENDS Accounts, WellFoundedInduction, TLAPS

-----------------------------------------------------------------------------
(* What one change of the users does to the three properties.              *)

\* No email leads to a user it did not lead to before.
LEMMA NoNewEmail ==
  ASSUME EmailReachesOne, doubled \subseteq doubled', \A e \in Emails : HomeOf(e)' \subseteq HomeOf(e)
  PROVE  EmailReachesOne'
BY DEF EmailReachesOne

\* Email e leads to user u now, and is doubled if it led to somebody else.
LEMMA OneNewEmail ==
  ASSUME EmailReachesOne, NEW e, NEW u, doubled \subseteq doubled',
         \A x \in Emails \ {e} : HomeOf(x)' \subseteq HomeOf(x), HomeOf(e)' \subseteq HomeOf(e) \cup {u},
         HomeOf(e) \ {u} # {} => e \in doubled'
  PROVE  EmailReachesOne'
<1> SUFFICES ASSUME NEW x \in Emails \ doubled', NEW v \in HomeOf(x)', NEW w \in HomeOf(x)' PROVE v = w
  BY DEF EmailReachesOne
<1>1. CASE x = e
  <2>1. HomeOf(e) \subseteq {u}
    BY <1>1
  <2>2. v = u /\ w = u
    BY <1>1, <2>1
  <2>3. QED BY <2>2
<1>2. CASE x # e
  BY <1>2 DEF EmailReachesOne
<1>3. QED BY <1>1, <1>2

\* No company has an owner it did not have before.
LEMMA NoNewOwner ==
  ASSUME OneOwner, shared \subseteq shared', \A c \in Firms : Owners(c)' \subseteq Owners(c)
  PROVE  OneOwner'
BY DEF OneOwner

\* Company c may have user u as its owner now, and no other unless it is shared.
LEMMA OneNewOwner ==
  ASSUME OneOwner, NEW c, NEW u, shared \subseteq shared',
         \A d \in Firms \ {c} : Owners(d)' \subseteq Owners(d),
         c \notin shared' => Owners(c)' \subseteq {u}
  PROVE  OneOwner'
BY DEF OneOwner

-----------------------------------------------------------------------------
(* Types.                                                                  *)

LEMMA IdleType == Idle \in Job
BY DEF Idle, Job, Places, AllFirms, AllEmails

LEMMA NoUserType == NoUser \in User
BY DEF NoUser, User, Roles, AllFirms, AllEmails

\* Starting a request, going on with it, or ending it.
LEMMA StartType ==
  ASSUME TypeOK, NEW r \in Requests, NEW j \in Job, Start(r, j)
  PROVE  job' \in [Requests -> Job] /\ asked' \in Nat
BY DEF TypeOK, Start
LEMMA BecomeType ==
  ASSUME TypeOK, NEW r \in Requests, NEW j \in Job, Become(r, j)
  PROVE  job' \in [Requests -> Job]
BY DEF TypeOK, Become
LEMMA EndType ==
  ASSUME TypeOK, NEW r \in Requests, Become(r, Idle)
  PROVE  job' \in [Requests -> Job]
BY IdleType, BecomeType

\* Giving an email, and writing one user.
LEMMA GivesType ==
  ASSUME TypeOK, NEW r \in Requests, NEW u, Gives(job[r].email, u, r)
  PROVE  doubled' \subseteq AllEmails
BY DEF TypeOK, Gives, Job
LEMMA WriteType ==
  ASSUME TypeOK, NEW u \in Users, NEW x \in User, users' = [users EXCEPT ![u] = x]
  PROVE  users' \in [Users -> User]
BY DEF TypeOK
LEMMA SoleOwnerType ==
  ASSUME TypeOK, NEW c, NEW u, NEW v
  PROVE  WithNewOwner(c, u, v) \in [Users -> User]
<1> SUFFICES ASSUME NEW x \in Users PROVE SoleOwner(c, u, v)[x] \in User
  BY DEF WithNewOwner, SoleOwner
<1>1. users[x] \in User
  BY DEF TypeOK
<1>2. [users[x] EXCEPT !.role = "ADMIN"] \in User /\ [users[x] EXCEPT !.role = "OWNER"] \in User
  BY <1>1 DEF User, Roles
<1>3. QED BY <1>1, <1>2 DEF SoleOwner

\* What Handover starts, and who its colleague is.
LEMMA HandoverStarts ==
  ASSUME TypeOK, NEW r \in Requests, NEW u \in Users \cup {Nobody}, NEW c \in AllFirms, NEW e \in Emails,
         c # NoFirm, Handover(r, u, c, e)
  PROVE  \E j \in Job : Start(r, j) /\ j.at = "handover" /\
           IF j.target = Nobody THEN j.clear
           ELSE j.target \in Users /\ users[j.target].firm = j.firm /\ j.firm # NoFirm
<1> DEFINE inCompany == In(c) \cap Named(e)
           v == IF inCompany = {} THEN Nobody ELSE CHOOSE x \in inCompany : TRUE
           j == [Idle EXCEPT !.at = "handover", !.who = u, !.firm = c, !.email = e, !.target = v,
                   !.clear = ~Taken(e, Nobody)]
<1>1. inCompany # {} => v \in inCompany
  OBVIOUS
<1>2. v \in Users \cup {Nobody} /\ (v # Nobody => v \in In(c))
  BY <1>1 DEF In
<1>3. Start(r, j) /\ (inCompany = {} => ~Taken(e, Nobody))
  BY DEF Handover, emailTaken
<1> HIDE DEF v
<1>4. (~Taken(e, Nobody)) \in BOOLEAN
  BY DEF Taken
<1>5. j \in Job /\ j.at = "handover" /\ j.target = v /\ j.firm = c /\ j.clear = ~Taken(e, Nobody)
  BY <1>2, <1>4 DEF Idle, Job, Places, AllFirms, AllEmails
<1>6. v = Nobody => inCompany = {}
  BY <1>1, NobodyAssumption DEF v, In
<1>7. v # Nobody => v \in Users /\ users[v].firm = c
  BY <1>2 DEF In
<1> HIDE DEF j
<1>8. QED BY <1>3, <1>5, <1>6, <1>7

\* Every action keeps the variables in their types.
LEMMA TypeStep == ASSUME TypeOK, \A x \in Requests : Informed(job[x]), [Next]_vars PROVE TypeOK'
<1> USE DEF others
<1>1. ASSUME NEW r \in Requests, NEW e \in Emails, RegisterTenant(r, e) PROVE TypeOK'
  <2>1. [Idle EXCEPT !.at = "register", !.email = e] \in Job
    BY DEF Idle, Job, Places, AllFirms, AllEmails
  <2>2. QED BY <1>1, <2>1, StartType DEF RegisterTenant, TypeOK
<1>2. ASSUME NEW r \in Requests, NEW e \in Emails, CreateClient(r, e) PROVE TypeOK'
  <2>1. [Idle EXCEPT !.at = "client", !.email = e, !.clear = ~Taken(e, Nobody)] \in Job
    BY DEF Idle, Job, Places, AllFirms, AllEmails, Taken
  <2>2. QED BY <1>2, <2>1, StartType DEF CreateClient, TypeOK
<1>3. ASSUME NEW r \in Requests, NEW e \in Emails, CreateAgencyStaff(r, e) PROVE TypeOK'
  <2>1. [Idle EXCEPT !.at = "staff", !.email = e] \in Job
    BY DEF Idle, Job, Places, AllFirms, AllEmails
  <2>2. QED BY <1>3, <2>1, StartType DEF CreateAgencyStaff, TypeOK
<1>4. ASSUME NEW r \in Requests, NEW u \in Users, CreateLinkedCompany(r, u) PROVE TypeOK'
  <2>1. users[u].email \in AllEmails
    BY DEF TypeOK, User
  <2>2. [Idle EXCEPT !.at = "linked", !.who = u, !.email = users[u].email] \in Job
    BY <2>1 DEF Idle, Job, Places, AllFirms
  <2>3. QED BY <1>4, <2>2, StartType DEF CreateLinkedCompany, TypeOK
<1>5. ASSUME NEW r \in Requests, NEW e \in Emails, NEW u \in Users, ChangeEmail(r, u, e) PROVE TypeOK'
  <2>1. [Idle EXCEPT !.at = "rename", !.who = u, !.email = e, !.clear = ~Taken(e, u)] \in Job
    BY DEF Idle, Job, Places, AllFirms, AllEmails, Taken
  <2>2. QED BY <1>5, <2>1, StartType DEF ChangeEmail, TypeOK
<1>6. ASSUME NEW r \in Requests, NEW e \in Emails, LoginWithGoogle(r, e) PROVE TypeOK'
  <2>1. \A u \in Users : [Idle EXCEPT !.at = "google", !.who = u, !.email = e] \in Job
    BY DEF Idle, Job, Places, AllFirms, AllEmails
  <2>2. \A u \in Users : users[u].role \in Roles
    BY DEF TypeOK, User
  <2>3. CASE \E u \in Users : users[u].google = e
    <3>1. PICK u \in Users : carried' = carried \cup {<<u, users[u].role>>}
      BY <1>6, <2>3 DEF LoginWithGoogle
    <3>2. job' = job /\ asked' = asked + 1
      BY <1>6, <2>3 DEF LoginWithGoogle
    <3>3. carried' \subseteq Users \X Roles /\ asked' \in Nat
      BY <2>2, <3>1, <3>2 DEF TypeOK
    <3>4. UNCHANGED <<users, branches, members, doubled, shared, others>>
      BY <1>6 DEF LoginWithGoogle
    <3>5. QED BY <3>2, <3>3, <3>4 DEF TypeOK
  <2>4. CASE ~\E u \in Users : users[u].google = e
    <3>1. PICK u \in Users : Start(r, [Idle EXCEPT !.at = "google", !.who = u, !.email = e])
      BY <1>6, <2>4 DEF LoginWithGoogle, HomeOf, Named
    <3>2. carried' = carried
      BY <1>6, <2>4 DEF LoginWithGoogle
    <3>3. QED BY <1>6, <2>1, <3>1, <3>2, StartType DEF LoginWithGoogle, TypeOK
  <2>5. QED BY <2>3, <2>4
<1>7. ASSUME NEW r \in Requests, NEW e \in Emails, NEW u \in Users, TransferOwnership(r, u, e) PROVE TypeOK'
  <2>1. users[u].firm \in AllFirms /\ users[u].firm # NoFirm
    BY <1>7 DEF TypeOK, User, TransferOwnership, There
  <2>2. job' \in [Requests -> Job] /\ asked' \in Nat
    BY <1>7, <2>1, HandoverStarts, StartType DEF TransferOwnership
  <2>3. QED BY <1>7, <2>1, <2>2 DEF TransferOwnership, TypeOK
<1>8. ASSUME NEW r \in Requests, NEW e \in Emails, NEW c \in Firms, ChangeOwner(r, c, e) PROVE TypeOK'
  <2>1. PICK u \in Users \cup {Nobody} : Handover(r, u, c, e)
    BY <1>8 DEF ChangeOwner, Owners, In
  <2>2. c \in AllFirms /\ c # NoFirm
    BY NoFirmAssumption DEF AllFirms
  <2>3. job' \in [Requests -> Job] /\ asked' \in Nat
    BY <2>1, <2>2, HandoverStarts, StartType
  <2>4. QED BY <1>8, <2>3 DEF ChangeOwner, TypeOK
<1>9. ASSUME NEW r \in Requests, NEW g \in BOOLEAN, CreateTenant(r, g) PROVE TypeOK'
  <2>1. PICK u \in Users, c \in Firms :
          /\ users' = [users EXCEPT ![u] = [NoUser EXCEPT !.firm = c, !.email = job[r].email, !.role = "OWNER",
                                             !.google = IF g THEN job[r].email ELSE NoEmail]]
          /\ Gives(job[r].email, u, r)
          /\ Become(r, [job[r] EXCEPT !.at = "branch", !.who = u, !.firm = c])
    BY <1>9 DEF CreateTenant, Spare
  <2>2. job[r] \in Job /\ job[r].email \in AllEmails
    BY DEF TypeOK, Job
  <2>3. [NoUser EXCEPT !.firm = c, !.email = job[r].email, !.role = "OWNER",
                       !.google = IF g THEN job[r].email ELSE NoEmail] \in User
    BY <2>2 DEF NoUser, User, Roles, AllFirms, AllEmails
  <2>4. [job[r] EXCEPT !.at = "branch", !.who = u, !.firm = c] \in Job
    BY <2>2 DEF Job, Places, AllFirms
  <2>5. users' \in [Users -> User] /\ doubled' \subseteq AllEmails /\ job' \in [Requests -> Job]
    BY <2>1, <2>3, <2>4, WriteType, GivesType, BecomeType
  <2>6. QED BY <1>9, <2>5 DEF CreateTenant, TypeOK
<1>10. ASSUME NEW r \in Requests, ClientCreated(r) PROVE TypeOK'
  <2>1. PICK u \in Users, c \in Firms :
          /\ users' = [users EXCEPT ![u] = [NoUser EXCEPT !.firm = c, !.email = job[r].email, !.role = "OWNER"]]
          /\ Gives(job[r].email, u, r)
    BY <1>10 DEF ClientCreated, Spare
  <2>2. job[r].email \in AllEmails
    BY DEF TypeOK, Job
  <2>3. [NoUser EXCEPT !.firm = c, !.email = job[r].email, !.role = "OWNER"] \in User
    BY <2>2 DEF NoUser, User, Roles, AllFirms, AllEmails
  <2>4. users' \in [Users -> User] /\ doubled' \subseteq AllEmails
    BY <2>1, <2>3, WriteType, GivesType
  <2>5. job' \in [Requests -> Job]
    BY <1>10, EndType DEF ClientCreated
  <2>6. QED BY <1>10, <2>4, <2>5 DEF ClientCreated, TypeOK
<1>11. ASSUME NEW r \in Requests, LinkedCreated(r) PROVE TypeOK'
  <2>1. PICK u \in Users, c \in Firms :
          /\ users' = [users EXCEPT ![u] = [NoUser EXCEPT !.firm = c, !.email = job[r].email, !.role = "OWNER",
                                             !.home = FALSE]]
          /\ Become(r, [job[r] EXCEPT !.at = "membership", !.target = u, !.firm = c])
    BY <1>11 DEF LinkedCreated, Spare
  <2>2. job[r] \in Job /\ job[r].email \in AllEmails
    BY DEF TypeOK, Job
  <2>3. [NoUser EXCEPT !.firm = c, !.email = job[r].email, !.role = "OWNER", !.home = FALSE] \in User
    BY <2>2 DEF NoUser, User, Roles, AllFirms, AllEmails
  <2>4. [job[r] EXCEPT !.at = "membership", !.target = u, !.firm = c] \in Job
    BY <2>2 DEF Job, Places, AllFirms
  <2>5. users' \in [Users -> User] /\ job' \in [Requests -> Job]
    BY <2>1, <2>3, <2>4, WriteType, BecomeType
  <2>6. QED BY <1>11, <2>5 DEF LinkedCreated, TypeOK
<1>12. ASSUME NEW c \in Firms, NEW e \in Emails, NEW role \in Roles, Invite(c, e, role) PROVE TypeOK'
  <2>1. PICK u \in Users : users' = [users EXCEPT ![u] = [NoUser EXCEPT !.firm = c, !.email = e, !.role = role]]
    BY <1>12 DEF Invite, Spare
  <2>2. [NoUser EXCEPT !.firm = c, !.email = e, !.role = role] \in User
    BY DEF NoUser, User, Roles, AllFirms, AllEmails
  <2>3. users' \in [Users -> User] /\ doubled' \subseteq AllEmails
    BY <1>12, <2>1, <2>2, WriteType DEF Invite, TypeOK, AllEmails
  <2>4. QED BY <1>12, <2>3 DEF Invite, TypeOK
<1>13. ASSUME NEW r \in Requests, StaffCreated(r) PROVE TypeOK'
  <2>1. CASE UNCHANGED <<users, doubled>>
    BY <1>13, <2>1, EndType DEF StaffCreated, TypeOK
  <2>2. CASE ~UNCHANGED <<users, doubled>>
    <3>1. PICK u \in Users :
            /\ users' = [users EXCEPT ![u] = [NoUser EXCEPT !.firm = Agency, !.email = job[r].email, !.agency = TRUE]]
            /\ Gives(job[r].email, u, r)
      BY <1>13, <2>2 DEF StaffCreated, Spare
    <3>2. job[r].email \in AllEmails
      BY DEF TypeOK, Job
    <3>3. [NoUser EXCEPT !.firm = Agency, !.email = job[r].email, !.agency = TRUE] \in User
      BY <3>2 DEF NoUser, User, Roles, AllFirms, AllEmails
    <3>4. users' \in [Users -> User] /\ doubled' \subseteq AllEmails
      BY <3>1, <3>3, WriteType, GivesType
    <3>5. QED BY <1>13, <3>4, EndType DEF StaffCreated, TypeOK
  <2>3. QED BY <2>1, <2>2
<1>14. ASSUME NEW r \in Requests, EmailChanged(r) PROVE TypeOK'
  <2> DEFINE u == job[r].who
  <2>1. u \in Users /\ job[r].email \in AllEmails /\ users[u] \in User
    BY <1>14 DEF EmailChanged, Informed, TypeOK, Job
  <2>2. [users[u] EXCEPT !.email = job[r].email, !.google = NoEmail] \in User
    BY <2>1 DEF User, AllEmails
  <2>3. Rename(u, job[r].email) => users' = [users EXCEPT ![u] = [users[u] EXCEPT !.email = job[r].email, !.google = NoEmail]]
    BY <2>1 DEF Rename, AfterRename, Unlinked, TypeOK, User
  <2>4. users' \in [Users -> User]
    BY <1>14, <2>1, <2>2, <2>3, WriteType DEF EmailChanged, TypeOK
  <2>5. doubled' \subseteq AllEmails
    BY <1>14, GivesType DEF EmailChanged, TypeOK
  <2>6. QED BY <1>14, <2>4, <2>5, EndType DEF EmailChanged, TypeOK
<1>15. ASSUME NEW r \in Requests, LinkGoogle(r) PROVE TypeOK'
  <2> DEFINE u == job[r].who
  <2>1. u \in Users /\ job[r].email \in AllEmails /\ users[u] \in User /\ users[u].role \in Roles
    BY <1>15 DEF LinkGoogle, Informed, TypeOK, Job, User
  <2>2. [users[u] EXCEPT !.google = job[r].email] \in User
    BY <2>1 DEF User
  <2>3. users' \in [Users -> User]
    BY <1>15, <2>1, <2>2, WriteType DEF LinkGoogle, TypeOK
  <2>4. carried' \subseteq Users \X Roles /\ relinked' \subseteq Users
    BY <1>15, <2>1 DEF LinkGoogle, TypeOK
  <2>5. QED BY <1>15, <2>3, <2>4, EndType DEF LinkGoogle, TypeOK
<1>16. ASSUME NEW r \in Requests, OwnershipMoves(r) PROVE TypeOK'
  <2>1. job[r].email \in AllEmails /\ job[r].firm \in AllFirms
    BY DEF TypeOK, Job
  <2>2. [NoUser EXCEPT !.firm = job[r].firm, !.email = job[r].email, !.role = "OWNER"] \in User
    BY <2>1 DEF NoUser, User, Roles, AllEmails
  <2>3. \A v : WithNewOwner(job[r].firm, job[r].who, v) \in [Users -> User]
    BY SoleOwnerType
  <2>4. users' \in [Users -> User]
    <3>1. CASE job[r].target # Nobody
      BY <1>16, <2>3, <3>1 DEF OwnershipMoves
    <3>2. CASE job[r].target = Nobody /\ UNCHANGED users
      BY <3>2 DEF TypeOK
    <3>3. CASE job[r].target = Nobody /\ ~UNCHANGED users
      <4>1. PICK v \in Users : users' = [WithNewOwner(job[r].firm, job[r].who, v) EXCEPT ![v] =
                                 [NoUser EXCEPT !.firm = job[r].firm, !.email = job[r].email, !.role = "OWNER"]]
        BY <1>16, <3>3 DEF OwnershipMoves, Spare
      <4>2. QED BY <2>2, <2>3, <4>1
    <3>4. QED BY <3>1, <3>2, <3>3
  <2>5. doubled' \subseteq AllEmails
    BY <1>16, GivesType DEF OwnershipMoves, TypeOK
  <2>6. QED BY <1>16, <2>1, <2>4, <2>5, EndType DEF OwnershipMoves, TypeOK
<1>17. ASSUME NEW r \in Requests, CreateBranch(r) PROVE TypeOK'
  <2>1. job[r].who \in Users /\ job[r].firm \in AllFirms
    BY <1>17 DEF CreateBranch, Informed, TypeOK, Job
  <2>2. QED BY <1>17, <2>1, EndType DEF CreateBranch, TypeOK, Roles
<1>18. ASSUME NEW r \in Requests, CreateMembership(r) PROVE TypeOK'
  <2>1. job[r].who \in Users /\ job[r].firm \in AllFirms /\ job[r].target \in Users
    BY <1>18 DEF CreateMembership, Informed, TypeOK, Job
  <2>2. QED BY <1>18, <2>1, EndType DEF CreateMembership, TypeOK, Owns
<1>19. ASSUME NEW r \in Requests, Crash(r) PROVE TypeOK'
  BY <1>19, EndType DEF Crash, TypeOK
<1>20. \A u \in Users : users[u].role \in Roles
  BY DEF TypeOK, User
<1>21. ASSUME NEW u \in Users, Login(u) PROVE TypeOK'
  BY <1>20, <1>21 DEF Login, TypeOK
<1>22. ASSUME NEW u \in Users, NEW m \in members, Switch(u, m) PROVE TypeOK'
  BY <1>20, <1>22 DEF Switch, TypeOK
<1>23. ASSUME NEW c \in Firms, Impersonate(c) PROVE TypeOK'
  BY <1>20, <1>23 DEF Impersonate, In, TypeOK
<1>24. ASSUME NEW u \in Users, NEW c \in Firms, Manage(u, c) PROVE TypeOK'
  BY <1>23, <1>24 DEF Manage
<1>25. ASSUME NEW u \in Users, NEW c \in Firms, Assign(u, c) PROVE TypeOK'
  BY <1>25 DEF Assign, Assigned, TypeOK, AllFirms
<1>26. ASSUME NEW u \in Users, NEW c \in Firms, Unassign(u, c) PROVE TypeOK'
  BY <1>26 DEF Unassign, TypeOK
<1>27. ASSUME NEW t \in carried, AccessExpires(t) PROVE TypeOK'
  BY <1>27 DEF AccessExpires, TypeOK
<1>28. ASSUME NEW c \in Firms, AddBranch(c) PROVE TypeOK'
  BY <1>28 DEF AddBranch, TypeOK, AllFirms
<1>29. CASE UNCHANGED vars
  BY <1>29 DEF vars, TypeOK
<1>30. QED
  BY <1>1, <1>2, <1>3, <1>4, <1>5, <1>6, <1>7, <1>8, <1>9, <1>10, <1>11, <1>12, <1>13, <1>14, <1>15, <1>16,
     <1>17, <1>18, <1>19, <1>21, <1>22, <1>23, <1>24, <1>25, <1>26, <1>27, <1>28, <1>29
     DEF Next, RegisterTenantWithGoogle
-----------------------------------------------------------------------------
(* What requests know.                                                     *)

LEMMA IdleInformed == Informed(Idle)
BY DEF Informed, Idle

\* A user stays in his company: new ones are made of rows that have none.
LEMMA FirmStays ==
  ASSUME TypeOK, \A x \in Requests : Informed(job[x]), [Next]_vars, NEW u \in Users, users[u].firm # NoFirm
  PROVE  users'[u].firm = users[u].firm
<1> USE DEF others
<1>1. \A x \in Users : users[x] = [users[x] EXCEPT !.firm = users[x].firm]
  BY DEF TypeOK, User
<1>2. ASSUME NEW r \in Requests, NEW g \in BOOLEAN, CreateTenant(r, g) PROVE users'[u].firm = users[u].firm
  BY <1>2 DEF CreateTenant, Spare, There, TypeOK
<1>3. ASSUME NEW r \in Requests, ClientCreated(r) PROVE users'[u].firm = users[u].firm
  BY <1>3 DEF ClientCreated, Spare, There, TypeOK
<1>4. ASSUME NEW r \in Requests, LinkedCreated(r) PROVE users'[u].firm = users[u].firm
  BY <1>4 DEF LinkedCreated, Spare, There, TypeOK
<1>5. ASSUME NEW c \in Firms, NEW e \in Emails, NEW role \in Roles, Invite(c, e, role)
      PROVE users'[u].firm = users[u].firm
  BY <1>5 DEF Invite, Spare, There, TypeOK
<1>6. ASSUME NEW r \in Requests, StaffCreated(r) PROVE users'[u].firm = users[u].firm
  BY <1>6 DEF StaffCreated, Spare, There, TypeOK
<1>7. ASSUME NEW r \in Requests, EmailChanged(r) PROVE users'[u].firm = users[u].firm
  <2>1. job[r].who \in Users /\ users[job[r].who] \in User
    BY <1>7 DEF EmailChanged, Informed, TypeOK
  <2>2. Rename(job[r].who, job[r].email) => users'[u].firm = users[u].firm
    BY <2>1 DEF Rename, User, TypeOK
  <2>3. QED BY <1>7, <2>2 DEF EmailChanged
<1>8. ASSUME NEW r \in Requests, LinkGoogle(r) PROVE users'[u].firm = users[u].firm
  <2>1. job[r].who \in Users /\ users[job[r].who] \in User
    BY <1>8 DEF LinkGoogle, Informed, TypeOK
  <2>2. QED BY <1>8, <2>1 DEF LinkGoogle, User, TypeOK
<1>9. ASSUME NEW r \in Requests, OwnershipMoves(r) PROVE users'[u].firm = users[u].firm
  <2>1. \A c, x, y : WithNewOwner(c, x, y)[u].firm = users[u].firm
    BY DEF WithNewOwner, SoleOwner, TypeOK, User
  <2>2. \A c, x, y : DOMAIN WithNewOwner(c, x, y) = Users
    BY DEF WithNewOwner, SoleOwner
  <2>3. CASE UNCHANGED users
    BY <2>3
  <2>4. CASE users' = WithNewOwner(job[r].firm, job[r].who, job[r].target)
    BY <2>1, <2>4
  <2>5. CASE \E v \in Spare : users' = [WithNewOwner(job[r].firm, job[r].who, v) EXCEPT ![v] =
               [NoUser EXCEPT !.firm = job[r].firm, !.email = job[r].email, !.role = "OWNER"]]
    BY <2>1, <2>2, <2>5 DEF Spare, There
  <2>6. QED BY <1>9, <2>3, <2>4, <2>5 DEF OwnershipMoves
<1>10. CASE UNCHANGED users
  BY <1>10
<1>11. CASE ~UNCHANGED users
  BY <1>2, <1>3, <1>4, <1>5, <1>6, <1>7, <1>8, <1>9, <1>11
     DEF Next, RegisterTenantWithGoogle, RegisterTenant, CreateClient, CreateAgencyStaff, LoginWithGoogle,
         ChangeEmail, TransferOwnership, ChangeOwner, CreateLinkedCompany, CreateBranch, CreateMembership, Crash,
         Login, Switch, Impersonate, AddBranch, Assign, Unassign, Manage, AccessExpires, vars
<1>12. QED BY <1>10, <1>11

\* One request goes on, and knows what it needs.
LEMMA InformedOne ==
  ASSUME TypeOK, \A x \in Requests : Informed(job[x]), [Next]_vars,
         NEW r \in Requests, NEW j \in Job, Become(r, j), Informed(j)
  PROVE  \A x \in Requests : Informed(job[x])'
<1> SUFFICES ASSUME NEW x \in Requests PROVE Informed(job[x])'
  OBVIOUS
<1>1. job'[x] \in Job /\ Informed(job'[x])
  BY DEF Become, TypeOK
<1>2. job'[x].target \in Users \cup {Nobody}
  BY <1>1 DEF Job
<1>3. job'[x].target # Nobody /\ users[job'[x].target].firm # NoFirm
        => users'[job'[x].target].firm = users[job'[x].target].firm
  BY <1>2, FirmStays
<1>4. QED BY <1>1, <1>3 DEF Informed

\* No request changes.
LEMMA InformedSame ==
  ASSUME TypeOK, \A x \in Requests : Informed(job[x]), [Next]_vars, job' = job
  PROVE  \A x \in Requests : Informed(job[x])'
<1> SUFFICES ASSUME NEW x \in Requests PROVE Informed(job[x])'
  OBVIOUS
<1>1. Informed(job[x]) /\ job[x].target \in Users \cup {Nobody}
  BY DEF TypeOK, Job
<1>2. job[x].target # Nobody /\ users[job[x].target].firm # NoFirm
        => users'[job[x].target].firm = users[job[x].target].firm
  BY <1>1, FirmStays
<1>3. QED BY <1>1, <1>2 DEF Informed
\* Every request knows what it needs when it writes.
LEMMA InformedStep ==
  ASSUME TypeOK, \A x \in Requests : Informed(job[x]), [Next]_vars
  PROVE  \A x \in Requests : Informed(job[x])'
<1> USE DEF Start
<1>1. ASSUME NEW r \in Requests, NEW e \in Emails, RegisterTenant(r, e) PROVE \A x \in Requests : Informed(job[x])'
  <2> DEFINE j == [Idle EXCEPT !.at = "register", !.email = e]
  <2>1. j \in Job /\ Informed(j)
    BY DEF Idle, Job, Places, AllFirms, AllEmails, Informed
  <2>2. Become(r, j)
    BY <1>1 DEF RegisterTenant, Become
  <2> HIDE DEF j
  <2>3. QED BY <2>1, <2>2, InformedOne
<1>2. ASSUME NEW r \in Requests, NEW e \in Emails, CreateClient(r, e) PROVE \A x \in Requests : Informed(job[x])'
  <2> DEFINE j == [Idle EXCEPT !.at = "client", !.email = e, !.clear = ~Taken(e, Nobody)]
  <2>1. ~Taken(e, Nobody) /\ Become(r, j)
    BY <1>2 DEF CreateClient, Become, emailTaken
  <2>2. j \in Job /\ Informed(j)
    BY <2>1 DEF Idle, Job, Places, AllFirms, AllEmails, Informed
  <2> HIDE DEF j
  <2>3. QED BY <2>1, <2>2, InformedOne
<1>3. ASSUME NEW r \in Requests, NEW e \in Emails, CreateAgencyStaff(r, e)
      PROVE \A x \in Requests : Informed(job[x])'
  <2> DEFINE j == [Idle EXCEPT !.at = "staff", !.email = e]
  <2>1. j \in Job /\ Informed(j)
    BY DEF Idle, Job, Places, AllFirms, AllEmails, Informed
  <2>2. Become(r, j)
    BY <1>3 DEF CreateAgencyStaff, Become
  <2> HIDE DEF j
  <2>3. QED BY <2>1, <2>2, InformedOne
<1>4. ASSUME NEW r \in Requests, NEW u \in Users, CreateLinkedCompany(r, u)
      PROVE \A x \in Requests : Informed(job[x])'
  <2> DEFINE j == [Idle EXCEPT !.at = "linked", !.who = u, !.email = users[u].email]
  <2>1. users[u].email \in AllEmails
    BY DEF TypeOK, User
  <2>2. j \in Job /\ Informed(j)
    BY <2>1 DEF Idle, Job, Places, AllFirms, Informed
  <2>3. Become(r, j)
    BY <1>4 DEF CreateLinkedCompany, Become
  <2> HIDE DEF j
  <2>4. QED BY <2>2, <2>3, InformedOne
<1>5. ASSUME NEW r \in Requests, NEW e \in Emails, NEW u \in Users, ChangeEmail(r, u, e)
      PROVE \A x \in Requests : Informed(job[x])'
  <2> DEFINE j == [Idle EXCEPT !.at = "rename", !.who = u, !.email = e, !.clear = ~Taken(e, u)]
  <2>1. ~Taken(e, u) /\ Become(r, j)
    BY <1>5 DEF ChangeEmail, Become, emailTaken
  <2>2. j \in Job /\ Informed(j)
    BY <2>1 DEF Idle, Job, Places, AllFirms, AllEmails, Informed
  <2> HIDE DEF j
  <2>3. QED BY <2>1, <2>2, InformedOne
<1>6. ASSUME NEW r \in Requests, NEW e \in Emails, LoginWithGoogle(r, e)
      PROVE \A x \in Requests : Informed(job[x])'
  <2>1. CASE \E u \in Users : users[u].google = e
    BY <1>6, <2>1, InformedSame DEF LoginWithGoogle
  <2>2. CASE ~\E u \in Users : users[u].google = e
    <3>1. PICK u \in Users : Become(r, [Idle EXCEPT !.at = "google", !.who = u, !.email = e])
      BY <1>6, <2>2 DEF LoginWithGoogle, HomeOf, Named, Become
    <3> DEFINE j == [Idle EXCEPT !.at = "google", !.who = u, !.email = e]
    <3>2. j \in Job /\ Informed(j)
      BY DEF Idle, Job, Places, AllFirms, AllEmails, Informed
    <3> HIDE DEF j
    <3>3. QED BY <3>1, <3>2, InformedOne DEF j
  <2>3. QED BY <2>1, <2>2
<1>7. ASSUME NEW r \in Requests, NEW e \in Emails, NEW u \in Users \cup {Nobody}, NEW c \in AllFirms, c # NoFirm,
             Handover(r, u, c, e)
      PROVE \A x \in Requests : Informed(job[x])'
  <2>1. PICK j \in Job : Start(r, j) /\ j.at = "handover" /\
           IF j.target = Nobody THEN j.clear
           ELSE j.target \in Users /\ users[j.target].firm = j.firm /\ j.firm # NoFirm
    BY <1>7, HandoverStarts
  <2>2. Informed(j) /\ Become(r, j)
    BY <2>1 DEF Informed, Become
  <2>3. QED BY <2>2, InformedOne
<1>8. ASSUME NEW r \in Requests, NEW e \in Emails, NEW u \in Users, TransferOwnership(r, u, e)
      PROVE \A x \in Requests : Informed(job[x])'
  BY <1>7, <1>8 DEF TransferOwnership, There, TypeOK, User
<1>9. ASSUME NEW r \in Requests, NEW e \in Emails, NEW c \in Firms, ChangeOwner(r, c, e)
      PROVE \A x \in Requests : Informed(job[x])'
  <2>1. PICK u \in Users \cup {Nobody} : Handover(r, u, c, e)
    BY <1>9 DEF ChangeOwner, Owners, In
  <2>2. c \in AllFirms /\ c # NoFirm
    BY NoFirmAssumption DEF AllFirms
  <2>3. QED BY <1>7, <2>1, <2>2
<1>10. ASSUME NEW r \in Requests, NEW g \in BOOLEAN, CreateTenant(r, g) PROVE \A x \in Requests : Informed(job[x])'
  <2>1. PICK u \in Users, c \in Firms : Become(r, [job[r] EXCEPT !.at = "branch", !.who = u, !.firm = c])
    BY <1>10 DEF CreateTenant, Spare
  <2>2. job[r] \in Job
    BY DEF TypeOK
  <2>3. PICK j \in Job : j = [job[r] EXCEPT !.at = "branch", !.who = u, !.firm = c]
    BY <2>2 DEF Job, Places, AllFirms
  <2>4. Become(r, j) /\ Informed(j)
    BY <2>1, <2>2, <2>3 DEF Informed, Job
  <2>5. QED BY <2>4, InformedOne
<1>11. ASSUME NEW r \in Requests, LinkedCreated(r) PROVE \A x \in Requests : Informed(job[x])'
  <2>1. PICK u \in Users, c \in Firms : Become(r, [job[r] EXCEPT !.at = "membership", !.target = u, !.firm = c])
    BY <1>11 DEF LinkedCreated, Spare
  <2>2. job[r] \in Job /\ job[r].who \in Users
    BY <1>11 DEF TypeOK, LinkedCreated, Informed
  <2>3. PICK j \in Job : j = [job[r] EXCEPT !.at = "membership", !.target = u, !.firm = c]
    BY <2>2 DEF Job, Places, AllFirms
  <2>4. Become(r, j) /\ Informed(j)
    BY <2>1, <2>2, <2>3 DEF Informed, Job
  <2>5. QED BY <2>4, InformedOne
<1>12. ASSUME NEW r \in Requests, Become(r, Idle) PROVE \A x \in Requests : Informed(job[x])'
  <2>1. PICK j \in Job : j = Idle
    BY IdleType
  <2>2. QED BY <1>12, <2>1, IdleInformed, InformedOne
<1>13. CASE job' = job
  BY <1>13, InformedSame
<1>14. QED
  BY <1>1, <1>2, <1>3, <1>4, <1>5, <1>6, <1>8, <1>9, <1>10, <1>11, <1>12, <1>13
     DEF Next, RegisterTenantWithGoogle, CreateBranch, ClientCreated, CreateMembership, Crash, Invite, StaffCreated,
         EmailChanged, LinkGoogle, OwnershipMoves, Login, Switch, Impersonate, AddBranch, Assign, Unassign, Manage,
         AccessExpires, vars
-----------------------------------------------------------------------------
(* The three properties, change by change.                                 *)

\* A row without a company becomes user x, with the email of his request.
LEMMA NewUser ==
  ASSUME TypeOK, EmailsFindTheirUser, NEW u \in Spare, NEW x \in User, x.google \in {NoEmail, x.email},
         users' = [users EXCEPT ![u] = x], doubled \subseteq doubled', relinked \subseteq relinked',
         x.home /\ Taken(x.email, u) => x.email \in doubled'
  PROVE  EmailsFindTheirUser'
<1>1. u \in Users /\ users'[u] = x /\ \A v \in Users \ {u} : users'[v] = users[v]
  BY DEF Spare, TypeOK
<1>2. EmailReachesOne'
  <2>1. CASE x.home
    <3>1. \A e \in Emails \ {x.email} : HomeOf(e)' \subseteq HomeOf(e)
      BY <1>1 DEF HomeOf, Named, There
    <3>2. HomeOf(x.email)' \subseteq HomeOf(x.email) \cup {u}
      BY <1>1 DEF HomeOf, Named, There
    <3>3. HomeOf(x.email) \ {u} # {} => x.email \in doubled'
      BY <2>1 DEF Taken
    <3>4. QED BY <3>1, <3>2, <3>3, OneNewEmail DEF EmailsFindTheirUser
  <2>2. CASE ~x.home
    <3>1. \A e \in Emails : HomeOf(e)' \subseteq HomeOf(e)
      BY <1>1, <2>2 DEF HomeOf, Named, There
    <3>2. QED BY <3>1, NoNewEmail DEF EmailsFindTheirUser
  <2>3. QED BY <2>1, <2>2
<1>3. GoogleFollowsEmail'
  BY <1>1 DEF EmailsFindTheirUser, GoogleFollowsEmail
<1>4. QED BY <1>2, <1>3 DEF EmailsFindTheirUser

\* He owns a company only if it had nobody.
LEMMA NewOwner ==
  ASSUME TypeOK, OneOwner, NEW u \in Spare, NEW x \in User, users' = [users EXCEPT ![u] = x],
         shared \subseteq shared', x.role = "OWNER" => In(x.firm) = {} \/ ~x.home
  PROVE  OneOwner'
<1>1. u \in Users /\ users'[u] = x /\ \A v \in Users \ {u} : users'[v] = users[v]
  BY DEF Spare, TypeOK
<1>2. \A d \in Firms \ {x.firm} : Owners(d)' \subseteq Owners(d)
  BY <1>1 DEF Owners, In
<1>3. CASE x.role = "OWNER" /\ In(x.firm) = {}
  <2>1. Owners(x.firm)' \subseteq {u}
    BY <1>1, <1>3 DEF Owners, In
  <2>2. QED BY <1>2, <2>1, OneNewOwner
<1>4. CASE ~(x.role = "OWNER" /\ x.home)
  <2>1. \A d \in Firms : Owners(d)' \subseteq Owners(d)
    BY <1>1, <1>4 DEF Owners, In
  <2>2. QED BY <2>1, NoNewOwner
<1>5. QED BY <1>3, <1>4

\* Nobody's email, company or part in it changes, and no Google account.
LEMMA SameUsers ==
  ASSUME EmailsFindTheirUser, OneOwner, users' = users, doubled \subseteq doubled', shared \subseteq shared',
         relinked \subseteq relinked'
  PROVE  EmailsFindTheirUser' /\ OneOwner'
<1>1. (\A e \in Emails : HomeOf(e)' \subseteq HomeOf(e)) /\ (\A c \in Firms : Owners(c)' \subseteq Owners(c))
  BY DEF HomeOf, Named, There, Owners, In
<1>2. GoogleFollowsEmail'
  BY DEF EmailsFindTheirUser, GoogleFollowsEmail
<1>3. QED BY <1>1, <1>2, NoNewEmail, NoNewOwner DEF EmailsFindTheirUser

\* No step breaks them.
LEMMA PropertiesStep ==
  ASSUME TypeOK, \A x \in Requests : Informed(job[x]), EmailsFindTheirUser, OneOwner, [Next]_vars
  PROVE  EmailsFindTheirUser' /\ OneOwner'
<1> USE DEF others
<1>1. ASSUME NEW r \in Requests, NEW g \in BOOLEAN, CreateTenant(r, g) PROVE EmailsFindTheirUser' /\ OneOwner'
  <2>1. PICK u \in Spare, c \in Firms :
          /\ Unmade(c) /\ Gives(job[r].email, u, r)
          /\ users' = [users EXCEPT ![u] = [NoUser EXCEPT !.firm = c, !.email = job[r].email, !.role = "OWNER",
                                             !.google = IF g THEN job[r].email ELSE NoEmail]]
    BY <1>1 DEF CreateTenant
  <2>2. job[r].email \in AllEmails
    BY DEF TypeOK, Job
  <2>3. PICK x \in User : x = [NoUser EXCEPT !.firm = c, !.email = job[r].email, !.role = "OWNER",
                                             !.google = IF g THEN job[r].email ELSE NoEmail]
    BY <2>2 DEF NoUser, User, Roles, AllFirms, AllEmails
  <2>4. x.email = job[r].email /\ x.firm = c /\ x.google \in {NoEmail, x.email}
    BY <2>3 DEF NoUser
  <2>5. job[r].at = "register" /\ job[r].clear
    BY <1>1 DEF CreateTenant, Informed
  <2>6. doubled \subseteq doubled' /\ (Taken(x.email, u) => x.email \in doubled')
    BY <2>1, <2>4, <2>5 DEF Gives
  <2>7. In(c) = {}
    BY <2>1 DEF Unmade
  <2>8. UNCHANGED <<shared, relinked>> /\ users' = [users EXCEPT ![u] = x]
    BY <1>1, <2>1, <2>3 DEF CreateTenant
  <2>9. QED BY <2>4, <2>6, <2>7, <2>8, NewUser, NewOwner
<1>2. ASSUME NEW r \in Requests, ClientCreated(r) PROVE EmailsFindTheirUser' /\ OneOwner'
  <2>1. PICK u \in Spare, c \in Firms :
          /\ Unmade(c) /\ Gives(job[r].email, u, r)
          /\ users' = [users EXCEPT ![u] = [NoUser EXCEPT !.firm = c, !.email = job[r].email, !.role = "OWNER"]]
    BY <1>2 DEF ClientCreated
  <2>2. job[r].email \in AllEmails
    BY DEF TypeOK, Job
  <2>3. PICK x \in User : x = [NoUser EXCEPT !.firm = c, !.email = job[r].email, !.role = "OWNER"]
    BY <2>2 DEF NoUser, User, Roles, AllFirms, AllEmails
  <2>4. x.email = job[r].email /\ x.firm = c /\ x.google = NoEmail
    BY <2>3 DEF NoUser
  <2>5. job[r].at = "client" /\ job[r].clear
    BY <1>2 DEF ClientCreated, Informed
  <2>6. doubled \subseteq doubled' /\ (Taken(x.email, u) => x.email \in doubled')
    BY <2>1, <2>4, <2>5 DEF Gives
  <2>7. In(c) = {}
    BY <2>1 DEF Unmade
  <2>8. UNCHANGED <<shared, relinked>> /\ users' = [users EXCEPT ![u] = x]
    BY <1>2, <2>1, <2>3 DEF ClientCreated
  <2>9. QED BY <2>4, <2>6, <2>7, <2>8, NewUser, NewOwner
<1>3. ASSUME NEW r \in Requests, LinkedCreated(r) PROVE EmailsFindTheirUser' /\ OneOwner'
  <2>1. PICK u \in Spare, c \in Firms :
          users' = [users EXCEPT ![u] = [NoUser EXCEPT !.firm = c, !.email = job[r].email, !.role = "OWNER",
                                          !.home = FALSE]]
    BY <1>3 DEF LinkedCreated
  <2>2. job[r].email \in AllEmails
    BY DEF TypeOK, Job
  <2>3. PICK x \in User : x = [NoUser EXCEPT !.firm = c, !.email = job[r].email, !.role = "OWNER", !.home = FALSE]
    BY <2>2 DEF NoUser, User, Roles, AllFirms, AllEmails
  <2>4. ~x.home /\ x.google = NoEmail
    BY <2>3 DEF NoUser
  <2>5. UNCHANGED <<doubled, shared, relinked>> /\ users' = [users EXCEPT ![u] = x]
    BY <1>3, <2>1, <2>3 DEF LinkedCreated
  <2>6. QED BY <2>4, <2>5, NewUser, NewOwner
<1>4. ASSUME NEW c \in Firms, NEW e \in Emails, NEW role \in Roles, Invite(c, e, role)
      PROVE EmailsFindTheirUser' /\ OneOwner'
  <2>1. PICK u \in Spare : users' = [users EXCEPT ![u] = [NoUser EXCEPT !.firm = c, !.email = e, !.role = role]]
    BY <1>4 DEF Invite
  <2>2. PICK x \in User : x = [NoUser EXCEPT !.firm = c, !.email = e, !.role = role]
    BY DEF NoUser, User, Roles, AllFirms, AllEmails
  <2>3. x.email = e /\ x.google = NoEmail /\ x.role # "OWNER"
    BY <1>4, <2>2 DEF NoUser, Invite
  <2>4. Taken(e, u) => Taken(e, Nobody)
    BY NobodyAssumption DEF Taken, HomeOf, Named
  <2>5. doubled \subseteq doubled' /\ (Taken(x.email, u) => x.email \in doubled')
    BY <1>4, <2>3, <2>4 DEF Invite
  <2>6. UNCHANGED <<shared, relinked>> /\ users' = [users EXCEPT ![u] = x]
    BY <1>4, <2>1, <2>2 DEF Invite
  <2>7. QED BY <2>3, <2>5, <2>6, NewUser, NewOwner
<1>5. ASSUME NEW r \in Requests, StaffCreated(r) PROVE EmailsFindTheirUser' /\ OneOwner'
  <2>1. UNCHANGED <<shared, relinked>>
    BY <1>5 DEF StaffCreated
  <2>2. CASE UNCHANGED <<users, doubled>>
    BY <2>1, <2>2, SameUsers
  <2>3. CASE ~UNCHANGED <<users, doubled>>
    <3>1. PICK u \in Spare :
            /\ Gives(job[r].email, u, r)
            /\ users' = [users EXCEPT ![u] = [NoUser EXCEPT !.firm = Agency, !.email = job[r].email, !.agency = TRUE]]
      BY <1>5, <2>3 DEF StaffCreated
    <3>2. job[r].email \in AllEmails
      BY DEF TypeOK, Job
    <3>3. PICK x \in User : x = [NoUser EXCEPT !.firm = Agency, !.email = job[r].email, !.agency = TRUE]
      BY <3>2 DEF NoUser, User, Roles, AllFirms, AllEmails
    <3>4. x.email = job[r].email /\ x.google = NoEmail /\ x.role # "OWNER"
      BY <3>3 DEF NoUser
    <3>5. job[r].clear
      BY <1>5 DEF StaffCreated, Informed
    <3>6. doubled \subseteq doubled' /\ (Taken(x.email, u) => x.email \in doubled')
      BY <3>1, <3>4, <3>5 DEF Gives
    <3>7. users' = [users EXCEPT ![u] = x]
      BY <3>1, <3>3
    <3>8. QED BY <2>1, <3>4, <3>6, <3>7, NewUser, NewOwner
  <2>4. QED BY <2>2, <2>3
<1>6. ASSUME NEW r \in Requests, EmailChanged(r) PROVE EmailsFindTheirUser' /\ OneOwner'
  <2>0. PICK u, e : u = job[r].who /\ e = job[r].email
    OBVIOUS
  <2>1. UNCHANGED <<shared, relinked>> /\ u \in Users /\ job[r].clear /\ users[u] \in User
    BY <1>6, <2>0 DEF EmailChanged, Informed, TypeOK
  <2>2. CASE UNCHANGED <<users, doubled>>
    BY <2>1, <2>2, SameUsers
  <2>3. CASE Rename(u, e) /\ (IF users[u].home THEN Gives(e, u, r) ELSE UNCHANGED doubled)
    <3>1. users'[u] = [users[u] EXCEPT !.email = e, !.google = NoEmail] /\ \A v \in Users \ {u} : users'[v] = users[v]
      BY <2>1, <2>3 DEF Rename, AfterRename, Unlinked, TypeOK, User
    <3>2. /\ users'[u].email = e /\ users'[u].google = NoEmail /\ users'[u].home = users[u].home
          /\ users'[u].firm = users[u].firm /\ users'[u].role = users[u].role
      BY <2>1, <3>1 DEF User
    <3>3. doubled \subseteq doubled' /\ (users[u].home /\ HomeOf(e) \ {u} # {} => e \in doubled')
      BY <2>0, <2>1, <2>3 DEF Gives, Taken
    <3>4. EmailReachesOne'
      <4>1. \A x \in Emails \ {e} : HomeOf(x)' \subseteq HomeOf(x)
        BY <3>1, <3>2 DEF HomeOf, Named, There
      <4>2. HomeOf(e)' \subseteq HomeOf(e) \cup {u}
        BY <3>1, <3>2 DEF HomeOf, Named, There
      <4>3. CASE users[u].home
        BY <3>3, <4>1, <4>2, <4>3, OneNewEmail DEF EmailsFindTheirUser
      <4>4. CASE ~users[u].home
        <5>1. HomeOf(e)' \subseteq HomeOf(e)
          BY <3>1, <3>2, <4>4 DEF HomeOf, Named, There
        <5>2. QED BY <3>3, <4>1, <5>1, NoNewEmail DEF EmailsFindTheirUser
      <4>5. QED BY <4>3, <4>4
    <3>5. GoogleFollowsEmail'
      BY <2>1, <3>1, <3>2 DEF EmailsFindTheirUser, GoogleFollowsEmail
    <3>6. \A c \in Firms : Owners(c)' \subseteq Owners(c)
      BY <3>1, <3>2 DEF Owners, In
    <3>7. QED BY <2>1, <3>4, <3>5, <3>6, NoNewOwner DEF EmailsFindTheirUser
  <2>4. QED BY <1>6, <2>0, <2>2, <2>3 DEF EmailChanged
<1>7. ASSUME NEW r \in Requests, LinkGoogle(r) PROVE EmailsFindTheirUser' /\ OneOwner'
  <2>0. PICK u, e : u = job[r].who /\ e = job[r].email
    OBVIOUS
  <2>1. UNCHANGED <<doubled, shared>> /\ u \in Users /\ users[u] \in User
    BY <1>7, <2>0 DEF LinkGoogle, Informed, TypeOK
  <2>2. CASE UNCHANGED <<users, relinked>>
    BY <2>1, <2>2, SameUsers
  <2>3. CASE users' = [users EXCEPT ![u].google = e]
             /\ relinked' = IF users[u].email # e THEN relinked \cup {u} ELSE relinked
    <3>1. \A v \in Users : /\ users'[v].email = users[v].email /\ users'[v].home = users[v].home
                           /\ users'[v].firm = users[v].firm /\ users'[v].role = users[v].role
                           /\ users'[v].google = IF v = u THEN e ELSE users[v].google
      BY <2>1, <2>3 DEF TypeOK, User
    <3>2. (\A x \in Emails : HomeOf(x)' \subseteq HomeOf(x)) /\ (\A c \in Firms : Owners(c)' \subseteq Owners(c))
      BY <3>1 DEF HomeOf, Named, There, Owners, In
    <3>3. GoogleFollowsEmail'
      BY <2>3, <3>1 DEF EmailsFindTheirUser, GoogleFollowsEmail
    <3>4. QED BY <2>1, <3>2, <3>3, NoNewEmail, NoNewOwner DEF EmailsFindTheirUser
  <2>4. QED BY <1>7, <2>0, <2>2, <2>3 DEF LinkGoogle
<1>8. ASSUME NEW r \in Requests, OwnershipMoves(r) PROVE EmailsFindTheirUser' /\ OneOwner'
  <2>0. PICK u, c, e : u = job[r].who /\ c = job[r].firm /\ e = job[r].email
    OBVIOUS
  <2>1. /\ relinked' = relinked /\ shared' = IF Owners(c) \ {u} # {} THEN shared \cup {c} ELSE shared
        /\ job[r].at = "handover" /\ job[r] \in Job
    BY <1>8, <2>0 DEF OwnershipMoves, TypeOK
  <2>2. ASSUME NEW v \in Users PROVE
          \A w \in Users : /\ WithNewOwner(c, u, v)[w].email = users[w].email
                           /\ WithNewOwner(c, u, v)[w].home = users[w].home
                           /\ WithNewOwner(c, u, v)[w].firm = users[w].firm
                           /\ WithNewOwner(c, u, v)[w].google = users[w].google
                           /\ WithNewOwner(c, u, v)[w].role = IF w = u THEN "ADMIN" ELSE IF w = v THEN "OWNER"
                                                              ELSE users[w].role
    BY DEF WithNewOwner, SoleOwner, TypeOK, User
  <2>3. CASE UNCHANGED <<users, doubled>>
    BY <2>1, <2>3, SameUsers
  <2>4. CASE job[r].target # Nobody /\ users' = WithNewOwner(c, u, job[r].target) /\ UNCHANGED doubled
    <3>1. PICK v \in Users : v = job[r].target /\ users[v].firm = c
      BY <2>0, <2>1, <2>4 DEF Informed
    <3>2. \A w \in Users : /\ users'[w].email = users[w].email /\ users'[w].home = users[w].home
                           /\ users'[w].firm = users[w].firm /\ users'[w].google = users[w].google
                           /\ users'[w].role = IF w = u THEN "ADMIN" ELSE IF w = v THEN "OWNER" ELSE users[w].role
      BY <2>2, <2>4, <3>1
    <3>3. (\A x \in Emails : HomeOf(x)' \subseteq HomeOf(x)) /\ GoogleFollowsEmail'
      BY <2>1, <3>2 DEF HomeOf, Named, There, EmailsFindTheirUser, GoogleFollowsEmail
    <3>4. \A d \in Firms \ {c} : Owners(d)' \subseteq Owners(d)
      BY <3>1, <3>2 DEF Owners, In
    <3>5. c \notin shared' => Owners(c)' \subseteq {v}
      BY <2>1, <3>2 DEF Owners, In
    <3>6. QED BY <2>1, <2>4, <3>3, <3>4, <3>5, NoNewEmail, OneNewOwner DEF EmailsFindTheirUser
  <2>5. CASE job[r].target = Nobody /\ \E v \in Spare :
          /\ users' = [WithNewOwner(c, u, v) EXCEPT ![v] = [NoUser EXCEPT !.firm = c, !.email = e, !.role = "OWNER"]]
          /\ Gives(e, v, r)
    <3>1. PICK v \in Spare :
            /\ users' = [WithNewOwner(c, u, v) EXCEPT ![v] = [NoUser EXCEPT !.firm = c, !.email = e, !.role = "OWNER"]]
            /\ Gives(e, v, r)
      BY <2>5
    <3>2. v \in Users /\ DOMAIN WithNewOwner(c, u, v) = Users /\ users[v].firm = NoFirm
      BY DEF Spare, There, WithNewOwner, SoleOwner
    <3>3. /\ users'[v].email = e /\ users'[v].firm = c /\ users'[v].google = NoEmail
          /\ \A w \in Users \ {v} : users'[w] = WithNewOwner(c, u, v)[w]
      BY <3>1, <3>2 DEF NoUser
    <3>4. \A w \in Users \ {v} :
             /\ users'[w].email = users[w].email /\ users'[w].home = users[w].home
             /\ users'[w].firm = users[w].firm /\ users'[w].google = users[w].google
             /\ users'[w].role = IF w = u THEN "ADMIN" ELSE users[w].role
      BY <2>2, <3>2, <3>3
    <3>5. doubled \subseteq doubled' /\ (HomeOf(e) \ {v} # {} => e \in doubled')
      BY <2>0, <2>1, <2>5, <3>1 DEF Gives, Taken, Informed
    <3>6. (\A x \in Emails \ {e} : HomeOf(x)' \subseteq HomeOf(x)) /\ HomeOf(e)' \subseteq HomeOf(e) \cup {v}
      BY <3>3, <3>4 DEF HomeOf, Named, There
    <3>7. EmailReachesOne'
      BY <3>5, <3>6, OneNewEmail DEF EmailsFindTheirUser
    <3>8. GoogleFollowsEmail'
      BY <2>1, <3>3, <3>4 DEF EmailsFindTheirUser, GoogleFollowsEmail
    <3>9. \A d \in Firms \ {c} : Owners(d)' \subseteq Owners(d)
      BY <3>3, <3>4 DEF Owners, In
    <3>10. c \notin shared' => Owners(c)' \subseteq {v}
      BY <2>1, <3>3, <3>4 DEF Owners, In
    <3>11. QED BY <2>1, <3>7, <3>8, <3>9, <3>10, OneNewOwner DEF EmailsFindTheirUser
  <2>6. QED BY <1>8, <2>0, <2>3, <2>4, <2>5 DEF OwnershipMoves
<1>9. ASSUME users' = users, doubled \subseteq doubled', shared \subseteq shared', relinked \subseteq relinked'
      PROVE EmailsFindTheirUser' /\ OneOwner'
  BY <1>9, SameUsers
<1>10. QED
  BY <1>1, <1>2, <1>3, <1>4, <1>5, <1>6, <1>7, <1>8, <1>9
     DEF Next, RegisterTenantWithGoogle, RegisterTenant, CreateClient, CreateAgencyStaff, LoginWithGoogle,
         ChangeEmail, TransferOwnership, ChangeOwner, CreateLinkedCompany, CreateBranch, CreateMembership, Crash,
         Login, Switch, Impersonate, AddBranch, Assign, Unassign, Manage, AccessExpires, vars

-----------------------------------------------------------------------------
(* The theorems.                                                           *)

LEMMA CompaniesInvInit == Init => CompaniesInv
<1> SUFFICES ASSUME Init PROVE CompaniesInv
  OBVIOUS
<1>1. \A u \in Users \ {First} : users[u] = NoUser
  BY DEF Init
<1>2. users[First] = [NoUser EXCEPT !.firm = Home, !.email = Mail, !.role = "OWNER"] /\ First \in Users
  BY FirstAssumption DEF Init
<1>3. users[First] \in User
  BY <1>2, FirstAssumption DEF NoUser, User, Roles, AllFirms, AllEmails
<1>4. TypeOK
  BY <1>1, <1>2, <1>3, NoUserType, IdleType, FirstAssumption DEF Init, TypeOK, AllFirms, Roles
<1>5. \A r \in Requests : Informed(job[r])
  BY IdleInformed DEF Init
<1>6. NoUser.firm = NoFirm /\ NoUser.google = NoEmail /\ NoUser.role = "STAFF" /\ users[First].google = NoEmail
  BY <1>2 DEF NoUser
<1>7. EmailsFindTheirUser
  BY <1>1, <1>2, <1>6 DEF EmailsFindTheirUser, EmailReachesOne, GoogleFollowsEmail, HomeOf, Named, There
<1>8. OneOwner
  BY <1>1, <1>6 DEF OneOwner, Owners, In
<1>9. QED BY <1>4, <1>5, <1>7, <1>8 DEF CompaniesInv

\* The invariant behind the next three: the types, what the requests know,
\* and the properties themselves.
THEOREM CompaniesInvHolds == Spec => []CompaniesInv
<1>1. CompaniesInv /\ [Next]_vars => CompaniesInv'
  BY TypeStep, InformedStep, PropertiesStep DEF CompaniesInv
<1>2. QED BY <1>1, CompaniesInvInit, PTL DEF Spec

\* The tables and the requests stay in their types.
THEOREM TypeCorrect == Spec => []TypeOK
<1>1. CompaniesInv => TypeOK
  BY DEF CompaniesInv
<1>2. QED BY <1>1, CompaniesInvHolds, PTL

\* Whatever registrations, invitations, renames, handovers and Google logins
\* overlap, an email and a Google account lead to one user, apart from the
\* emails and users whose requests crossed.
THEOREM EmailsFindTheirUserHolds == Spec => []EmailsFindTheirUser
<1>1. CompaniesInv => EmailsFindTheirUser
  BY DEF CompaniesInv
<1>2. QED BY <1>1, CompaniesInvHolds, PTL

\* However often and from wherever a company is handed over, it has one owner,
\* unless a former owner or two handovers at once did it.
THEOREM OneOwnerHolds == Spec => []OneOwner
<1>1. CompaniesInv => OneOwner
  BY DEF CompaniesInv
<1>2. QED BY <1>1, CompaniesInvHolds, PTL
-----------------------------------------------------------------------------
(* Sessions.                                                               *)
LEMMA SessionIdle == Session!Idle \in Session!Job
BY DEF Session!Idle, Session!Job, Session!Places

LEMMA SessionBecomes ==
  ASSUME Session!TypeOK, NEW r \in Requests, NEW j \in Session!Job, Session!Become(r, j)
  PROVE  /\ request' \in [Requests -> Session!Job]
         /\ request'[r] = j /\ \A q \in Requests \ {r} : request'[q] = request[q]
BY DEF Session!TypeOK, Session!Become

LEMMA SessionGoes ==
  ASSUME Session!TypeOK, NEW r \in Requests, NEW place \in Session!Places, Session!Goto(r, place)
  PROVE  /\ request' \in [Requests -> Session!Job]
         /\ request'[r] = [request[r] EXCEPT !.at = place] /\ \A q \in Requests \ {r} : request'[q] = request[q]
<1>1. request[r] \in Session!Job
  BY DEF Session!TypeOK
<1>2. [request[r] EXCEPT !.at = place] \in Session!Job
  BY <1>1 DEF Session!Job
<1>3. QED BY <1>2, SessionBecomes DEF Session!Goto

LEMMA SessionServes ==
  ASSUME Session!TypeOK, NEW r \in Requests, NEW b \in BOOLEAN, Session!Served(r, b)
  PROVE  /\ request' \in [Requests -> Session!Job]
         /\ request'[r].at = "served" /\ request'[r].excused = b /\ request'[r].wrong = Session!denied
         /\ \A q \in Requests \ {r} : request'[q] = request[q]
<1>1. Session!denied \in BOOLEAN
  BY DEF Session!denied
<1>2. [Session!Idle EXCEPT !.at = "served", !.excused = b, !.wrong = Session!denied] \in Session!Job
  BY <1>1, SessionIdle DEF Session!Job, Session!Places
<1>3. QED BY <1>2, SessionIdle, SessionBecomes DEF Session!Served, Session!Job

\* Requests only move on, or are served what they are owed.
LEMMA SessionJobs ==
  ASSUME Session!SessionsInv, [Session!Next]_sessions
  PROVE  request' \in [Requests -> Session!Job]
<1> USE DEF Session!SessionsInv
<1>1. ASSUME NEW r \in Requests, NEW t \in Tokens, Session!RefreshAccessToken(r, t) PROVE request' \in [Requests -> Session!Job]
  <2>1. [Session!Idle EXCEPT !.at = "checked", !.token = t] \in Session!Job
    BY SessionIdle DEF Session!Job, Session!Places
  <2>2. QED BY <1>1, <2>1, SessionBecomes DEF Session!RefreshAccessToken
<1>2. ASSUME NEW r \in Requests, NEW l \in Links, Session!ResetPassword(r, l) PROVE request' \in [Requests -> Session!Job]
  <2>1. [Session!Idle EXCEPT !.at = "claim", !.link = l] \in Session!Job
    BY SessionIdle DEF Session!Job, Session!Places
  <2>2. QED BY <1>2, <2>1, SessionBecomes DEF Session!ResetPassword
<1>3. ASSUME NEW r \in Requests, NEW kind, Session!RequireAuth(r, kind) PROVE request' \in [Requests -> Session!Job]
  <2>1. panel \/ (lateFill /\ shut < TTL) \in BOOLEAN
    OBVIOUS
  <2>2. [Session!Idle EXCEPT !.at = "ask"] \in Session!Job
    BY SessionIdle DEF Session!Job, Session!Places
  <2>3. CASE Session!Served(r, TRUE)
    BY <2>3, SessionServes
  <2>4. CASE Session!Served(r, panel \/ (lateFill /\ shut < TTL))
    BY <2>1, <2>4, SessionServes
  <2>5. CASE Session!Become(r, [Session!Idle EXCEPT !.at = "ask"])
    BY <2>2, <2>5, SessionBecomes
  <2>6. CASE UNCHANGED request
    BY <2>6 DEF Session!TypeOK
  <2>7. QED BY <1>3, <2>3, <2>4, <2>5, <2>6 DEF Session!RequireAuth
<1>4. ASSUME NEW r \in Requests, Session!AssertTenantOpen(r) \/ Session!RefreshCheck(r) \/ Session!ClaimLink(r) PROVE request' \in [Requests -> Session!Job]
  <2>1. "issue" \in Session!Places /\ "rotate" \in Session!Places /\ "hash" \in Session!Places
    BY DEF Session!Places
  <2>2. CASE \E place \in Session!Places : Session!Goto(r, place)
    BY <2>2, SessionGoes
  <2>3. CASE Session!Become(r, Session!Idle)
    BY <2>3, SessionIdle, SessionBecomes
  <2>4. QED BY <1>4, <2>1, <2>2, <2>3 DEF Session!AssertTenantOpen, Session!RefreshCheck, Session!ClaimLink
<1>5. ASSUME NEW r \in Requests, Session!IssueTokens(r) \/ Session!Rotate(r) \/ Session!CreatePasswordLink(r) \/ Session!SetPassword(r) \/ Session!Done(r)
      PROVE request' \in [Requests -> Session!Job]
  BY <1>5, SessionIdle, SessionBecomes DEF Session!IssueTokens, Session!Rotate, Session!CreatePasswordLink, Session!SetPassword, Session!Done
<1>6. ASSUME NEW r \in Requests, Session!ForgotPassword(r) \/ Session!ChangeOwnerEmail(r) \/ Session!Login(r) PROVE request' \in [Requests -> Session!Job]
  <2>1. [Session!Idle EXCEPT !.at = "make"] \in Session!Job
    BY SessionIdle DEF Session!Job, Session!Places
  <2>2. [Session!Idle EXCEPT !.at = "open", !.since = user.closings] \in Session!Job
    BY SessionIdle DEF Session!Job, Session!Places, Session!TypeOK
  <2>3. QED BY <1>6, <2>1, <2>2, SessionBecomes DEF Session!ForgotPassword, Session!ChangeOwnerEmail, Session!Login
<1>7. ASSUME NEW r \in Requests, Session!CheckAccess(r) PROVE request' \in [Requests -> Session!Job]
  <2>1. [request[r] EXCEPT !.at = "keep", !.denied = Session!denied] \in Session!Job
    <3>1. Session!denied \in BOOLEAN
      BY DEF Session!denied
    <3>2. request[r] \in Session!Job
      BY DEF Session!TypeOK
    <3>3. QED BY <3>1, <3>2 DEF Session!Job, Session!Places
  <2>2. QED BY <1>7, <2>1, SessionBecomes DEF Session!CheckAccess
<1>8. ASSUME NEW r \in Requests, Session!KeepAnswer(r) PROVE request' \in [Requests -> Session!Job]
  <2>1. CASE Session!Served(r, TRUE)
    BY <2>1, SessionServes
  <2>2. CASE Session!Become(r, Session!Idle)
    BY <2>2, SessionIdle, SessionBecomes
  <2>3. QED BY <1>8, <2>1, <2>2 DEF Session!KeepAnswer
<1>9. CASE UNCHANGED request
  BY <1>9 DEF Session!TypeOK
<1>10. QED
  BY <1>1, <1>2, <1>3, <1>4, <1>5, <1>6, <1>7, <1>8, <1>9
     DEF Session!Next, sessions, Session!SetTenantStatus, Session!SetUserActive, Session!ClearAccessCache, Session!Tick, Session!HourPasses, Session!TokenExpires

\* What becomes of the refresh tokens.
LEMMA NewTokens == Session!New(Tokens, tokens) \subseteq {t \in Tokens : tokens[t].state = "none"}
<1>1. CASE Session!Unmade(Tokens, tokens) = {}
  BY <1>1 DEF Session!New
<1>2. CASE Session!Unmade(Tokens, tokens) # {}
  <2>1. (CHOOSE x \in Session!Unmade(Tokens, tokens) : TRUE) \in Session!Unmade(Tokens, tokens)
    BY <1>2
  <2>2. QED BY <2>1 DEF Session!New, Session!Unmade
<1>3. QED BY <1>1, <1>2

LEMMA NewLinks == Session!New(Links, links) \subseteq {l \in Links : links[l].state = "none"}
<1>1. CASE Session!Unmade(Links, links) = {}
  BY <1>1 DEF Session!New
<1>2. CASE Session!Unmade(Links, links) # {}
  <2>1. (CHOOSE x \in Session!Unmade(Links, links) : TRUE) \in Session!Unmade(Links, links)
    BY <1>2
  <2>2. QED BY <2>1 DEF Session!New, Session!Unmade
<1>3. QED BY <1>1, <1>2

TokenRows == [Tokens -> [state : {"none", "live", "expired", "gone"}, since : Nat, late : BOOLEAN]]
TokensOK == tokens \in TokenRows /\ successors \in [Tokens -> Nat] /\ \A t \in Tokens : Session!TokenInv(t)

LEMMA SessionTokens ==
  ASSUME Session!SessionsInv, [Session!Next]_sessions
  PROVE  TokensOK'
<1>0. TokensOK /\ user \in [active : BOOLEAN, closings : Nat] /\ request \in [Requests -> Session!Job]
  BY DEF Session!SessionsInv, Session!TypeOK, TokensOK, TokenRows
<1>1. ASSUME NEW r \in Requests, Session!IssueTokens(r) PROVE TokensOK'
  <2>1. PICK t \in Tokens : tokens[t].state = "none" /\ tokens' = Session!Born(t, request[r].since)
    BY <1>1, NewTokens DEF Session!IssueTokens
  <2>2. request[r].since \in Nat
    BY <1>0 DEF Session!Job
  <2>3. UNCHANGED <<user, successors>>
    BY <1>1 DEF Session!IssueTokens
  <2>4. tokens' \in TokenRows
    <3>1. (request[r].since # user.closings) \in BOOLEAN
      OBVIOUS
    <3>2. QED BY <1>0, <2>1, <2>2, <3>1 DEF Session!Born, TokensOK, TokenRows
  <2>5. tokens'[t].state = "live" /\ tokens'[t].since = request[r].since /\ (tokens'[t].late <=> request[r].since # user.closings)
    BY <1>0, <2>1 DEF Session!Born, TokensOK, TokenRows
  <2>6. \A x \in Tokens \ {t} : tokens'[x] = tokens[x]
    BY <1>0, <2>1 DEF Session!Born, TokensOK, TokenRows
  <2>7. Session!TokenInv(t)'
    BY <1>0, <2>1, <2>3, <2>5 DEF TokensOK, Session!TokenInv
  <2>8. QED BY <1>0, <2>3, <2>4, <2>6, <2>7 DEF TokensOK, Session!TokenInv
<1>2. ASSUME NEW r \in Requests, Session!Rotate(r) PROVE TokensOK'
  <2>1. CASE Session!Replaces(request[r].token)
    <3>1. PICK old \in Tokens : old = request[r].token /\ tokens[old].state \in {"live", "expired"}
      BY <1>2, <2>1 DEF Session!Rotate, Session!SessionsInv, Session!Replaces, Session!CanDelete
    <3>2. PICK t \in Tokens : /\ tokens[t].state = "none"
                              /\ tokens' = [tokens EXCEPT ![old].state = "gone", ![t] = [@ EXCEPT
                                   !.state = "live", !.since = tokens[old].since, !.late = tokens[old].late]]
      BY <1>2, <2>1, <3>1, NewTokens DEF Session!Rotate
    <3>3. t # old
      BY <3>1, <3>2
    <3>4. UNCHANGED user /\ successors' = [successors EXCEPT ![old] = @ + 1]
      BY <1>2, <2>1, <3>1 DEF Session!Rotate
    <3>5. tokens[old] \in [state : {"none", "live", "expired", "gone"}, since : Nat, late : BOOLEAN]
      BY <1>0, <3>1 DEF TokensOK, TokenRows
    <3>6. /\ tokens'[old].state = "gone" /\ tokens'[old].since = tokens[old].since /\ tokens'[old].late = tokens[old].late
          /\ tokens'[t].state = "live" /\ tokens'[t].since = tokens[old].since /\ tokens'[t].late = tokens[old].late
          /\ \A x \in Tokens \ {t, old} : tokens'[x] = tokens[x]
      BY <1>0, <3>1, <3>2, <3>3 DEF TokensOK, TokenRows
    <3>7. tokens' \in TokenRows
      <4> DEFINE Row == [state : {"none", "live", "expired", "gone"}, since : Nat, late : BOOLEAN]
                 given == [tokens[t] EXCEPT !.state = "live", !.since = tokens[old].since, !.late = tokens[old].late]
                 ended == [tokens[old] EXCEPT !.state = "gone"]
      <4>1. given \in Row /\ ended \in Row
        BY <1>0, <3>5 DEF TokensOK, TokenRows
      <4>2. tokens' = [tokens EXCEPT ![old] = ended, ![t] = given]
        BY <1>0, <3>1, <3>2, <3>3 DEF TokensOK, TokenRows
      <4> HIDE DEF given, ended, Row
      <4>3. tokens' \in [Tokens -> Row]
        BY <1>0, <4>1, <4>2 DEF TokensOK, TokenRows, Row
      <4>4. QED BY <4>3 DEF TokenRows, Row
    <3>8. successors' \in [Tokens -> Nat] /\ successors'[old] <= 1 /\ \A x \in Tokens \ {old} : successors'[x] = successors[x]
      BY <1>0, <3>1, <3>4 DEF TokensOK, Session!TokenInv
    <3>9. Session!TokenInv(old)'
      BY <3>6, <3>8 DEF Session!TokenInv
    <3>10. Session!TokenInv(t)'
      BY <1>0, <3>1, <3>2, <3>3, <3>4, <3>6, <3>8 DEF Session!TokenInv, TokensOK
    <3>11. \A x \in Tokens \ {t, old} : Session!TokenInv(x)'
      BY <1>0, <3>4, <3>6, <3>8 DEF Session!TokenInv, TokensOK
    <3>12. QED BY <3>7, <3>8, <3>9, <3>10, <3>11 DEF TokensOK
  <2>2. CASE ~Session!Replaces(request[r].token)
    BY <1>0, <1>2, <2>2 DEF Session!Rotate, TokensOK, Session!TokenInv
  <2>3. QED BY <2>1, <2>2
<1>3. ASSUME Session!CloseSessions, UNCHANGED successors, user' = [user EXCEPT !.closings = @ + 1] PROVE TokensOK'
  <2>1. \A t \in Tokens : /\ tokens'[t].state \in {"none", "gone"} /\ (tokens'[t].state = "none") = (tokens[t].state = "none")
                          /\ tokens'[t] \in [state : {"none", "live", "expired", "gone"}, since : Nat, late : BOOLEAN]
    BY <1>0, <1>3 DEF Session!CloseSessions, Session!AfterReset, Session!Close, TokensOK, TokenRows
  <2>2. tokens' \in TokenRows
    BY <1>3, <2>1 DEF Session!CloseSessions, TokenRows
  <2>3. \A t \in Tokens : Session!TokenInv(t)'
    BY <1>0, <1>3, <2>1 DEF TokensOK, Session!TokenInv
  <2>4. QED BY <1>0, <1>3, <2>2, <2>3 DEF TokensOK
<1>4. ASSUME NEW r \in Requests, Session!SetPassword(r) \/ Session!ChangeOwnerEmail(r) PROVE TokensOK'
  BY <1>3, <1>4 DEF Session!SetPassword, Session!ChangeOwnerEmail, Session!store
<1>5. ASSUME NEW t \in Tokens, Session!TokenExpires(t) PROVE TokensOK'
  <2>1. tokens[t].state = "live" /\ tokens' = [tokens EXCEPT ![t].state = "expired"] /\ UNCHANGED <<user, successors>>
    BY <1>5 DEF Session!TokenExpires
  <2>2. tokens' \in TokenRows
    BY <1>0, <2>1 DEF TokensOK, TokenRows
  <2>3. /\ \A x \in Tokens \ {t} : tokens'[x] = tokens[x]
        /\ tokens'[t].state = "expired" /\ tokens'[t].since = tokens[t].since /\ tokens'[t].late = tokens[t].late
    BY <1>0, <2>1 DEF TokensOK, TokenRows
  <2>4. QED BY <1>0, <2>1, <2>2, <2>3 DEF TokensOK, Session!TokenInv
<1>6. CASE UNCHANGED <<tokens, successors>> /\ user'.closings = user.closings
  BY <1>0, <1>6 DEF TokensOK, Session!TokenInv
<1>7. ASSUME NEW b \in BOOLEAN, Session!SetUserActive(b) PROVE TokensOK'
  BY <1>0, <1>6, <1>7 DEF Session!SetUserActive, Session!store
<1>8. CASE UNCHANGED <<user, tokens, successors>>
  BY <1>6, <1>8
<1>9. QED
  BY <1>1, <1>2, <1>4, <1>5, <1>7, <1>8
     DEF Session!Next, sessions, Session!store, Session!RefreshAccessToken, Session!ResetPassword, Session!RequireAuth, Session!AssertTenantOpen, Session!RefreshCheck, Session!ClaimLink, Session!CreatePasswordLink,
         Session!Done, Session!ForgotPassword, Session!Login, Session!CheckAccess, Session!KeepAnswer, Session!SetTenantStatus, Session!ClearAccessCache, Session!Tick, Session!HourPasses

\* What becomes of the links.
LinkRows == [Links -> [state : {"none", "open", "used", "expired"}, purpose : {"RESET"}, recent : BOOLEAN, uses : Nat]]
LinksOK == links \in LinkRows /\ Session!LinkInv

LEMMA SessionLinks ==
  ASSUME Session!SessionsInv, [Session!Next]_sessions
  PROVE  LinksOK'
<1>0. LinksOK /\ request \in [Requests -> Session!Job]
  BY DEF Session!SessionsInv, Session!TypeOK, LinksOK, LinkRows
<1>00. request' \in [Requests -> Session!Job]
  BY SessionJobs
<1>1. ASSUME UNCHANGED links, \A r \in Requests : request'[r].at \in {"claim", "hash"} => request'[r] = request[r] PROVE LinksOK'
  BY <1>0, <1>1 DEF LinksOK, Session!LinkInv, Session!Claims
<1>2. ASSUME NEW r \in Requests, UNCHANGED links, request'[r].at \notin {"claim", "hash"}, \A q \in Requests \ {r} : request'[q] = request[q] PROVE LinksOK'
  BY <1>1, <1>2
<1>3. ASSUME NEW r \in Requests, NEW l \in Links, Session!ResetPassword(r, l) PROVE LinksOK'
  <2>1. PICK j \in Session!Job : j = [Session!Idle EXCEPT !.at = "claim", !.link = l] /\ j.at = "claim" /\ j.link = l
    <3>1. [Session!Idle EXCEPT !.at = "claim", !.link = l] \in Session!Job
      BY SessionIdle DEF Session!Job, Session!Places
    <3>2. QED BY <3>1 DEF Session!Idle
  <2>2. request'[r].at = "claim" /\ request'[r].link = l /\ \A q \in Requests \ {r} : request'[q] = request[q]
    BY <1>3, <2>1, SessionBecomes DEF Session!ResetPassword, Session!SessionsInv
  <2>3. UNCHANGED links
    BY <1>3 DEF Session!ResetPassword, Session!store
  <2>4. QED BY <1>0, <2>2, <2>3 DEF LinksOK, Session!LinkInv, Session!Claims
<1>4. ASSUME NEW r \in Requests, Session!ClaimLink(r) PROVE LinksOK'
  <2>1. CASE Session!Claimable(request[r].link)
    <3>1. PICK l \in Links : l = request[r].link /\ links[l].state # "used"
      BY <1>0, <1>4, <2>1 DEF Session!ClaimLink, LinksOK, Session!LinkInv, Session!Claimable, Session!Unclaimed
    <3>2. links' = [links EXCEPT ![l].state = "used"] /\ Session!Goto(r, "hash")
      BY <1>4, <2>1, <3>1 DEF Session!ClaimLink
    <3>3. request'[r] = [request[r] EXCEPT !.at = "hash"] /\ \A q \in Requests \ {r} : request'[q] = request[q]
      BY <3>2, SessionGoes DEF Session!SessionsInv, Session!Places
    <3>4. request'[r].at = "hash" /\ request'[r].link = l
      BY <1>0, <3>1, <3>3 DEF Session!Job
    <3>5. links' \in LinkRows
      BY <1>0, <3>1, <3>2 DEF LinksOK, LinkRows
    <3>6. /\ links'[l].state = "used" /\ links'[l].uses = links[l].uses /\ links[l].uses = 0
          /\ \A k \in Links \ {l} : links'[k] = links[k]
      BY <1>0, <3>1, <3>2 DEF LinksOK, LinkRows, Session!LinkInv
    <3>7. \A q \in Requests \ {r} : Session!Claims(q) => request[q].link # l
      BY <1>0, <3>1 DEF LinksOK, Session!LinkInv
    <3>8. (\A k \in Links : links[k].uses <= IF links[k].state = "used" THEN 1 ELSE 0)'
      BY <1>0, <3>6 DEF LinksOK, Session!LinkInv
    <3>9. (\A q \in Requests : request[q].at \in {"claim", "hash"} => request[q].link \in Links)'
      BY <1>0, <3>1, <3>3, <3>4, ZenonT(30) DEF LinksOK, Session!LinkInv
    <3>10. \A q \in Requests \ {r} : Session!Claims(q)' => links'[request'[q].link] = links[request[q].link]
      BY <1>0, <3>3, <3>6, <3>7 DEF LinksOK, Session!LinkInv, Session!Claims
    <3>11. ASSUME NEW q \in Requests, Session!Claims(q)' PROVE links'[request'[q].link].state = "used" /\ links'[request'[q].link].uses = 0
      <4>1. CASE q = r
        BY <3>4, <3>6, <4>1
      <4>2. CASE q # r
        BY <1>0, <3>3, <3>10, <3>11, <4>2 DEF LinksOK, Session!LinkInv, Session!Claims
      <4>3. QED BY <4>1, <4>2
    <3>12. ASSUME NEW q \in Requests, Session!Claims(q)', NEW x \in Requests \ {q}, Session!Claims(x)' PROVE request'[x].link # request'[q].link
      <4>1. CASE q = r
        BY <3>3, <3>4, <3>7, <3>12, <4>1 DEF Session!Claims
      <4>2. CASE x = r
        BY <3>3, <3>4, <3>7, <3>12, <4>2 DEF Session!Claims
      <4>3. CASE q # r /\ x # r
        BY <1>0, <3>3, <3>12, <4>3 DEF LinksOK, Session!LinkInv, Session!Claims
      <4>4. QED BY <4>1, <4>2, <4>3
    <3>13. QED BY <3>5, <3>8, <3>9, <3>11, <3>12 DEF LinksOK, Session!LinkInv
  <2>2. CASE ~Session!Claimable(request[r].link)
    BY <1>2, <1>4, <2>2, SessionIdle, SessionBecomes DEF Session!ClaimLink, Session!Idle, Session!SessionsInv
  <2>3. QED BY <2>1, <2>2
<1>5. ASSUME NEW r \in Requests, Session!CreatePasswordLink(r) PROVE LinksOK'
  <2>1. PICK l \in Links : links[l].state = "none" /\ Session!Open(l, "RESET")
    BY <1>5, NewLinks DEF Session!CreatePasswordLink
  <2>2. links' \in LinkRows
    BY <1>0, <2>1 DEF Session!Open, LinksOK, LinkRows
  <2>3. links'[l].state = "open" /\ links'[l].uses = 0 /\ \A k \in Links \ {l} : links'[k] = links[k]
    BY <1>0, <2>1 DEF Session!Open, LinksOK, LinkRows
  <2>4. request'[r].at = "idle" /\ \A q \in Requests \ {r} : request'[q] = request[q]
    BY <1>5, SessionIdle, SessionBecomes DEF Session!CreatePasswordLink, Session!Idle, Session!SessionsInv
  <2>5. \A q \in Requests : Session!Claims(q) => request[q].link # l
    BY <1>0, <2>1 DEF LinksOK, Session!LinkInv
  <2>6. QED BY <1>0, <2>1, <2>2, <2>3, <2>4, <2>5 DEF LinksOK, Session!LinkInv, Session!Claims
<1>6. ASSUME NEW r \in Requests, Session!SetPassword(r) PROVE LinksOK'
  <2>1. PICK l \in Links : l = request[r].link /\ links[l].state = "used" /\ links[l].uses = 0
    BY <1>0, <1>6 DEF Session!SetPassword, LinksOK, Session!LinkInv, Session!Claims
  <2>2. links' = [k \in Links |-> [Session!UseUp(k) EXCEPT !.uses = @ + (IF k = l THEN 1 ELSE 0)]]
    BY <1>6, <2>1 DEF Session!SetPassword
  <2>3. \A k \in Links : /\ links[k] \in [state : {"none", "open", "used", "expired"}, purpose : {"RESET"}, recent : BOOLEAN, uses : Nat]
                         /\ Session!UseUp(k) \in [state : {"none", "open", "used", "expired"}, purpose : {"RESET"}, recent : BOOLEAN, uses : Nat]
                         /\ Session!UseUp(k).uses = links[k].uses
                         /\ Session!UseUp(k).state = IF links[k].state = "open" THEN "used" ELSE links[k].state
    BY <1>0 DEF Session!UseUp, LinksOK, LinkRows
  <2>4. links' \in LinkRows
    BY <2>2, <2>3 DEF LinkRows
  <2>5. /\ links'[l].state = "used" /\ links'[l].uses = 1
        /\ \A k \in Links \ {l} : links'[k].uses = links[k].uses
        /\ \A k \in Links \ {l} : links[k].state = "used" => links'[k].state = "used"
        /\ \A k \in Links \ {l} : links[k].state = links'[k].state \/ links'[k].state = "used"
    BY <2>1, <2>2, <2>3
  <2>6. request'[r].at = "idle" /\ \A q \in Requests \ {r} : request'[q] = request[q]
    BY <1>6, SessionIdle, SessionBecomes DEF Session!SetPassword, Session!Idle, Session!SessionsInv
  <2>7. \A q \in Requests \ {r} : Session!Claims(q) => request[q].link # l
    BY <1>0, <1>6, <2>1 DEF LinksOK, Session!LinkInv, Session!Claims, Session!SetPassword
  <2>8. \A k \in Links : links'[k].uses <= IF links'[k].state = "used" THEN 1 ELSE 0
    BY <1>0, <2>3, <2>5 DEF LinksOK, Session!LinkInv
  <2>9. QED BY <1>0, <2>4, <2>5, <2>6, <2>7, <2>8 DEF LinksOK, Session!LinkInv, Session!Claims
<1>7. ASSUME Session!HourPasses PROVE LinksOK'
  <2>1. \A l \in Links : /\ links'[l].uses = links[l].uses /\ (links[l].state = "used" <=> links'[l].state = "used")
                         /\ links'[l] \in [state : {"none", "open", "used", "expired"}, purpose : {"RESET"}, recent : BOOLEAN, uses : Nat]
    BY <1>0, <1>7 DEF Session!HourPasses, LinksOK, LinkRows
  <2>2. links' \in LinkRows
    BY <1>7, <2>1 DEF Session!HourPasses, LinkRows
  <2>3. UNCHANGED request
    BY <1>7 DEF Session!HourPasses
  <2>4. QED BY <1>0, <2>1, <2>2, <2>3 DEF LinksOK, Session!LinkInv, Session!Claims
<1>8. ASSUME NEW r \in Requests, NEW j \in Session!Job, Session!Become(r, j), j.at \notin {"claim", "hash"}, UNCHANGED links PROVE LinksOK'
  BY <1>2, <1>8, SessionBecomes DEF Session!SessionsInv
<1>9. ASSUME NEW r \in Requests, NEW t \in Tokens, Session!RefreshAccessToken(r, t) PROVE LinksOK'
  <2>1. [Session!Idle EXCEPT !.at = "checked", !.token = t] \in Session!Job
    BY SessionIdle DEF Session!Job, Session!Places
  <2>2. [Session!Idle EXCEPT !.at = "checked", !.token = t].at = "checked"
    BY DEF Session!Idle
  <2>3. QED BY <1>8, <1>9, <2>1, <2>2 DEF Session!RefreshAccessToken, Session!store
<1>10. ASSUME NEW r \in Requests, NEW b \in BOOLEAN, Session!Served(r, b), UNCHANGED links PROVE LinksOK'
  BY <1>2, <1>10, SessionServes DEF Session!SessionsInv
<1>11. ASSUME NEW r \in Requests, Session!Become(r, Session!Idle), UNCHANGED links PROVE LinksOK'
  BY <1>8, <1>11, SessionIdle DEF Session!Idle
<1>12. ASSUME NEW r \in Requests, NEW place \in Session!Places \ {"claim", "hash"}, Session!Goto(r, place), UNCHANGED links PROVE LinksOK'
  <2>1. request'[r] = [request[r] EXCEPT !.at = place] /\ \A q \in Requests \ {r} : request'[q] = request[q]
    BY <1>12, SessionGoes DEF Session!SessionsInv
  <2>2. request'[r].at = place
    BY <1>0, <2>1 DEF Session!Job
  <2>3. QED BY <1>2, <1>12, <2>1, <2>2
<1>13. ASSUME NEW r \in Requests, NEW kind, Session!RequireAuth(r, kind) PROVE LinksOK'
  <2>1. (panel \/ (lateFill /\ shut < TTL)) \in BOOLEAN /\ UNCHANGED links
    BY <1>13 DEF Session!RequireAuth, Session!store
  <2>2. [Session!Idle EXCEPT !.at = "ask"] \in Session!Job /\ [Session!Idle EXCEPT !.at = "ask"].at = "ask"
    BY SessionIdle DEF Session!Job, Session!Places, Session!Idle
  <2>3. CASE Session!Served(r, TRUE) \/ Session!Served(r, panel \/ (lateFill /\ shut < TTL))
    BY <1>10, <2>1, <2>3
  <2>4. CASE Session!Become(r, [Session!Idle EXCEPT !.at = "ask"])
    BY <1>8, <2>1, <2>2, <2>4
  <2>5. CASE UNCHANGED request
    BY <1>1, <2>1, <2>5
  <2>6. QED BY <1>13, <2>3, <2>4, <2>5 DEF Session!RequireAuth
<1>14. ASSUME NEW r \in Requests, Session!CheckAccess(r) \/ Session!ForgotPassword(r) \/ Session!ChangeOwnerEmail(r) \/ Session!Login(r) PROVE LinksOK'
  <2>1. \A place \in Session!Places, n \in Nat : [Session!Idle EXCEPT !.at = place, !.since = n] \in Session!Job /\ [Session!Idle EXCEPT !.at = place, !.since = n].at = place
    BY SessionIdle DEF Session!Job, Session!Idle
  <2>2. \A place \in Session!Places : [Session!Idle EXCEPT !.at = place] \in Session!Job /\ [Session!Idle EXCEPT !.at = place].at = place
    BY SessionIdle DEF Session!Job, Session!Idle
  <2>3. [request[r] EXCEPT !.at = "keep", !.denied = Session!denied] \in Session!Job /\ [request[r] EXCEPT !.at = "keep", !.denied = Session!denied].at = "keep"
    <3>1. Session!denied \in BOOLEAN
      BY DEF Session!denied
    <3>2. QED BY <1>0, <3>1 DEF Session!Job, Session!Places
  <2>4. "open" \in Session!Places /\ "make" \in Session!Places /\ user.closings \in Nat
    BY DEF Session!Places, Session!SessionsInv, Session!TypeOK
  <2>5. UNCHANGED links
    BY <1>14 DEF Session!CheckAccess, Session!ForgotPassword, Session!ChangeOwnerEmail, Session!Login, Session!store
  <2>6. QED BY <1>8, <1>14, <2>1, <2>2, <2>3, <2>4, <2>5 DEF Session!CheckAccess, Session!ForgotPassword, Session!ChangeOwnerEmail, Session!Login
<1>15. ASSUME NEW r \in Requests, Session!AssertTenantOpen(r) \/ Session!RefreshCheck(r) \/ Session!IssueTokens(r) \/ Session!Rotate(r) \/ Session!Done(r) \/ Session!KeepAnswer(r)
       PROVE LinksOK'
  <2>1. UNCHANGED links
    BY <1>15 DEF Session!AssertTenantOpen, Session!RefreshCheck, Session!IssueTokens, Session!Rotate, Session!Done, Session!KeepAnswer, Session!store
  <2>2. "issue" \in Session!Places /\ "rotate" \in Session!Places
    BY DEF Session!Places
  <2>3. QED BY <1>10, <1>11, <1>12, <1>15, <2>1, <2>2 DEF Session!AssertTenantOpen, Session!RefreshCheck, Session!IssueTokens, Session!Rotate, Session!Done, Session!KeepAnswer
<1>16. CASE UNCHANGED <<links, request>>
  BY <1>1, <1>16
<1>17. QED
  BY <1>3, <1>4, <1>5, <1>6, <1>7, <1>9, <1>13, <1>14, <1>15, <1>16
     DEF Session!Next, sessions, Session!store, Session!SetTenantStatus, Session!SetUserActive, Session!ClearAccessCache, Session!Tick, Session!TokenExpires

\* What the door knows: the cache, the panel and the closing.
LEMMA SessionDoor ==
  ASSUME Session!SessionsInv, [Session!Next]_sessions
  PROVE  Session!DoorInv' /\ Session!ClosedIsClosed'
<1> USE TTLAssumption
<1>0. Session!TypeOK /\ Session!DoorInv /\ Session!ClosedIsClosed /\ request \in [Requests -> Session!Job] /\ cache \in [known : BOOLEAN, denied : BOOLEAN, age : Nat]
      /\ shut \in Nat /\ panel \in BOOLEAN /\ lateFill \in BOOLEAN
  BY DEF Session!SessionsInv, Session!TypeOK
<1>00. request' \in [Requests -> Session!Job]
  BY SessionJobs
<1>1. ASSUME UNCHANGED Session!door, user'.active = user.active,
             \A r \in Requests : request'[r].at = "keep" => request'[r].at = request[r].at /\ request'[r].denied = request[r].denied,
             \A r \in Requests : request'[r].wrong => request'[r].excused
      PROVE Session!DoorInv' /\ Session!ClosedIsClosed'
  <2>1. Session!denied' = Session!denied /\ UNCHANGED <<cache, panel, shut, lateFill>>
    BY <1>1 DEF Session!denied, Session!isAccountOpen, Session!door
  <2>2. Session!DoorInv'
    BY <1>0, <1>1, <2>1 DEF Session!DoorInv
  <2>3. QED BY <1>1, <2>2 DEF Session!ClosedIsClosed
<1>2. ASSUME NEW r \in Requests, NEW j \in Session!Job, Session!Become(r, j), ~j.wrong, j.at # "keep", UNCHANGED Session!door, user'.active = user.active
      PROVE Session!DoorInv' /\ Session!ClosedIsClosed'
  <2>1. request'[r] = j /\ \A q \in Requests \ {r} : request'[q] = request[q]
    BY <1>0, <1>2, SessionBecomes
  <2>2. \A q \in Requests : request'[q].wrong => request'[q].excused
    BY <1>0, <1>2, <2>1 DEF Session!ClosedIsClosed
  <2>3. QED BY <1>1, <1>2, <2>1, <2>2
<1>3. ASSUME NEW r \in Requests, Session!Become(r, Session!Idle), UNCHANGED Session!door, user'.active = user.active
      PROVE Session!DoorInv' /\ Session!ClosedIsClosed'
  <2>1. Session!Idle.wrong = FALSE /\ Session!Idle.at = "idle"
    BY DEF Session!Idle
  <2>2. QED BY <1>2, <1>3, <2>1, SessionIdle
<1>4. ASSUME NEW r \in Requests, NEW place \in Session!Places \ {"keep"}, Session!Goto(r, place), UNCHANGED Session!door, user'.active = user.active
      PROVE Session!DoorInv' /\ Session!ClosedIsClosed'
  <2>1. request'[r] = [request[r] EXCEPT !.at = place] /\ \A q \in Requests \ {r} : request'[q] = request[q]
    BY <1>0, <1>4, SessionGoes
  <2>2. request'[r].at = place /\ request'[r].wrong = request[r].wrong /\ request'[r].excused = request[r].excused
    BY <1>0, <2>1 DEF Session!Job
  <2>3. \A q \in Requests : request'[q].wrong => request'[q].excused
    BY <1>0, <2>1, <2>2 DEF Session!ClosedIsClosed
  <2>4. QED BY <1>1, <1>4, <2>1, <2>2, <2>3
<1>5. ASSUME NEW r \in Requests, NEW b \in BOOLEAN, Session!Served(r, b), Session!denied => b
      PROVE  (\A q \in Requests : request'[q].wrong => request'[q].excused) /\ request'[r].at = "served" /\ \A q \in Requests \ {r} : request'[q] = request[q]
  <2>1. request'[r].at = "served" /\ request'[r].excused = b /\ request'[r].wrong = Session!denied /\ \A q \in Requests \ {r} : request'[q] = request[q]
    BY <1>0, <1>5, SessionServes
  <2>2. request'[r].wrong => request'[r].excused
    BY <1>5, <2>1
  <2>3. QED BY <1>0, <2>1, <2>2 DEF Session!ClosedIsClosed
<1>6. ASSUME NEW r \in Requests, NEW kind, Session!RequireAuth(r, kind) PROVE Session!DoorInv' /\ Session!ClosedIsClosed'
  <2>1. UNCHANGED Session!door /\ user'.active = user.active
    BY <1>6 DEF Session!RequireAuth
  <2>2. CASE Session!Served(r, TRUE)
    BY <1>1, <1>5, <2>1, <2>2
  <2>3. CASE Session!Hit /\ ~cache.denied /\ Session!Served(r, panel \/ (lateFill /\ shut < TTL))
    <3>1. Session!denied => panel \/ (lateFill /\ shut < TTL)
      BY <1>0, <2>3 DEF Session!DoorInv, Session!Hit
    <3>2. (panel \/ (lateFill /\ shut < TTL)) \in BOOLEAN
      OBVIOUS
    <3>3. PICK b \in BOOLEAN : Session!Served(r, b) /\ (Session!denied => b)
      BY <2>3, <3>1, <3>2
    <3>4. QED BY <1>1, <1>5, <2>1, <3>3
  <2>4. CASE Session!Become(r, [Session!Idle EXCEPT !.at = "ask"])
    <3>1. PICK j \in Session!Job : j = [Session!Idle EXCEPT !.at = "ask"] /\ j.at = "ask" /\ ~j.wrong
      <4>1. [Session!Idle EXCEPT !.at = "ask"] \in Session!Job
        BY SessionIdle DEF Session!Job, Session!Places
      <4>2. QED BY <4>1 DEF Session!Idle
    <3>2. QED BY <1>2, <2>1, <2>4, <3>1
  <2>5. CASE UNCHANGED request
    BY <1>0, <1>1, <2>1, <2>5 DEF Session!ClosedIsClosed
  <2>6. QED BY <1>6, <2>2, <2>3, <2>4, <2>5 DEF Session!RequireAuth
<1>7. ASSUME NEW r \in Requests, Session!CheckAccess(r) PROVE Session!DoorInv' /\ Session!ClosedIsClosed'
  <2>1. UNCHANGED <<Session!door, user>> /\ request[r].at = "ask"
    BY <1>7 DEF Session!CheckAccess
  <2>2. PICK j \in Session!Job : j = [request[r] EXCEPT !.at = "keep", !.denied = Session!denied] /\ j.at = "keep" /\ (j.denied <=> Session!denied)
                         /\ (j.wrong <=> request[r].wrong) /\ (j.excused <=> request[r].excused)
    <3>1. Session!denied \in BOOLEAN
      BY DEF Session!denied
    <3>2. request[r] \in Session!Job
      BY <1>0
    <3>3. [request[r] EXCEPT !.at = "keep", !.denied = Session!denied] \in Session!Job
      BY <3>1, <3>2 DEF Session!Job, Session!Places
    <3>4. QED BY <3>1, <3>2, <3>3 DEF Session!Job
  <2>3. request'[r] = j /\ \A q \in Requests \ {r} : request'[q] = request[q]
    BY <1>0, <1>7, <2>2, SessionBecomes DEF Session!CheckAccess
  <2>4. Session!denied' = Session!denied /\ UNCHANGED <<cache, panel, shut, lateFill>>
    BY <2>1 DEF Session!denied, Session!isAccountOpen, Session!door
  <2>5. Session!DoorInv'
    BY <1>0, <2>2, <2>3, <2>4 DEF Session!DoorInv
  <2>6. QED BY <1>0, <2>2, <2>3, <2>5, ZenonT(30) DEF Session!ClosedIsClosed
<1>8. ASSUME NEW r \in Requests, Session!KeepAnswer(r) PROVE Session!DoorInv' /\ Session!ClosedIsClosed'
  <2>1. UNCHANGED <<user, company, panel, shut>> /\ request[r].at = "keep"
    BY <1>8 DEF Session!KeepAnswer
  <2>2. Session!denied' = Session!denied
    BY <2>1 DEF Session!denied, Session!isAccountOpen
  <2>3. /\ request'[r].at # "keep" /\ \A q \in Requests \ {r} : request'[q] = request[q]
        /\ \A q \in Requests : request'[q].wrong => request'[q].excused
    <3>1. CASE request[r].denied
      <4>1. request'[r] = Session!Idle /\ \A q \in Requests \ {r} : request'[q] = request[q]
        BY <1>0, <1>8, <3>1, SessionIdle, SessionBecomes DEF Session!KeepAnswer
      <4>2. QED BY <1>0, <4>1 DEF Session!ClosedIsClosed, Session!Idle
    <3>2. CASE ~request[r].denied
      BY <1>5, <1>8, <3>2 DEF Session!KeepAnswer
    <3>3. QED BY <3>1, <3>2
  <2>4. cache'.known /\ cache'.denied = request[r].denied /\ cache'.age = 0 /\ (lateFill' <=> Session!denied /\ ~request[r].denied)
    BY <1>8 DEF Session!KeepAnswer
  <2>5. Session!denied /\ ~request[r].denied => shut = 0
    BY <1>0, <2>1 DEF Session!DoorInv
  <2>6. Session!denied => \A q \in Requests : request'[q].at = "keep" /\ ~request'[q].denied => shut = 0
    BY <1>0, <2>3 DEF Session!DoorInv
  <2>7. Session!DoorInv'
    BY <1>0, <2>1, <2>2, <2>4, <2>5, <2>6 DEF Session!DoorInv
  <2>8. QED BY <2>3, <2>7 DEF Session!ClosedIsClosed
<1>9. ASSUME Session!Changed, UNCHANGED request PROVE Session!DoorInv' /\ Session!ClosedIsClosed'
  BY <1>0, <1>9 DEF Session!Changed, Session!DoorInv, Session!ClosedIsClosed
<1>10. CASE Session!ClearAccessCache
  <2>1. Session!denied' = Session!denied /\ ~cache'.known /\ UNCHANGED <<request, shut>>
    BY <1>0, <1>10 DEF Session!ClearAccessCache, Session!denied, Session!isAccountOpen
  <2>2. QED BY <1>0, <2>1 DEF Session!DoorInv, Session!ClosedIsClosed
<1>11. CASE Session!Tick
  <2>1. /\ Session!denied' = Session!denied /\ UNCHANGED <<request, panel, lateFill>> /\ \A r \in Requests : request[r].at # "keep"
        /\ cache'.known = cache.known /\ cache'.denied = cache.denied
        /\ cache'.age = (IF cache.age < TTL THEN cache.age + 1 ELSE cache.age) /\ shut' = (IF shut < TTL THEN shut + 1 ELSE shut)
    BY <1>0, <1>11 DEF Session!Tick, Session!denied, Session!isAccountOpen
  <2>2. shut <= cache.age => shut' <= cache'.age
    BY <1>0, <2>1
  <2>3. QED BY <1>0, <2>1, <2>2 DEF Session!DoorInv, Session!ClosedIsClosed
<1>12. ASSUME NEW r \in Requests, NEW t \in Tokens, Session!RefreshAccessToken(r, t) PROVE Session!DoorInv' /\ Session!ClosedIsClosed'
  <2>1. PICK j \in Session!Job : j = [Session!Idle EXCEPT !.at = "checked", !.token = t] /\ j.at = "checked" /\ ~j.wrong
    <3>1. [Session!Idle EXCEPT !.at = "checked", !.token = t] \in Session!Job
      BY SessionIdle DEF Session!Job, Session!Places
    <3>2. QED BY <3>1 DEF Session!Idle
  <2>2. QED BY <1>2, <1>12, <2>1 DEF Session!RefreshAccessToken
<1>13. ASSUME NEW r \in Requests, NEW l \in Links, Session!ResetPassword(r, l) PROVE Session!DoorInv' /\ Session!ClosedIsClosed'
  <2>1. PICK j \in Session!Job : j = [Session!Idle EXCEPT !.at = "claim", !.link = l] /\ j.at = "claim" /\ ~j.wrong
    <3>1. [Session!Idle EXCEPT !.at = "claim", !.link = l] \in Session!Job
      BY SessionIdle DEF Session!Job, Session!Places
    <3>2. QED BY <3>1 DEF Session!Idle
  <2>2. QED BY <1>2, <1>13, <2>1 DEF Session!ResetPassword
<1>14. ASSUME NEW r \in Requests, Session!ForgotPassword(r) \/ Session!ChangeOwnerEmail(r) \/ Session!Login(r) PROVE Session!DoorInv' /\ Session!ClosedIsClosed'
  <2>1. PICK j \in Session!Job : j = [Session!Idle EXCEPT !.at = "make"] /\ j.at = "make" /\ ~j.wrong
    <3>1. [Session!Idle EXCEPT !.at = "make"] \in Session!Job
      BY SessionIdle DEF Session!Job, Session!Places
    <3>2. QED BY <3>1 DEF Session!Idle
  <2>2. PICK k \in Session!Job : k = [Session!Idle EXCEPT !.at = "open", !.since = user.closings] /\ k.at = "open" /\ ~k.wrong
    <3>1. [Session!Idle EXCEPT !.at = "open", !.since = user.closings] \in Session!Job
      BY SessionIdle DEF Session!Job, Session!Places, Session!SessionsInv, Session!TypeOK
    <3>2. QED BY <3>1 DEF Session!Idle
  <2>3. UNCHANGED Session!door /\ user'.active = user.active
    BY <1>0, <1>14 DEF Session!ForgotPassword, Session!ChangeOwnerEmail, Session!Login, Session!TypeOK
  <2>4. QED BY <1>2, <1>14, <2>1, <2>2, <2>3 DEF Session!ForgotPassword, Session!ChangeOwnerEmail, Session!Login
<1>15. ASSUME NEW r \in Requests, Session!SetPassword(r) PROVE Session!DoorInv' /\ Session!ClosedIsClosed'
  BY <1>0, <1>3, <1>15 DEF Session!SetPassword, Session!TypeOK
<1>16. ASSUME NEW r \in Requests,
              Session!AssertTenantOpen(r) \/ Session!RefreshCheck(r) \/ Session!ClaimLink(r) \/ Session!IssueTokens(r) \/ Session!Rotate(r) \/ Session!Done(r) \/ Session!CreatePasswordLink(r)
       PROVE Session!DoorInv' /\ Session!ClosedIsClosed'
  <2>1. UNCHANGED <<Session!door, user>>
    BY <1>16 DEF Session!AssertTenantOpen, Session!RefreshCheck, Session!ClaimLink, Session!IssueTokens, Session!Rotate, Session!Done, Session!CreatePasswordLink
  <2>2. "issue" \in Session!Places /\ "rotate" \in Session!Places /\ "hash" \in Session!Places
    BY DEF Session!Places
  <2>3. QED BY <1>3, <1>4, <1>16, <2>1, <2>2 DEF Session!AssertTenantOpen, Session!RefreshCheck, Session!ClaimLink, Session!IssueTokens, Session!Rotate, Session!Done, Session!CreatePasswordLink
<1>17. CASE UNCHANGED <<Session!door, user, request>>
  BY <1>0, <1>1, <1>17 DEF Session!ClosedIsClosed
<1>18. QED
  BY <1>6, <1>7, <1>8, <1>9, <1>10, <1>11, <1>12, <1>13, <1>14, <1>15, <1>16, <1>17
     DEF Session!Next, sessions, Session!door, Session!SetTenantStatus, Session!SetUserActive, Session!HourPasses, Session!TokenExpires

\* The rest: the types of what is left, and the token a request goes by.
LEMMA SessionRest ==
  ASSUME Session!SessionsInv, [Session!Next]_sessions
  PROVE  /\ user' \in [active : BOOLEAN, closings : Nat] /\ company' \in Session!Statuses
         /\ cache' \in [known : BOOLEAN, denied : BOOLEAN, age : Nat]
         /\ panel' \in BOOLEAN /\ shut' \in Nat /\ lateFill' \in BOOLEAN /\ events' \in Nat
<1> USE TTLAssumption
<1>0. /\ user \in [active : BOOLEAN, closings : Nat] /\ company \in Session!Statuses /\ request \in [Requests -> Session!Job]
      /\ cache \in [known : BOOLEAN, denied : BOOLEAN, age : Nat]
      /\ panel \in BOOLEAN /\ shut \in Nat /\ lateFill \in BOOLEAN /\ events \in Nat
  BY DEF Session!SessionsInv, Session!TypeOK
<1>1. user' \in [active : BOOLEAN, closings : Nat]
  <2>1. CASE user' = [user EXCEPT !.closings = @ + 1]
    BY <1>0, <2>1
  <2>2. ASSUME NEW b \in BOOLEAN, user' = [user EXCEPT !.active = b] PROVE user' \in [active : BOOLEAN, closings : Nat]
    BY <1>0, <2>2
  <2>3. CASE UNCHANGED user
    BY <1>0, <2>3
  <2>4. QED
    BY <2>1, <2>2, <2>3 DEF Session!Next, sessions, Session!SetPassword, Session!ChangeOwnerEmail, Session!SetUserActive, Session!RefreshAccessToken, Session!ResetPassword, Session!RequireAuth, Session!AssertTenantOpen, Session!RefreshCheck, Session!ClaimLink,
         Session!CreatePasswordLink, Session!Done, Session!ForgotPassword, Session!Login, Session!CheckAccess, Session!KeepAnswer, Session!SetTenantStatus, Session!ClearAccessCache, Session!Tick, Session!HourPasses,
         Session!TokenExpires, Session!IssueTokens, Session!Rotate
<1>2. company' \in Session!Statuses
  BY <1>0 DEF Session!Next, sessions, Session!door, Session!RefreshAccessToken, Session!ResetPassword, Session!RequireAuth, Session!AssertTenantOpen, Session!RefreshCheck, Session!ClaimLink, Session!CreatePasswordLink,
         Session!Done, Session!ForgotPassword, Session!Login, Session!CheckAccess, Session!KeepAnswer, Session!SetTenantStatus, Session!ClearAccessCache, Session!Tick, Session!HourPasses, Session!TokenExpires,
         Session!IssueTokens, Session!Rotate, Session!SetPassword, Session!ChangeOwnerEmail, Session!SetUserActive
<1>3. cache' \in [known : BOOLEAN, denied : BOOLEAN, age : Nat]
  <2>1. ASSUME NEW r \in Requests, Session!KeepAnswer(r) PROVE cache' \in [known : BOOLEAN, denied : BOOLEAN, age : Nat]
    <3>1. request[r].denied \in BOOLEAN
      BY <1>0 DEF Session!Job
    <3>2. QED BY <2>1, <3>1 DEF Session!KeepAnswer
  <2>2. CASE Session!Tick \/ Session!ClearAccessCache
    <3>1. cache.age + 1 \in Nat
      BY <1>0
    <3>2. (IF cache.age < TTL THEN cache.age + 1 ELSE cache.age) \in Nat
      BY <1>0, <3>1
    <3>3. CASE Session!Tick
      BY <1>0, <3>2, <3>3 DEF Session!Tick
    <3>4. CASE Session!ClearAccessCache
      BY <1>0, <3>4 DEF Session!ClearAccessCache
    <3>5. QED BY <2>2, <3>3, <3>4
  <2>3. CASE UNCHANGED cache
    BY <1>0, <2>3
  <2>4. QED
    BY <2>1, <2>2, <2>3 DEF Session!Next, sessions, Session!door, Session!RefreshAccessToken, Session!ResetPassword, Session!RequireAuth, Session!AssertTenantOpen, Session!RefreshCheck, Session!ClaimLink,
         Session!CreatePasswordLink, Session!Done, Session!ForgotPassword, Session!Login, Session!CheckAccess, Session!SetTenantStatus, Session!HourPasses, Session!TokenExpires,
         Session!IssueTokens, Session!Rotate, Session!SetPassword, Session!ChangeOwnerEmail, Session!SetUserActive
<1>4. panel' \in BOOLEAN /\ shut' \in Nat
  <2>1. CASE Session!Changed
    BY <2>1 DEF Session!Changed
  <2>2. CASE Session!Tick
    BY <1>0, <2>2 DEF Session!Tick
  <2>3. CASE panel' = FALSE /\ UNCHANGED shut
    BY <1>0, <2>3
  <2>4. CASE UNCHANGED <<panel, shut>>
    BY <1>0, <2>4
  <2>5. QED
    BY <2>1, <2>2, <2>3, <2>4 DEF Session!Next, sessions, Session!door, Session!SetPassword, Session!ChangeOwnerEmail, Session!SetUserActive, Session!RefreshAccessToken, Session!ResetPassword, Session!RequireAuth, Session!AssertTenantOpen, Session!RefreshCheck, Session!ClaimLink,
         Session!CreatePasswordLink, Session!Done, Session!ForgotPassword, Session!Login, Session!CheckAccess, Session!KeepAnswer, Session!SetTenantStatus, Session!ClearAccessCache, Session!HourPasses,
         Session!TokenExpires, Session!IssueTokens, Session!Rotate
<1>5. lateFill' \in BOOLEAN
  <2>1. ASSUME NEW r \in Requests, Session!KeepAnswer(r) PROVE lateFill' \in BOOLEAN
    BY <2>1 DEF Session!KeepAnswer
  <2>2. CASE Session!Changed \/ UNCHANGED lateFill
    BY <1>0, <2>2 DEF Session!Changed
  <2>3. QED
    BY <2>1, <2>2 DEF Session!Next, sessions, Session!door, Session!RefreshAccessToken, Session!ResetPassword, Session!RequireAuth, Session!AssertTenantOpen, Session!RefreshCheck, Session!ClaimLink,
         Session!CreatePasswordLink, Session!Done, Session!ForgotPassword, Session!Login, Session!CheckAccess, Session!SetTenantStatus, Session!ClearAccessCache, Session!Tick, Session!HourPasses, Session!TokenExpires,
         Session!IssueTokens, Session!Rotate, Session!SetPassword, Session!ChangeOwnerEmail, Session!SetUserActive
<1>6. events' \in Nat
  <2>1. CASE Session!Spend \/ UNCHANGED events
    BY <1>0, <2>1 DEF Session!Spend
  <2>2. QED
    BY <2>1 DEF Session!Next, sessions, Session!SetPassword, Session!ChangeOwnerEmail, Session!SetUserActive, Session!RefreshAccessToken, Session!ResetPassword, Session!RequireAuth, Session!AssertTenantOpen, Session!RefreshCheck, Session!ClaimLink,
         Session!CreatePasswordLink, Session!Done, Session!ForgotPassword, Session!Login, Session!CheckAccess, Session!KeepAnswer, Session!SetTenantStatus, Session!ClearAccessCache, Session!Tick, Session!HourPasses,
         Session!TokenExpires, Session!IssueTokens, Session!Rotate
<1>7. QED BY <1>1, <1>2, <1>3, <1>4, <1>5, <1>6


LEMMA SessionCarried ==
  ASSUME Session!SessionsInv, [Session!Next]_sessions
  PROVE  \A r \in Requests : request'[r].at \in {"checked", "rotate"} => request'[r].token \in Tokens
<1>0. Session!TypeOK /\ request \in [Requests -> Session!Job] /\ \A r \in Requests : request[r].at \in {"checked", "rotate"} => request[r].token \in Tokens
  BY DEF Session!SessionsInv, Session!TypeOK
<1> DEFINE Goal == \A r \in Requests : request'[r].at \in {"checked", "rotate"} => request'[r].token \in Tokens
<1>1. ASSUME NEW r \in Requests, NEW j \in Session!Job, Session!Become(r, j), j.at \in {"checked", "rotate"} => j.token \in Tokens PROVE Goal
  BY <1>0, <1>1, SessionBecomes
<1>2. ASSUME NEW r \in Requests, Session!Become(r, Session!Idle) PROVE Goal
  BY <1>1, <1>2, SessionIdle DEF Session!Idle
<1>3. ASSUME NEW r \in Requests, NEW place \in Session!Places, Session!Goto(r, place), place = "rotate" => request[r].at = "checked", place # "checked" PROVE Goal
  <2>1. request'[r] = [request[r] EXCEPT !.at = place] /\ \A q \in Requests \ {r} : request'[q] = request[q]
    BY <1>0, <1>3, SessionGoes
  <2>2. request'[r].at = place /\ request'[r].token = request[r].token
    BY <1>0, <2>1 DEF Session!Job
  <2>3. QED BY <1>0, <1>3, <2>1, <2>2
<1>4. ASSUME NEW r \in Requests, NEW b \in BOOLEAN, Session!Served(r, b) PROVE Goal
  BY <1>0, <1>4, SessionServes
<1>5. ASSUME NEW r \in Requests, NEW t \in Tokens, Session!RefreshAccessToken(r, t) PROVE Goal
  <2>1. PICK j \in Session!Job : j = [Session!Idle EXCEPT !.at = "checked", !.token = t] /\ j.token = t
    <3>1. [Session!Idle EXCEPT !.at = "checked", !.token = t] \in Session!Job
      BY SessionIdle DEF Session!Job, Session!Places
    <3>2. QED BY <3>1 DEF Session!Idle
  <2>2. QED BY <1>1, <1>5, <2>1 DEF Session!RefreshAccessToken
<1>6. \A l, n : \A place \in Session!Places \ {"checked", "rotate"} : [Session!Idle EXCEPT !.at = place, !.link = l].at = place
                                          /\ [Session!Idle EXCEPT !.at = place, !.since = n].at = place /\ [Session!Idle EXCEPT !.at = place].at = place
  BY DEF Session!Idle
<1>7. ASSUME NEW r \in Requests, NEW l \in Links, Session!ResetPassword(r, l) PROVE Goal
  <2>1. PICK j \in Session!Job : j = [Session!Idle EXCEPT !.at = "claim", !.link = l] /\ j.at = "claim"
    <3>1. [Session!Idle EXCEPT !.at = "claim", !.link = l] \in Session!Job
      BY SessionIdle DEF Session!Job, Session!Places
    <3>2. QED BY <3>1 DEF Session!Idle
  <2>2. QED BY <1>1, <1>7, <2>1 DEF Session!ResetPassword
<1>8. ASSUME NEW r \in Requests, Session!ForgotPassword(r) \/ Session!ChangeOwnerEmail(r) \/ Session!Login(r) \/ Session!Become(r, [Session!Idle EXCEPT !.at = "ask"]) PROVE Goal
  <2>1. PICK j \in Session!Job : j = [Session!Idle EXCEPT !.at = "make"] /\ j.at = "make"
    <3>1. [Session!Idle EXCEPT !.at = "make"] \in Session!Job
      BY SessionIdle DEF Session!Job, Session!Places
    <3>2. QED BY <3>1 DEF Session!Idle
  <2>2. PICK k \in Session!Job : k = [Session!Idle EXCEPT !.at = "open", !.since = user.closings] /\ k.at = "open"
    <3>1. [Session!Idle EXCEPT !.at = "open", !.since = user.closings] \in Session!Job
      BY SessionIdle DEF Session!Job, Session!Places, Session!SessionsInv, Session!TypeOK
    <3>2. QED BY <3>1 DEF Session!Idle
  <2>3. PICK i \in Session!Job : i = [Session!Idle EXCEPT !.at = "ask"] /\ i.at = "ask"
    <3>1. [Session!Idle EXCEPT !.at = "ask"] \in Session!Job
      BY SessionIdle DEF Session!Job, Session!Places
    <3>2. QED BY <3>1 DEF Session!Idle
  <2>4. QED BY <1>1, <1>8, <2>1, <2>2, <2>3 DEF Session!ForgotPassword, Session!ChangeOwnerEmail, Session!Login
<1>9. ASSUME NEW r \in Requests, NEW kind, Session!RequireAuth(r, kind) PROVE Goal
  <2>1. (panel \/ (lateFill /\ shut < TTL)) \in BOOLEAN
    OBVIOUS
  <2>2. CASE UNCHANGED request
    BY <1>0, <2>2
  <2>3. QED BY <1>4, <1>8, <1>9, <2>1, <2>2 DEF Session!RequireAuth
<1>10. ASSUME NEW r \in Requests, Session!CheckAccess(r) PROVE Goal
  <2>1. PICK j \in Session!Job : j = [request[r] EXCEPT !.at = "keep", !.denied = Session!denied] /\ j.at = "keep"
    <3>1. Session!denied \in BOOLEAN
      BY DEF Session!denied
    <3>2. request[r] \in Session!Job
      BY <1>0
    <3>3. [request[r] EXCEPT !.at = "keep", !.denied = Session!denied] \in Session!Job
      BY <3>1, <3>2 DEF Session!Job, Session!Places
    <3>4. QED BY <3>2, <3>3 DEF Session!Job
  <2>2. QED BY <1>1, <1>10, <2>1 DEF Session!CheckAccess
<1>11. ASSUME NEW r \in Requests, Session!RefreshCheck(r) \/ Session!AssertTenantOpen(r) \/ Session!ClaimLink(r) PROVE Goal
  <2>1. "issue" \in Session!Places /\ "rotate" \in Session!Places /\ "hash" \in Session!Places
    BY DEF Session!Places
  <2>2. QED BY <1>2, <1>3, <1>11, <2>1 DEF Session!RefreshCheck, Session!AssertTenantOpen, Session!ClaimLink
<1>12. ASSUME NEW r \in Requests, Session!IssueTokens(r) \/ Session!Rotate(r) \/ Session!Done(r) \/ Session!CreatePasswordLink(r) \/ Session!KeepAnswer(r) \/ Session!SetPassword(r) PROVE Goal
  BY <1>2, <1>4, <1>12 DEF Session!IssueTokens, Session!Rotate, Session!Done, Session!CreatePasswordLink, Session!KeepAnswer, Session!SetPassword
<1>13. CASE UNCHANGED request
  BY <1>0, <1>13
<1>14. QED
  BY <1>5, <1>7, <1>8, <1>9, <1>10, <1>11, <1>12, <1>13
     DEF Session!Next, sessions, Session!SetTenantStatus, Session!SetUserActive, Session!ClearAccessCache, Session!Tick, Session!HourPasses, Session!TokenExpires

LEMMA SessionsInit == Session!Init => Session!SessionsInv
<1> SUFFICES ASSUME Session!Init PROVE Session!SessionsInv
  OBVIOUS
<1>1. Session!TypeOK
  BY SessionIdle DEF Session!Init, Session!TypeOK, Session!Statuses, Session!Unused, Session!NoLinkYet
<1>2. Session!Idle.at = "idle" /\ Session!Idle.wrong = FALSE
  BY DEF Session!Idle
<1>3. Session!ClosedIsClosed /\ Session!LinkInv /\ \A r \in Requests : request[r].at \in {"checked", "rotate"} => request[r].token \in Tokens
  BY <1>2 DEF Session!Init, Session!ClosedIsClosed, Session!LinkInv, Session!Claims, Session!NoLinkYet
<1>4. Session!DoorInv
  BY <1>2 DEF Session!Init, Session!DoorInv
<1>5. \A t \in Tokens : Session!TokenInv(t)
  BY DEF Session!Init, Session!TokenInv, Session!Unused
<1>6. QED BY <1>1, <1>3, <1>4, <1>5 DEF Session!SessionsInv

LEMMA SessionsStep == ASSUME Session!SessionsInv, [Session!Next]_sessions PROVE Session!SessionsInv'
<1>1. Session!TypeOK'
  BY SessionJobs, SessionTokens, SessionLinks, SessionRest DEF Session!TypeOK, TokensOK, TokenRows, LinksOK, LinkRows
<1>2. QED BY <1>1, SessionTokens, SessionLinks, SessionDoor, SessionCarried DEF Session!SessionsInv, TokensOK, LinksOK

LEMMA SessionsPromise == Session!SessionsInv => Session!ClosedIsClosed /\ Session!ResetClosesSessions /\ Session!UsedOnce
<1> SUFFICES ASSUME Session!SessionsInv PROVE Session!ResetClosesSessions /\ Session!UsedOnce
  BY DEF Session!SessionsInv
<1>1. Session!ResetClosesSessions
  BY DEF Session!SessionsInv, Session!TokenInv, Session!ResetClosesSessions
<1>2. \A t \in Tokens : successors[t] <= 1
  BY DEF Session!SessionsInv, Session!TypeOK, Session!TokenInv
<1>3. \A l \in Links : links[l].uses <= 1
  BY DEF Session!SessionsInv, Session!TypeOK, Session!LinkInv
<1>4. QED BY <1>1, <1>2, <1>3 DEF Session!UsedOnce

-----------------------------------------------------------------------------
(* The services a company may use.                                         *)
\* The days of grace the company has.
GraceOf(p, g) == IF p.grace = None THEN g ELSE p.grace

\* Said once more, the same: what the code answers now is what is entitled now.
LEMMA AccessSays ==
  ASSUME Service!TypeOK, NEW m \in Services
  PROVE  Service!Entitled(m) <=> m \in Service!getEffectiveModules(plan, GraceOf(plan, grace))
<1>1. plan.until[m] \in Service!Times \cup {None} /\ clock \in Nat /\ plan.on \subseteq Services /\ plan.grace \in Graces \cup {None}
      /\ grace \in Graces \cup {0}
  BY DEF Service!TypeOK, Service!Plan, Service!Days
<1>2. GraceOf(plan, grace) \in Nat
  <2>1. \A g \in Graces : g \in Nat
    BY GracesAssumption
  <2>2. CASE plan.grace = None
    BY <1>1, <2>1, <2>2 DEF GraceOf
  <2>3. CASE plan.grace # None
    BY <1>1, <2>1, <2>3 DEF GraceOf
  <2>4. QED BY <2>2, <2>3
<1>3. plan.until[m] # None => (plan.until[m] + GraceOf(plan, grace) > clock <=> clock < plan.until[m] + GraceOf(plan, grace))
  BY <1>1, <1>2 DEF Service!Times
<1>4. Service!isModuleActive(plan, m, GraceOf(plan, grace)) <=>
        plan.open /\ m \in plan.on /\ (plan.until[m] = None \/ clock < plan.until[m] + GraceOf(plan, grace))
  BY <1>3 DEF Service!isModuleActive
<1>5. m \in Service!getEffectiveModules(plan, GraceOf(plan, grace)) <=> Service!isTrialActive(plan) \/ Service!isModuleActive(plan, m, GraceOf(plan, grace))
  BY DEF Service!getEffectiveModules
<1>6. Service!isTrialActive(plan) <=> plan.open /\ plan.trial > clock
  BY DEF Service!isTrialActive, Service!isAccountOpen, Service!Opened
<1>7. QED BY <1>4, <1>5, <1>6 DEF Service!Entitled, GraceOf

-----------------------------------------------------------------------------
\* What was seen of the company, and when.
Seen == \A m \in Services : /\ lastYes[m] <= clock /\ lastNo[m] <= clock
                            /\ IF Service!Entitled(m) THEN lastYes[m] = clock ELSE lastNo[m] = clock

LEMMA AccessSeen ==
  ASSUME Service!TypeOK, Seen, Service!Watch, clock' \in Nat, clock <= clock'
  PROVE  /\ Seen' /\ lastYes' \in [Services -> Int] /\ lastNo' \in [Services -> Int]
         /\ \A m \in Services : lastYes[m] <= lastYes'[m] /\ lastNo[m] <= lastNo'[m]
<1>1. lastYes' = [m \in Services |-> IF Service!Entitled(m)' THEN clock' ELSE lastYes[m]]
  BY DEF Service!Watch
<1>2. lastNo' = [m \in Services |-> IF Service!Entitled(m)' THEN lastNo[m] ELSE clock']
  BY DEF Service!Watch
<1>3. lastYes \in [Services -> Int] /\ lastNo \in [Services -> Int] /\ clock \in Nat
  BY DEF Service!TypeOK
<1>4. \A m \in Services : lastYes[m] \in Int /\ lastNo[m] \in Int /\ lastYes[m] <= clock /\ lastNo[m] <= clock
  BY <1>3 DEF Seen
<1>5. lastYes' \in [Services -> Int] /\ lastNo' \in [Services -> Int]
  BY <1>1, <1>2, <1>4
<1>6. ASSUME NEW m \in Services
      PROVE  /\ lastYes[m] <= lastYes'[m] /\ lastNo[m] <= lastNo'[m] /\ lastYes'[m] <= clock' /\ lastNo'[m] <= clock'
             /\ IF Service!Entitled(m)' THEN lastYes'[m] = clock' ELSE lastNo'[m] = clock'
  <2>1. CASE Service!Entitled(m)'
    BY <1>1, <1>2, <1>3, <1>4, <2>1
  <2>2. CASE ~Service!Entitled(m)'
    BY <1>1, <1>2, <1>3, <1>4, <2>2
  <2>3. QED BY <2>1, <2>2
<1>7. Seen'
  BY <1>6 DEF Seen
<1>8. QED BY <1>5, <1>6, <1>7

Told(j) ==
  j.at = "told" => \/ clock - (IF j.ok THEN lastYes ELSE lastNo)[j.module] < AccessTTL
                   \/ clock - graceAt < AccessTTL + GraceTTL
CacheInv == \A m \in Services : answers[m].ok # None => Service!Right(answers[m].ok, m, answers[m].at)

\* What a step within a tick does to what it leaves alone.
LEMMA AccessFrame ==
  ASSUME Service!AccessInv, Service!TypeOK', Service!Watch, clock' = clock, graceAt' = clock \/ UNCHANGED <<grace, graceAt>>
  PROVE  /\ Seen'
         /\ \A ok \in BOOLEAN, m \in Services, t \in 0..clock : Service!Right(ok, m, t) => Service!Right(ok, m, t)'
         /\ UNCHANGED answers => CacheInv'
         /\ UNCHANGED known => Service!KnownInv'
         /\ \A r \in Requests : ask'[r] = ask[r] => Service!JobInv(ask[r])' /\ Told(ask[r])'
<1> USE AccessTTLAssumption
<1>1. Service!TypeOK /\ Seen /\ CacheInv /\ Service!KnownInv /\ \A r \in Requests : Service!JobInv(ask[r]) /\ Told(ask[r])
  BY DEF Service!AccessInv, Seen, CacheInv, Service!AccessFollowsPlan, Told
<1>2. /\ Seen' /\ clock \in Nat /\ graceAt \in Int /\ graceAt' \in Int
      /\ \A m \in Services : lastYes[m] \in Int /\ lastNo[m] \in Int /\ lastYes'[m] \in Int /\ lastNo'[m] \in Int
                            /\ lastYes[m] <= lastYes'[m] /\ lastNo[m] <= lastNo'[m]
  BY <1>1, AccessSeen DEF Service!TypeOK
<1>3. \A t \in 0..clock : Service!Regraced(t) => Service!Regraced(t)'
  <2>1. CASE graceAt' = clock
    BY <1>2, <2>1 DEF Service!Regraced
  <2>2. CASE graceAt' = graceAt
    BY <2>2 DEF Service!Regraced
  <2>3. QED BY <2>1, <2>2
<1>4. \A ok \in BOOLEAN, m \in Services, t \in 0..clock : Service!Right(ok, m, t) => Service!Right(ok, m, t)'
  BY <1>2, <1>3 DEF Service!Right
<1>5. ASSUME UNCHANGED answers PROVE CacheInv'
  <2>1. \A m \in Services : answers[m].ok # None => answers[m].ok \in BOOLEAN /\ answers[m].at \in 0..clock
    BY <1>1 DEF Service!TypeOK
  <2>2. ASSUME NEW m \in Services, answers[m].ok # None PROVE Service!Right(answers[m].ok, m, answers[m].at)'
    <3>1. PICK ok \in BOOLEAN, t \in 0..clock : ok = answers[m].ok /\ t = answers[m].at
      BY <2>1, <2>2
    <3>2. Service!Right(ok, m, t)
      BY <1>1, <2>2, <3>1 DEF CacheInv
    <3>3. Service!Right(ok, m, t)'
      BY <1>4, <3>2
    <3>4. QED BY <1>5, <3>1, <3>3
  <2>3. QED BY <1>5, <2>2 DEF CacheInv
<1>6. ASSUME UNCHANGED known PROVE Service!KnownInv'
  <2>1. known.at \in 0..clock
    BY <1>1 DEF Service!TypeOK
  <2>2. QED BY <1>1, <1>2, <1>6, <2>1 DEF Service!KnownInv
<1>7. ASSUME NEW r \in Requests, ask'[r] = ask[r] PROVE Service!JobInv(ask[r])' /\ Told(ask[r])'
  <2>1. PICK j : j = ask[r] /\ Service!JobInv(j) /\ Told(j)
    BY <1>1
  <2>2. Told(j)'
    <3>1. j.at = "told" => j.module \in Services
      BY <2>1 DEF Service!JobInv
    <3>2. graceAt' = clock => clock' - graceAt' < AccessTTL + GraceTTL
      BY <1>2
    <3>3. SUFFICES ASSUME j.at = "told", graceAt' # clock PROVE clock' - (IF j.ok THEN lastYes' ELSE lastNo')[j.module] < AccessTTL \/ clock' - graceAt' < AccessTTL + GraceTTL
      BY <3>2 DEF Told
    <3>4. clock - (IF j.ok THEN lastYes ELSE lastNo)[j.module] < AccessTTL \/ clock - graceAt < AccessTTL + GraceTTL
      BY <2>1, <3>3 DEF Told
    <3>5. graceAt' = graceAt
      BY <3>3
    <3>6. CASE j.ok
      <4>1. clock - lastYes[j.module] < AccessTTL => clock' - lastYes'[j.module] < AccessTTL
        BY <1>2, <3>1, <3>3
      <4>2. QED BY <3>4, <3>5, <3>6, <4>1
    <3>7. CASE ~j.ok
      <4>1. clock - lastNo[j.module] < AccessTTL => clock' - lastNo'[j.module] < AccessTTL
        BY <1>2, <3>1, <3>3
      <4>2. QED BY <3>4, <3>5, <3>7, <4>1
    <3>8. QED BY <3>6, <3>7
  <2>3. \A p, days : Service!getEffectiveModules(p, days)' = Service!getEffectiveModules(p, days)
    BY DEF Service!getEffectiveModules, Service!isModuleActive, Service!isTrialActive, Service!isAccountOpen, Service!Opened
  <2>4. j.at = "answer" => Service!Right(j.module \in Service!getEffectiveModules(j.plan, j.days), j.module, clock)'
    <3>1. SUFFICES ASSUME j.at = "answer" PROVE Service!Right(j.module \in Service!getEffectiveModules(j.plan, j.days), j.module, clock)'
      OBVIOUS
    <3>2. Service!Right(j.module \in Service!getEffectiveModules(j.plan, j.days), j.module, clock) /\ j.module \in Services /\ clock \in 0..clock
      BY <1>2, <2>1, <3>1 DEF Service!JobInv
    <3>3. CASE j.module \in Service!getEffectiveModules(j.plan, j.days)
      BY <1>2, <1>3, <2>3, <3>2, <3>3 DEF Service!Right
    <3>4. CASE j.module \notin Service!getEffectiveModules(j.plan, j.days)
      BY <1>2, <1>3, <2>3, <3>2, <3>4 DEF Service!Right
    <3>5. QED BY <3>3, <3>4
  <2>5. j.at = "grace" => Service!Right(j.module \in Service!getEffectiveModules(j.plan, grace), j.module, clock)'
    <3>1. SUFFICES ASSUME j.at = "grace" PROVE Service!Right(j.module \in Service!getEffectiveModules(j.plan, grace), j.module, clock)'
      OBVIOUS
    <3>2. CASE graceAt' = clock
      BY <1>2, <3>2 DEF Service!Right, Service!Regraced
    <3>3. CASE UNCHANGED <<grace, graceAt>>
      <4>1. Service!Right(j.module \in Service!getEffectiveModules(j.plan, grace), j.module, clock) /\ j.module \in Services /\ clock \in 0..clock
        BY <1>2, <2>1, <3>1 DEF Service!JobInv
      <4>2. CASE j.module \in Service!getEffectiveModules(j.plan, grace)
        BY <1>2, <1>3, <2>3, <3>3, <4>1, <4>2 DEF Service!Right
      <4>3. CASE j.module \notin Service!getEffectiveModules(j.plan, grace)
        BY <1>2, <1>3, <2>3, <3>3, <4>1, <4>3 DEF Service!Right
      <4>4. QED BY <4>2, <4>3
    <3>4. QED BY <3>2, <3>3
  <2>6. Service!JobInv(j)'
    BY <2>1, <2>4, <2>5 DEF Service!JobInv
  <2>7. QED BY <1>7, <2>1, <2>2, <2>6
<1>8. QED BY <1>2, <1>4, <1>5, <1>6, <1>7

-----------------------------------------------------------------------------
LEMMA AccessIdle == Service!Idle \in Service!Job /\ Service!Idle.at = "idle"
BY DEF Service!Idle, Service!Job, Service!Days

LEMMA AccessBecomes ==
  ASSUME Service!TypeOK, NEW r \in Requests, NEW j \in Service!Job, Service!Become(r, j)
  PROVE  ask' \in [Requests -> Service!Job] /\ ask'[r] = j /\ \A q \in Requests \ {r} : ask'[q] = ask[q]
BY DEF Service!TypeOK, Service!Become

\* Everything but the jobs is as it was, or the plan is.
PlanTypes == clock \in Nat /\ plan \in Service!Plan /\ grace \in Service!Days /\ edits \in Nat /\ known \in [days : Service!Days \cup {None}, at : 0..clock]
        /\ answers \in [Services -> [ok : BOOLEAN \cup {None}, at : 0..clock]]
        /\ switched \in [Services -> Nat] /\ redated \subseteq Services /\ torn \subseteq Services /\ graceAt \in Int

\* A step of one request leads to the invariant, if it does for that request.
LEMMA AccessOne ==
  ASSUME Service!AccessInv, Service!Watch, clock' = clock, graceAt' = clock \/ UNCHANGED <<grace, graceAt>>,
         NEW r \in Requests, NEW j \in Service!Job, Service!Become(r, j), PlanTypes', CacheInv', Service!KnownInv', Service!OnAgainRuns',
         Service!JobInv(j)', Told(j)'
  PROVE  Service!AccessInv'
<1>1. Service!TypeOK /\ Seen
  BY DEF Service!AccessInv, Seen
<1>2. lastYes' \in [Services -> Int] /\ lastNo' \in [Services -> Int]
  BY <1>1, AccessSeen DEF Service!TypeOK
<1>3. ask' \in [Requests -> Service!Job] /\ ask'[r] = j /\ \A q \in Requests \ {r} : ask'[q] = ask[q]
  BY <1>1, AccessBecomes
<1>4. Service!TypeOK'
  BY <1>2, <1>3 DEF Service!TypeOK, PlanTypes
<1>5. Seen' /\ \A q \in Requests : ask'[q] = ask[q] => Service!JobInv(ask[q])' /\ Told(ask[q])'
  BY <1>4, AccessFrame
<1>6. \A q \in Requests : Service!JobInv(ask[q])' /\ Told(ask[q])'
  BY <1>3, <1>5
<1>7. QED BY <1>4, <1>5, <1>6 DEF Service!AccessInv, Seen, CacheInv, Service!AccessFollowsPlan, Told

\* So does a step of the super admin that leaves the requests alone.
LEMMA AccessNone ==
  ASSUME Service!AccessInv, Service!Watch, clock' = clock, graceAt' = clock \/ UNCHANGED <<grace, graceAt>>, UNCHANGED ask,
         PlanTypes', CacheInv', Service!KnownInv', Service!OnAgainRuns'
  PROVE  Service!AccessInv'
<1>1. Service!TypeOK /\ Seen
  BY DEF Service!AccessInv, Seen
<1>2. lastYes' \in [Services -> Int] /\ lastNo' \in [Services -> Int]
  BY <1>1, AccessSeen DEF Service!TypeOK
<1>3. ask \in [Requests -> Service!Job]
  BY <1>1 DEF Service!TypeOK
<1>4. Service!TypeOK'
  BY <1>2, <1>3 DEF Service!TypeOK, PlanTypes
<1>5. Seen' /\ \A q \in Requests : ask'[q] = ask[q] => Service!JobInv(ask[q])' /\ Told(ask[q])'
  BY <1>4, AccessFrame
<1>6. \A q \in Requests : Service!JobInv(ask[q])' /\ Told(ask[q])'
  BY <1>5
<1>7. QED BY <1>4, <1>5, <1>6 DEF Service!AccessInv, Seen, CacheInv, Service!AccessFollowsPlan, Told

\* What the steps find.
LEMMA AccessFound ==
  ASSUME Service!AccessInv
  PROVE  /\ Service!TypeOK /\ Seen /\ CacheInv /\ Service!KnownInv /\ Service!OnAgainRuns /\ PlanTypes /\ clock \in Nat
         /\ \A r \in Requests : Service!JobInv(ask[r]) /\ Told(ask[r])
BY DEF Service!AccessInv, Seen, CacheInv, Service!AccessFollowsPlan, Told, Service!TypeOK, PlanTypes

\* OnAgainRuns looks at the subscriptions, not at the rest of the plan.
LEMMA AccessDates ==
  ASSUME Service!OnAgainRuns, plan'.on = plan.on, plan'.until = plan.until, UNCHANGED <<switched, redated, torn>>
  PROVE  Service!OnAgainRuns'
BY DEF Service!OnAgainRuns

\* What is not touched stays right.
LEMMA AccessCacheStays ==
  ASSUME Service!AccessInv, Service!Watch, clock' = clock, graceAt' = clock \/ UNCHANGED <<grace, graceAt>>, UNCHANGED answers, graceAt' \in Int
  PROVE  CacheInv'
<1> USE AccessTTLAssumption
<1>1. Service!TypeOK /\ Seen /\ CacheInv
  BY AccessFound
<1>2. /\ clock \in Nat /\ graceAt \in Int
      /\ \A m \in Services : lastYes[m] \in Int /\ lastNo[m] \in Int /\ lastYes'[m] \in Int /\ lastNo'[m] \in Int
                            /\ lastYes[m] <= lastYes'[m] /\ lastNo[m] <= lastNo'[m]
  BY <1>1, AccessSeen DEF Service!TypeOK
<1>3. \A t \in 0..clock : Service!Regraced(t) => Service!Regraced(t)'
  <2>1. CASE graceAt' = clock
    BY <1>2, <2>1 DEF Service!Regraced
  <2>2. CASE graceAt' = graceAt
    BY <2>2 DEF Service!Regraced
  <2>3. QED BY <2>1, <2>2
<1>4. ASSUME NEW m \in Services, answers[m].ok # None PROVE Service!Right(answers[m].ok, m, answers[m].at)'
  <2>1. Service!Right(answers[m].ok, m, answers[m].at) /\ answers[m].at \in 0..clock /\ answers[m].ok \in BOOLEAN
    BY <1>1, <1>4 DEF CacheInv, Service!TypeOK
  <2>2. CASE answers[m].ok
    BY <1>2, <1>3, <2>1, <2>2 DEF Service!Right
  <2>3. CASE ~answers[m].ok
    BY <1>2, <1>3, <2>1, <2>3 DEF Service!Right
  <2>4. QED BY <2>2, <2>3
<1>5. QED BY <1>4 DEF CacheInv

\* So does what a request has made of it.
LEMMA AccessRight ==
  ASSUME Service!AccessInv, Service!Watch, clock' = clock, graceAt' = clock \/ UNCHANGED <<grace, graceAt>>, graceAt' \in Int,
         NEW ok \in BOOLEAN, NEW m \in Services, NEW t \in 0..clock, Service!Right(ok, m, t)
  PROVE  Service!Right(ok, m, t)'
<1>1. Service!TypeOK /\ Seen
  BY AccessFound
<1>2. /\ clock \in Nat /\ graceAt \in Int
      /\ lastYes[m] \in Int /\ lastNo[m] \in Int /\ lastYes'[m] \in Int /\ lastNo'[m] \in Int
      /\ lastYes[m] <= lastYes'[m] /\ lastNo[m] <= lastNo'[m]
  BY <1>1, AccessSeen DEF Service!TypeOK
<1>3. Service!Regraced(t) => Service!Regraced(t)'
  <2>1. CASE graceAt' = clock
    BY <1>2, <2>1 DEF Service!Regraced
  <2>2. CASE graceAt' = graceAt
    BY <2>2 DEF Service!Regraced
  <2>3. QED BY <2>1, <2>2
<1>4. CASE ok
  BY <1>2, <1>3, <1>4 DEF Service!Right
<1>5. CASE ~ok
  BY <1>2, <1>3, <1>5 DEF Service!Right
<1>6. QED BY <1>4, <1>5

\* An answer that was right TTL ago at most may be given.
LEMMA AccessTold ==
  ASSUME Service!AccessInv, NEW ok \in BOOLEAN, NEW m \in Services, NEW t \in 0..clock, Service!Right(ok, m, t), clock - t < AccessTTL
  PROVE  \/ clock - (IF ok THEN lastYes ELSE lastNo)[m] < AccessTTL
         \/ clock - graceAt < AccessTTL + GraceTTL
<1> USE AccessTTLAssumption
<1>1. clock \in Nat /\ graceAt \in Int /\ lastYes[m] \in Int /\ lastNo[m] \in Int
  BY AccessFound DEF Service!TypeOK
<1>2. Service!Regraced(t) => clock - graceAt < AccessTTL + GraceTTL
  BY <1>1 DEF Service!Regraced
<1>3. CASE ok
  BY <1>1, <1>2, <1>3 DEF Service!Right
<1>4. CASE ~ok
  BY <1>1, <1>2, <1>4 DEF Service!Right
<1>5. QED BY <1>3, <1>4

\* What the plan says now is right now.
LEMMA AccessNow ==
  ASSUME Service!AccessInv, NEW m \in Services
  PROVE  Service!Right(m \in Service!getEffectiveModules(plan, GraceOf(plan, grace)), m, clock)
<1>1. Service!TypeOK /\ Seen /\ clock \in Nat
  BY AccessFound
<1>2. Service!Entitled(m) <=> m \in Service!getEffectiveModules(plan, GraceOf(plan, grace))
  BY <1>1, AccessSays
<1>3. CASE Service!Entitled(m)
  <2>1. lastYes[m] = clock
    BY <1>1, <1>3 DEF Seen
  <2>2. QED BY <1>1, <1>2, <1>3, <2>1 DEF Service!Right
<1>4. CASE ~Service!Entitled(m)
  <2>1. lastNo[m] = clock
    BY <1>1, <1>4 DEF Seen
  <2>2. QED BY <1>1, <1>2, <1>4, <2>1 DEF Service!Right
<1>5. QED BY <1>3, <1>4

\* Within a tick the code makes the same of the same plan.
LEMMA AccessSame ==
  ASSUME clock' = clock, NEW p, NEW days
  PROVE  Service!getEffectiveModules(p, days)' = Service!getEffectiveModules(p, days)
BY DEF Service!getEffectiveModules, Service!isModuleActive, Service!isTrialActive, Service!isAccountOpen, Service!Opened

-----------------------------------------------------------------------------
LEMMA AccessAsked ==
  ASSUME Service!AccessInv, Service!Watch, NEW r \in Requests, NEW m \in Services, Service!hasModuleAccess(r, m)
  PROVE  Service!AccessInv'
<1>1. /\ Service!TypeOK /\ Seen /\ CacheInv /\ Service!KnownInv /\ Service!OnAgainRuns /\ PlanTypes /\ clock \in Nat
      /\ \A q \in Requests : Service!JobInv(ask[q]) /\ Told(ask[q])
  BY AccessFound
<1>2. clock' = clock /\ UNCHANGED <<Service!kept, known, answers>> /\ UNCHANGED <<grace, graceAt>>
  BY DEF Service!hasModuleAccess, Service!kept
<1>3. PlanTypes'
  BY <1>1, <1>2 DEF PlanTypes, Service!kept
<1>4. CacheInv'
  BY <1>2, <1>3, AccessCacheStays DEF PlanTypes
<1>5. Service!KnownInv' /\ Service!OnAgainRuns'
  BY <1>1, <1>2 DEF Service!KnownInv, Service!OnAgainRuns, Service!kept
<1>6. CASE answers[m].ok # None /\ Service!Fresh(answers[m].at, AccessTTL)
  <2>1. PICK ok \in BOOLEAN, t \in 0..clock : ok = answers[m].ok /\ t = answers[m].at
    BY <1>1, <1>6 DEF Service!TypeOK
  <2>2. PICK j \in Service!Job : j = [Service!Idle EXCEPT !.at = "told", !.module = m, !.ok = answers[m].ok] /\ j.at = "told" /\ j.module = m /\ j.ok = ok
    <3>1. [Service!Idle EXCEPT !.at = "told", !.module = m, !.ok = answers[m].ok] \in Service!Job
      BY AccessIdle, <2>1 DEF Service!Job
    <3>2. QED BY <2>1, <3>1 DEF Service!Idle
  <2>3. Service!Become(r, j)
    BY <1>6, <2>2 DEF Service!hasModuleAccess
  <2>4. Service!Right(ok, m, t)
    BY <1>1, <1>6, <2>1 DEF CacheInv
  <2>5. Service!Right(ok, m, t)'
    BY <1>2, <1>3, <2>4, AccessRight DEF PlanTypes
  <2>6. clock - t < AccessTTL
    BY <1>6, <2>1 DEF Service!Fresh
  <2>7. Told(j)'
    <3>1. /\ graceAt' \in Int /\ graceAt' = graceAt
          /\ lastYes'[m] \in Int /\ lastNo'[m] \in Int
      BY <1>1, <1>2, <1>3, AccessSeen DEF PlanTypes
    <3>2. Service!Regraced(t)' => clock' - graceAt' < AccessTTL + GraceTTL
      BY <1>1, <1>2, <2>6, <3>1, AccessTTLAssumption DEF Service!Regraced
    <3>3. CASE ok
      <4>1. lastYes'[m] >= t \/ Service!Regraced(t)'
        BY <2>5, <3>3 DEF Service!Right
      <4>2. lastYes'[m] >= t => clock' - lastYes'[m] < AccessTTL
        BY <1>1, <1>2, <2>6, <3>1, AccessTTLAssumption
      <4>3. QED BY <2>2, <3>2, <3>3, <4>1, <4>2 DEF Told
    <3>4. CASE ~ok
      <4>1. lastNo'[m] >= t \/ Service!Regraced(t)'
        BY <2>5, <3>4 DEF Service!Right
      <4>2. lastNo'[m] >= t => clock' - lastNo'[m] < AccessTTL
        BY <1>1, <1>2, <2>6, <3>1, AccessTTLAssumption
      <4>3. QED BY <2>2, <3>2, <3>4, <4>1, <4>2 DEF Told
    <3>5. QED BY <3>3, <3>4
  <2>8. Service!JobInv(j)'
    BY <2>2 DEF Service!JobInv
  <2>9. QED BY <1>2, <1>3, <1>4, <1>5, <2>3, <2>7, <2>8, AccessOne
<1>7. CASE ~(answers[m].ok # None /\ Service!Fresh(answers[m].at, AccessTTL))
  <2>1. plan \in Service!Plan /\ plan.grace \in Graces \cup {None}
    BY <1>1 DEF Service!TypeOK, Service!Plan
  <2>2. PICK j \in Service!Job : /\ j = [Service!Idle EXCEPT !.at = IF plan.grace = None THEN "grace" ELSE "answer", !.module = m,
                                                      !.plan = plan, !.days = IF plan.grace = None THEN 0 ELSE plan.grace]
                                  /\ j.at = (IF plan.grace = None THEN "grace" ELSE "answer") /\ j.module = m /\ j.plan = plan
                                  /\ j.days = (IF plan.grace = None THEN 0 ELSE plan.grace)
    <3>1. [Service!Idle EXCEPT !.at = IF plan.grace = None THEN "grace" ELSE "answer", !.module = m,
                       !.plan = plan, !.days = IF plan.grace = None THEN 0 ELSE plan.grace] \in Service!Job
      BY AccessIdle, <2>1 DEF Service!Job, Service!Days
    <3>2. QED BY <3>1 DEF Service!Idle
  <2>3. Service!Become(r, j)
    BY <1>7, <2>2 DEF Service!hasModuleAccess
  <2>4. PICK ok \in BOOLEAN : ok <=> m \in Service!getEffectiveModules(plan, GraceOf(plan, grace))
    <3>1. CASE m \in Service!getEffectiveModules(plan, GraceOf(plan, grace))
      BY <3>1
    <3>2. CASE m \notin Service!getEffectiveModules(plan, GraceOf(plan, grace))
      BY <3>2
    <3>3. QED BY <3>1, <3>2
  <2>5. Service!Right(ok, m, clock)
    BY <2>4, AccessNow
  <2>6. Service!Right(ok, m, clock)'
    <3>1. PICK t \in 0..clock : t = clock
      BY <1>1
    <3>2. Service!Right(ok, m, t)'
      BY <1>2, <1>3, <2>5, <3>1, AccessRight DEF PlanTypes
    <3>3. QED BY <1>2, <3>1, <3>2
  <2>7. UNCHANGED plan
    BY <1>2 DEF Service!kept
  <2>8. Service!JobInv(j)'
    <3>1. CASE plan.grace = None
      <4>1. ok <=> (j.module \in Service!getEffectiveModules(j.plan, grace)')
        BY <1>2, <2>2, <2>4, <3>1, AccessSame DEF GraceOf
      <4>2. QED BY <1>2, <2>1, <2>2, <2>6, <3>1, <4>1 DEF Service!JobInv
    <3>2. CASE plan.grace # None
      <4>1. ok <=> (j.module \in Service!getEffectiveModules(j.plan, j.days)')
        BY <1>2, <2>2, <2>4, <3>2, AccessSame DEF GraceOf
      <4>2. QED BY <1>2, <2>1, <2>2, <2>6, <3>2, <4>1 DEF Service!JobInv
    <3>3. QED BY <3>1, <3>2
  <2>9. Told(j)'
    BY <2>2 DEF Told
  <2>10. QED BY <1>2, <1>3, <1>4, <1>5, <2>3, <2>8, <2>9, AccessOne
<1>8. QED BY <1>6, <1>7

LEMMA AccessGraced ==
  ASSUME Service!AccessInv, Service!Watch, NEW r \in Requests, Service!tenantGraceDays(r)
  PROVE  Service!AccessInv'
<1>1. /\ Service!TypeOK /\ Seen /\ CacheInv /\ Service!KnownInv /\ Service!OnAgainRuns /\ PlanTypes /\ clock \in Nat
      /\ \A q \in Requests : Service!JobInv(ask[q]) /\ Told(ask[q])
  BY AccessFound
<1>2. clock' = clock /\ UNCHANGED <<Service!kept, answers>> /\ UNCHANGED <<grace, graceAt>> /\ ask[r].at = "grace"
  BY DEF Service!tenantGraceDays, Service!kept
<1>3. PlanTypes'
  <2>1. known' \in [days : Service!Days \cup {None}, at : 0..clock]
    BY <1>1 DEF Service!tenantGraceDays, PlanTypes
  <2>2. QED BY <1>1, <1>2, <2>1 DEF PlanTypes, Service!kept
<1>4. CacheInv'
  BY <1>2, <1>3, AccessCacheStays DEF PlanTypes
<1>5. Service!KnownInv' /\ Service!OnAgainRuns'
  <2>1. Service!OnAgainRuns'
    BY <1>1, <1>2 DEF Service!OnAgainRuns, Service!kept
  <2>2. known' = known \/ known' = [days |-> grace, at |-> clock]
    BY DEF Service!tenantGraceDays
  <2>3. QED BY <1>1, <1>2, <2>1, <2>2 DEF Service!KnownInv
<1>6. PICK days \in Service!Days : days = IF known.days # None /\ Service!Fresh(known.at, GraceTTL) THEN known.days ELSE grace
  BY <1>1 DEF PlanTypes
<1>7. PICK j \in Service!Job : /\ j = [ask[r] EXCEPT !.at = "answer", !.days = days]
                                /\ j.at = "answer" /\ j.days = days /\ j.module = ask[r].module /\ j.plan = ask[r].plan
  <2>1. ask[r] \in Service!Job
    BY <1>1 DEF Service!TypeOK
  <2>2. [ask[r] EXCEPT !.at = "answer", !.days = days] \in Service!Job
    BY <2>1 DEF Service!Job
  <2>3. QED BY <2>1, <2>2 DEF Service!Job
<1>8. Service!Become(r, j)
  BY <1>6, <1>7 DEF Service!tenantGraceDays
<1>9. j.module \in Services /\ j.plan \in Service!Plan /\ Service!Right(j.module \in Service!getEffectiveModules(j.plan, grace), j.module, clock)
  BY <1>1, <1>2, <1>7 DEF Service!JobInv
<1>10. PICK ok \in BOOLEAN : ok <=> j.module \in Service!getEffectiveModules(j.plan, days)
  <2>1. CASE j.module \in Service!getEffectiveModules(j.plan, days)
    BY <2>1
  <2>2. CASE j.module \notin Service!getEffectiveModules(j.plan, days)
    BY <2>2
  <2>3. QED BY <2>1, <2>2
<1>11. Service!Right(ok, j.module, clock)
  <2>1. CASE days = grace
    BY <1>9, <1>10, <2>1
  <2>2. CASE days # grace
    <3>1. known.days # None /\ clock - known.at < GraceTTL /\ graceAt >= known.at /\ known.at \in 0..clock /\ graceAt \in Int
      BY <1>1, <1>6, <2>2 DEF Service!KnownInv, Service!Fresh, Service!TypeOK
    <3>2. Service!Regraced(clock)
      BY <1>1, <3>1, AccessTTLAssumption DEF Service!Regraced
    <3>3. QED BY <3>2 DEF Service!Right
  <2>3. QED BY <2>1, <2>2
<1>12. Service!Right(ok, j.module, clock)'
  <2>1. PICK t \in 0..clock : t = clock
    BY <1>1
  <2>2. Service!Right(ok, j.module, t)'
    BY <1>2, <1>3, <1>9, <1>11, <2>1, AccessRight DEF PlanTypes
  <2>3. QED BY <1>2, <2>1, <2>2
<1>13. Service!JobInv(j)'
  <2>1. ok <=> (j.module \in Service!getEffectiveModules(j.plan, j.days)')
    BY <1>2, <1>7, <1>10, AccessSame
  <2>2. QED BY <1>2, <1>7, <1>9, <1>12, <2>1 DEF Service!JobInv
<1>14. Told(j)'
  BY <1>7 DEF Told
<1>15. QED BY <1>2, <1>3, <1>4, <1>5, <1>8, <1>13, <1>14, AccessOne

LEMMA AccessAnswered ==
  ASSUME Service!AccessInv, Service!Watch, NEW r \in Requests, Service!Answer(r)
  PROVE  Service!AccessInv'
<1>1. /\ Service!TypeOK /\ Seen /\ CacheInv /\ Service!KnownInv /\ Service!OnAgainRuns /\ PlanTypes /\ clock \in Nat
      /\ \A q \in Requests : Service!JobInv(ask[q]) /\ Told(ask[q])
  BY AccessFound
<1>2. clock' = clock /\ UNCHANGED <<Service!kept, known>> /\ UNCHANGED <<grace, graceAt>> /\ ask[r].at = "answer"
  BY DEF Service!Answer, Service!kept
<1>3. PICK ok \in BOOLEAN, m \in Services : ok = (ask[r].module \in Service!getEffectiveModules(ask[r].plan, ask[r].days)) /\ m = ask[r].module
  <2>1. ask[r].module \in Services
    BY <1>1, <1>2 DEF Service!JobInv
  <2>2. (ask[r].module \in Service!getEffectiveModules(ask[r].plan, ask[r].days)) \in BOOLEAN
    OBVIOUS
  <2>3. QED BY <2>1, <2>2
<1>4. Service!Right(ok, m, clock)
  BY <1>1, <1>2, <1>3 DEF Service!JobInv
<1>5. answers' = [answers EXCEPT ![m] = [ok |-> ok, at |-> clock]]
  BY <1>3 DEF Service!Answer
<1>6. PlanTypes'
  <2>1. answers' \in [Services -> [ok : BOOLEAN \cup {None}, at : 0..clock]]
    BY <1>1, <1>5 DEF PlanTypes
  <2>2. QED BY <1>1, <1>2, <2>1 DEF PlanTypes, Service!kept
<1>7. Service!Right(ok, m, clock)'
  <2>1. PICK t \in 0..clock : t = clock
    BY <1>1
  <2>2. Service!Right(ok, m, t)'
    BY <1>2, <1>4, <1>6, <2>1, AccessRight DEF PlanTypes
  <2>3. QED BY <1>2, <2>1, <2>2
<1>8. CacheInv'
  <2>1. ASSUME NEW n \in Services, n # m, answers[n].ok # None PROVE Service!Right(answers[n].ok, n, answers[n].at)'
    <3>1. PICK o \in BOOLEAN, t \in 0..clock : o = answers[n].ok /\ t = answers[n].at
      BY <1>1, <2>1 DEF Service!TypeOK
    <3>2. Service!Right(o, n, t)
      BY <1>1, <2>1, <3>1 DEF CacheInv
    <3>3. Service!Right(o, n, t)'
      BY <1>2, <1>6, <3>2, AccessRight DEF PlanTypes
    <3>4. answers'[n] = answers[n]
      BY <1>1, <1>5, <2>1 DEF Service!TypeOK
    <3>5. QED BY <3>1, <3>3, <3>4
  <2>2. answers'[m].ok = ok /\ answers'[m].at = clock'
    BY <1>1, <1>2, <1>5 DEF Service!TypeOK
  <2>3. Service!Right(answers[m].ok, m, answers[m].at)'
    BY <1>7, <2>2
  <2>4. \A n \in Services \ {m} : answers'[n] = answers[n]
    BY <1>1, <1>5 DEF Service!TypeOK
  <2>5. ASSUME NEW n \in Services, (answers[n].ok # None)' PROVE Service!Right(answers[n].ok, n, answers[n].at)'
    <3>1. CASE n = m
      BY <2>3, <3>1
    <3>2. CASE n # m
      <4>1. answers'[n] = answers[n]
        BY <2>4, <3>2
      <4>2. Service!Right(answers[n].ok, n, answers[n].at)'
        BY <2>1, <2>5, <3>2, <4>1
      <4>3. QED BY <4>2
    <3>3. QED BY <3>1, <3>2
  <2>6. QED BY <2>5 DEF CacheInv
<1>9. Service!KnownInv' /\ Service!OnAgainRuns'
  BY <1>1, <1>2 DEF Service!KnownInv, Service!OnAgainRuns, Service!kept
<1>10. PICK j \in Service!Job : j = [Service!Idle EXCEPT !.at = "told", !.module = m, !.ok = ok] /\ j.at = "told" /\ j.module = m /\ j.ok = ok
  <2>1. [Service!Idle EXCEPT !.at = "told", !.module = m, !.ok = ok] \in Service!Job
    BY AccessIdle DEF Service!Job
  <2>2. QED BY <2>1 DEF Service!Idle
<1>11. Service!Become(r, j)
  BY <1>3, <1>10 DEF Service!Answer
<1>12. Told(j)'
  <2>1. graceAt' \in Int /\ lastYes'[m] \in Int /\ lastNo'[m] \in Int
    BY <1>1, <1>2, <1>6, AccessSeen DEF PlanTypes
  <2>2. Service!Regraced(clock)' => clock' - graceAt' < AccessTTL + GraceTTL
    BY <1>1, <1>2, <2>1, AccessTTLAssumption DEF Service!Regraced
  <2>3. CASE ok
    BY <1>1, <1>2, <1>7, <1>10, <2>1, <2>2, <2>3, AccessTTLAssumption DEF Service!Right, Told
  <2>4. CASE ~ok
    BY <1>1, <1>2, <1>7, <1>10, <2>1, <2>2, <2>4, AccessTTLAssumption DEF Service!Right, Told
  <2>5. QED BY <2>3, <2>4
<1>13. Service!JobInv(j)'
  BY <1>10 DEF Service!JobInv
<1>14. QED BY <1>2, <1>6, <1>8, <1>9, <1>11, <1>12, <1>13, AccessOne

-----------------------------------------------------------------------------
\* Where the jobs, the cache and the subscriptions are left alone.
LEMMA AccessPatched ==
  ASSUME Service!AccessInv, Service!Watch, UNCHANGED <<Service!alone, grace, graceAt>>, plan' \in Service!Plan, edits' \in Nat,
         plan'.on = plan.on, plan'.until = plan.until
  PROVE  Service!AccessInv'
<1>1. /\ Service!TypeOK /\ Service!KnownInv /\ Service!OnAgainRuns /\ PlanTypes
  BY AccessFound
<1>2. clock' = clock /\ UNCHANGED <<known, answers, ask, switched, redated, torn, grace, graceAt>>
  BY DEF Service!alone
<1>3. PlanTypes'
  BY <1>1, <1>2 DEF PlanTypes
<1>4. CacheInv'
  BY <1>2, <1>3, AccessCacheStays DEF PlanTypes
<1>5. Service!KnownInv' /\ Service!OnAgainRuns'
  BY <1>1, <1>2, AccessDates DEF Service!KnownInv
<1>6. QED BY <1>2, <1>3, <1>4, <1>5, AccessNone

LEMMA AccessStatus ==
  ASSUME Service!AccessInv, Service!Watch, NEW o \in BOOLEAN, Service!PatchStatus(o)
  PROVE  Service!AccessInv'
<1>1. plan \in Service!Plan /\ edits \in Nat
  BY AccessFound DEF PlanTypes
<1>2. plan' \in Service!Plan /\ edits' \in Nat /\ plan'.on = plan.on /\ plan'.until = plan.until
  BY <1>1 DEF Service!PatchStatus, Service!Counted, Service!Plan
<1>3. QED BY <1>2, AccessPatched DEF Service!PatchStatus

LEMMA AccessOwnGrace ==
  ASSUME Service!AccessInv, Service!Watch, NEW g \in Graces \cup {None}, Service!PatchGrace(g)
  PROVE  Service!AccessInv'
<1>1. plan \in Service!Plan /\ edits \in Nat
  BY AccessFound DEF PlanTypes
<1>2. plan' \in Service!Plan /\ edits' \in Nat /\ plan'.on = plan.on /\ plan'.until = plan.until
  BY <1>1 DEF Service!PatchGrace, Service!Counted, Service!Plan
<1>3. QED BY <1>2, AccessPatched DEF Service!PatchGrace

LEMMA AccessTrial ==
  ASSUME Service!AccessInv, Service!Watch, NEW t \in Service!Times, Service!PatchTrial(t)
  PROVE  Service!AccessInv'
<1>1. plan \in Service!Plan /\ edits \in Nat /\ t \in Nat
  BY AccessFound, GracesAssumption DEF PlanTypes, Service!Times
<1>2. plan' \in Service!Plan /\ edits' \in Nat /\ plan'.on = plan.on /\ plan'.until = plan.until
  BY <1>1 DEF Service!PatchTrial, Service!Counted, Service!Plan
<1>3. QED BY <1>2, AccessPatched DEF Service!PatchTrial

LEMMA AccessDefault ==
  ASSUME Service!AccessInv, Service!Watch, NEW g \in Graces, NEW here \in BOOLEAN, Service!PatchDefaultGrace(g, here)
  PROVE  Service!AccessInv'
<1>1. /\ Service!TypeOK /\ Service!KnownInv /\ Service!OnAgainRuns /\ PlanTypes /\ clock \in Nat
  BY AccessFound
<1>2. clock' = clock /\ graceAt' = clock /\ UNCHANGED <<plan, answers, ask, switched, redated, torn>>
  BY DEF Service!PatchDefaultGrace
<1>3. known' \in [days : Service!Days \cup {None}, at : 0..clock] /\ (known' = known \/ known' = [days |-> None, at |-> 0])
  BY <1>1 DEF Service!PatchDefaultGrace, PlanTypes
<1>4. PlanTypes'
  BY <1>1, <1>2, <1>3 DEF PlanTypes, Service!PatchDefaultGrace, Service!Days, Service!Counted
<1>5. CacheInv'
  BY <1>2, <1>4, AccessCacheStays DEF PlanTypes
<1>6. Service!KnownInv'
  <2>1. \A at \in 0..clock : clock >= at
    BY <1>1
  <2>2. known.at \in 0..clock
    BY <1>1 DEF PlanTypes
  <2>3. QED BY <1>2, <1>3, <2>1, <2>2 DEF Service!KnownInv
<1>7. Service!OnAgainRuns'
  BY <1>1, <1>2, AccessDates
<1>8. QED BY <1>2, <1>4, <1>5, <1>6, <1>7, AccessNone

LEMMA AccessRead ==
  ASSUME Service!AccessInv, Service!Watch, NEW r \in Requests, NEW place \in {"modules", "expiry"}, NEW set \in SUBSET Services,
         NEW m \in Services \cup {None}, place = "expiry" => m \in Services, NEW until \in Service!Times \cup {None},
         Service!Read(r, place, set, m, until)
  PROVE  Service!AccessInv'
<1>1. /\ Service!TypeOK /\ Service!KnownInv /\ Service!OnAgainRuns /\ PlanTypes /\ clock \in Nat /\ plan \in Service!Plan
  BY AccessFound DEF PlanTypes
<1>2. clock' = clock /\ UNCHANGED <<plan, grace, known, answers, switched, redated, torn, graceAt>>
  BY DEF Service!Read
<1>3. PlanTypes'
  BY <1>1, <1>2 DEF PlanTypes, Service!Read, Service!Counted
<1>4. CacheInv'
  BY <1>2, <1>3, AccessCacheStays DEF PlanTypes
<1>5. Service!KnownInv' /\ Service!OnAgainRuns'
  BY <1>1, <1>2, AccessDates DEF Service!KnownInv
<1>6. PICK j \in Service!Job : /\ j = [Service!Idle EXCEPT !.at = place, !.plan = plan, !.set = set, !.module = m, !.until = until]
                                /\ j.at = place /\ j.plan = plan /\ j.module = m
  <2>1. [Service!Idle EXCEPT !.at = place, !.plan = plan, !.set = set, !.module = m, !.until = until] \in Service!Job
    BY AccessIdle, <1>1 DEF Service!Job
  <2>2. QED BY <2>1 DEF Service!Idle
<1>7. Service!Become(r, j)
  BY <1>6 DEF Service!Read
<1>8. Service!JobInv(j)' /\ Told(j)'
  BY <1>1, <1>6 DEF Service!JobInv, Told
<1>9. QED BY <1>2, <1>3, <1>4, <1>5, <1>7, <1>8, AccessOne

\* A write of the subscriptions: what is left to show is that they run.
LEMMA AccessWritten ==
  ASSUME Service!AccessInv, Service!Watch, NEW r \in Requests, NEW on \in SUBSET Services, NEW until \in [Services -> Service!Times \cup {None}],
         Service!Write(r, on, until), redated' \in SUBSET Services, Service!OnAgainRuns'
  PROVE  Service!AccessInv'
<1>1. /\ Service!TypeOK /\ Service!KnownInv /\ PlanTypes /\ clock \in Nat /\ plan \in Service!Plan
  BY AccessFound DEF PlanTypes
<1>2. clock' = clock /\ UNCHANGED <<grace, known, answers, edits, graceAt>>
  BY DEF Service!Write
<1>3. PlanTypes'
  <2>1. plan' \in Service!Plan
    BY <1>1 DEF Service!Write, Service!Plan
  <2>2. switched' \in [Services -> Nat]
    BY <1>1 DEF Service!Write, PlanTypes
  <2>3. torn' \subseteq Services
    BY <1>1 DEF Service!Write, PlanTypes
  <2>4. QED BY <1>1, <1>2, <2>1, <2>2, <2>3 DEF PlanTypes
<1>4. CacheInv'
  BY <1>2, <1>3, AccessCacheStays DEF PlanTypes
<1>5. Service!KnownInv'
  BY <1>1, <1>2 DEF Service!KnownInv
<1>6. Service!JobInv(Service!Idle)' /\ Told(Service!Idle)'
  BY DEF Service!JobInv, Told, Service!Idle
<1>7. Service!Become(r, Service!Idle)
  BY DEF Service!Write
<1>8. QED BY <1>2, <1>3, <1>4, <1>5, <1>6, <1>7, AccessIdle, AccessOne

\* What a module that no change crossed had when the request read it, it has.
LEMMA AccessUntorn ==
  ASSUME Service!AccessInv, NEW r \in Requests, NEW on, NEW until, Service!Write(r, on, until), ask[r].plan \in Service!Plan,
         NEW m \in Services \ torn'
  PROVE  /\ m \notin torn
         /\ ask[r].plan.until[m] = plan.until[m]
         /\ m \in ask[r].plan.on <=> m \in plan.on
BY DEF Service!Write

LEMMA AccessModules ==
  ASSUME Service!AccessInv, Service!Watch, NEW r \in Requests, Service!ModulesWritten(r)
  PROVE  Service!AccessInv'
<1>1. /\ Service!TypeOK /\ Service!OnAgainRuns /\ PlanTypes /\ clock \in Nat /\ plan \in Service!Plan /\ ask[r] \in Service!Job /\ Service!JobInv(ask[r])
  BY AccessFound DEF PlanTypes, Service!TypeOK
<1>2. PICK seen \in Service!Plan, set \in SUBSET Services : seen = ask[r].plan /\ set = ask[r].set
  BY <1>1 DEF Service!JobInv, Service!ModulesWritten, Service!Job
<1>3. PICK until \in [Services -> Service!Times \cup {None}] : until = Service!Cleared(seen, set)
  BY <1>2 DEF Service!Cleared, Service!Plan
<1>4. Service!Write(r, set, until) /\ redated' = redated \cap plan.on \cap set
  BY <1>2, <1>3 DEF Service!ModulesWritten, Service!datesAfter
<1>5. redated' \in SUBSET Services
  BY <1>1, <1>4 DEF PlanTypes
<1>6. Service!OnAgainRuns'
  <2>1. plan'.on = set /\ plan'.until = until
    BY <1>1, <1>4 DEF Service!Write, Service!Plan
  <2>2. SUFFICES ASSUME NEW m \in set, until[m] # None, until[m] <= switched'[m], m \notin torn' PROVE m \in redated'
    BY <2>1 DEF Service!OnAgainRuns
  <2>3. m \notin torn /\ seen.until[m] = plan.until[m] /\ (m \in seen.on <=> m \in plan.on)
    BY <1>2, <1>4, <2>2, AccessUntorn
  <2>4. until[m] = plan.until[m] /\ (m \in seen.on \/ ~(seen.until[m] <= clock))
    BY <1>3, <2>2, <2>3 DEF Service!Cleared
  <2>5. switched'[m] = IF m \notin plan.on THEN clock ELSE switched[m]
    BY <1>4, <2>2 DEF Service!Write
  <2>6. m \in plan.on
    BY <2>2, <2>3, <2>4, <2>5
  <2>7. m \in redated
    BY <1>1, <2>2, <2>3, <2>4, <2>5, <2>6 DEF Service!OnAgainRuns
  <2>8. QED BY <1>4, <2>2, <2>6, <2>7
<1>7. QED BY <1>4, <1>5, <1>6, AccessWritten

LEMMA AccessExpiry ==
  ASSUME Service!AccessInv, Service!Watch, NEW r \in Requests, Service!ExpiryWritten(r)
  PROVE  Service!AccessInv'
<1>1. /\ Service!TypeOK /\ Service!OnAgainRuns /\ PlanTypes /\ clock \in Nat /\ plan \in Service!Plan /\ ask[r] \in Service!Job /\ Service!JobInv(ask[r])
  BY AccessFound DEF PlanTypes, Service!TypeOK
<1>2. PICK seen \in Service!Plan, m \in Services : seen = ask[r].plan /\ m = ask[r].module
  BY <1>1 DEF Service!JobInv, Service!ExpiryWritten
<1>3. PICK on \in SUBSET Services, until \in [Services -> Service!Times \cup {None}] :
         on = seen.on \cup {m} /\ until = [seen.until EXCEPT ![m] = ask[r].until]
  <2>1. ask[r].until \in Service!Times \cup {None}
    BY <1>1 DEF Service!Job
  <2>2. QED BY <1>2, <2>1 DEF Service!Plan
<1>4. Service!Write(r, on, until) /\ redated' = redated \cup {m}
  BY <1>2, <1>3 DEF Service!ExpiryWritten
<1>5. redated' \in SUBSET Services
  BY <1>1, <1>4 DEF PlanTypes
<1>6. Service!OnAgainRuns'
  <2>1. plan'.on = on /\ plan'.until = until
    BY <1>1, <1>4 DEF Service!Write, Service!Plan
  <2>2. SUFFICES ASSUME NEW n \in on, n # m, until[n] # None, until[n] <= switched'[n], n \notin torn' PROVE n \in redated'
    BY <1>4, <2>1 DEF Service!OnAgainRuns
  <2>3. n \notin torn /\ seen.until[n] = plan.until[n] /\ (n \in seen.on <=> n \in plan.on)
    BY <1>2, <1>4, <2>2, AccessUntorn
  <2>4. until[n] = plan.until[n] /\ n \in plan.on
    BY <1>2, <1>3, <2>2, <2>3 DEF Service!Plan
  <2>5. switched'[n] = switched[n]
    BY <1>4, <2>2, <2>4 DEF Service!Write
  <2>6. n \in redated
    BY <1>1, <2>2, <2>3, <2>4, <2>5 DEF Service!OnAgainRuns
  <2>7. QED BY <1>4, <2>6
<1>7. QED BY <1>4, <1>5, <1>6, AccessWritten

LEMMA AccessTick ==
  ASSUME Service!AccessInv, Service!Watch, Service!Tick
  PROVE  Service!AccessInv'
<1>1. /\ Service!TypeOK /\ Seen /\ CacheInv /\ Service!KnownInv /\ Service!OnAgainRuns /\ clock \in Nat
  BY AccessFound
<1>2. clock' = clock + 1 /\ ask' = [r \in Requests |-> Service!Idle]
      /\ UNCHANGED <<plan, grace, known, answers, edits, switched, redated, torn, graceAt>>
  BY DEF Service!Tick
<1>3. /\ Seen' /\ lastYes' \in [Services -> Int] /\ lastNo' \in [Services -> Int]
      /\ \A m \in Services : lastYes[m] <= lastYes'[m] /\ lastNo[m] <= lastNo'[m]
  BY <1>1, <1>2, AccessSeen
<1>4. Service!TypeOK'
  <2>1. 0..clock \subseteq 0..clock'
    BY <1>1, <1>2
  <2>2. known' \in [days : Service!Days \cup {None}, at : 0..clock'] /\ answers' \in [Services -> [ok : BOOLEAN \cup {None}, at : 0..clock']]
    BY <1>1, <1>2, <2>1 DEF Service!TypeOK
  <2>3. QED BY <1>1, <1>2, <1>3, <2>2, AccessIdle DEF Service!TypeOK
<1>5. CacheInv'
  <2>1. ASSUME NEW m \in Services, answers[m].ok # None PROVE Service!Right(answers[m].ok, m, answers[m].at)'
    <3>1. Service!Right(answers[m].ok, m, answers[m].at) /\ answers[m].ok \in BOOLEAN /\ answers[m].at \in 0..clock
      BY <1>1, <2>1 DEF CacheInv, Service!TypeOK
    <3>2. lastYes[m] \in Int /\ lastNo[m] \in Int /\ lastYes'[m] \in Int /\ lastNo'[m] \in Int
      BY <1>1, <1>3 DEF Service!TypeOK
    <3>3. Service!Regraced(answers[m].at)' <=> Service!Regraced(answers[m].at)
      BY <1>2 DEF Service!Regraced
    <3>4. CASE answers[m].ok
      BY <1>1, <1>2, <1>3, <3>1, <3>2, <3>3, <3>4 DEF Service!Right
    <3>5. CASE ~answers[m].ok
      BY <1>1, <1>2, <1>3, <3>1, <3>2, <3>3, <3>5 DEF Service!Right
    <3>6. QED BY <3>4, <3>5
  <2>2. QED BY <1>2, <2>1 DEF CacheInv
<1>6. Service!KnownInv' /\ Service!OnAgainRuns'
  BY <1>1, <1>2, AccessDates DEF Service!KnownInv
<1>7. \A r \in Requests : Service!JobInv(ask[r])' /\ Told(ask[r])'
  <2>1. \A r \in Requests : ask'[r].at = "idle"
    BY <1>2, AccessIdle
  <2>2. QED BY <2>1 DEF Service!JobInv, Told
<1>8. QED BY <1>3, <1>4, <1>5, <1>6, <1>7 DEF Service!AccessInv, Seen, CacheInv, Service!AccessFollowsPlan, Told

-----------------------------------------------------------------------------
LEMMA AccessStep ==
  ASSUME Service!AccessInv, [Service!Next]_plans
  PROVE  Service!AccessInv'
<1>1. CASE UNCHANGED plans
  <2>1. UNCHANGED <<clock, plan, grace, known, answers, ask, edits, switched, redated, torn, lastYes, lastNo, graceAt>>
    BY <1>1 DEF plans
  <2>2. \A p, days : Service!getEffectiveModules(p, days)' = Service!getEffectiveModules(p, days)
    BY <2>1, AccessSame
  <2>3. Service!TypeOK' /\ Service!KnownInv' /\ Service!AccessFollowsPlan' /\ Service!OnAgainRuns'
    BY <2>1 DEF Service!AccessInv, Service!TypeOK, Service!KnownInv, Service!AccessFollowsPlan, Service!OnAgainRuns
  <2>4. Seen'
    BY <2>1 DEF Service!AccessInv, Seen, Service!Entitled
  <2>5. CacheInv'
    BY <2>1 DEF Service!AccessInv, CacheInv, Service!Right, Service!Regraced
  <2>6. \A r \in Requests : Service!JobInv(ask[r])'
    BY <2>1, <2>2 DEF Service!AccessInv, Service!JobInv, Service!Right, Service!Regraced
  <2>7. QED BY <2>3, <2>4, <2>5, <2>6 DEF Service!AccessInv, Seen, CacheInv
<1>2. CASE Service!Next
  <2> USE <1>2 DEF Service!Next
  <2>1. ASSUME NEW r \in Requests, NEW m \in Services, Service!hasModuleAccess(r, m) PROVE Service!AccessInv'
    BY <2>1, AccessAsked
  <2>2. ASSUME NEW r \in Requests, NEW m \in Services, NEW t \in Service!Times \cup {None}, Service!PatchExpiry(r, m, t) PROVE Service!AccessInv'
    BY <2>2, AccessRead DEF Service!PatchExpiry
  <2>3. ASSUME NEW r \in Requests, NEW set \in SUBSET Services, Service!PatchModules(r, set) PROVE Service!AccessInv'
    BY <2>3, AccessRead DEF Service!PatchModules
  <2>4. ASSUME NEW r \in Requests, Service!tenantGraceDays(r) \/ Service!Answer(r) \/ Service!ModulesWritten(r) \/ Service!ExpiryWritten(r) PROVE Service!AccessInv'
    BY <2>4, AccessGraced, AccessAnswered, AccessModules, AccessExpiry
  <2>5. ASSUME NEW o \in BOOLEAN, Service!PatchStatus(o) PROVE Service!AccessInv'
    BY <2>5, AccessStatus
  <2>6. ASSUME NEW g \in Graces \cup {None}, Service!PatchGrace(g) PROVE Service!AccessInv'
    BY <2>6, AccessOwnGrace
  <2>7. ASSUME NEW t \in Service!Times, Service!PatchTrial(t) PROVE Service!AccessInv'
    BY <2>7, AccessTrial
  <2>8. ASSUME NEW g \in Graces, NEW here \in BOOLEAN, Service!PatchDefaultGrace(g, here) PROVE Service!AccessInv'
    BY <2>8, AccessDefault
  <2>9. ASSUME Service!Tick PROVE Service!AccessInv'
    BY <2>9, AccessTick
  <2>10. QED BY <2>1, <2>2, <2>3, <2>4, <2>5, <2>6, <2>7, <2>8, <2>9 DEF Service!Step
<1>3. QED BY <1>1, <1>2

LEMMA AccessInit ==
  ASSUME Service!Init
  PROVE  Service!AccessInv
<1> USE AccessTTLAssumption, GracesAssumption
<1>1. /\ clock = 0 /\ plan = Service!NewPlan /\ grace = 0 /\ known = [days |-> None, at |-> 0]
      /\ answers = [m \in Services |-> [ok |-> None, at |-> 0]]
      /\ ask = [r \in Requests |-> Service!Idle] /\ edits = 0
      /\ switched = [m \in Services |-> 0] /\ redated = {} /\ torn = {}
      /\ lastYes = [m \in Services |-> 0] /\ lastNo = [m \in Services |-> -AccessTTL] /\ graceAt = -AccessTTL - GraceTTL
  BY DEF Service!Init
<1>2. Service!NewPlan \in Service!Plan /\ Service!NewPlan.on = {} /\ Service!NewPlan.open /\ Service!NewPlan.trial = 1
  BY DEF Service!NewPlan, Service!Plan
<1>3. Service!TypeOK
  <2>1. ask \in [Requests -> Service!Job]
    BY <1>1, AccessIdle
  <2>2. QED BY <1>1, <1>2, <2>1 DEF Service!TypeOK, Service!Days
<1>4. Service!KnownInv /\ Service!OnAgainRuns
  BY <1>1, <1>2 DEF Service!KnownInv, Service!OnAgainRuns
<1>5. \A r \in Requests : Service!JobInv(ask[r]) /\ Told(ask[r])
  <2>1. \A r \in Requests : ask[r].at = "idle"
    BY <1>1, AccessIdle
  <2>2. QED BY <2>1 DEF Service!JobInv, Told
<1>6. Seen
  <2>1. plan.open /\ plan.trial > clock
    <3>1. plan.trial = 1 /\ clock = 0
      BY <1>1, <1>2
    <3>2. plan.open
      BY <1>1, <1>2
    <3>3. QED BY <3>1, <3>2
  <2>2. \A m \in Services : Service!Entitled(m)
    BY <2>1 DEF Service!Entitled
  <2>3. \A m \in Services : lastYes[m] = clock /\ lastYes[m] <= clock /\ lastNo[m] <= clock
    <3>1. -AccessTTL <= 0
      OBVIOUS
    <3>2. clock = 0 /\ 0 <= 0
      BY <1>1
    <3>3. \A m \in Services : lastYes[m] = 0 /\ lastNo[m] = -AccessTTL
      BY <1>1
    <3>4. QED BY <3>1, <3>2, <3>3
  <2>4. QED BY <2>2, <2>3 DEF Seen
<1>7. CacheInv
  BY <1>1 DEF CacheInv
<1>8. QED BY <1>3, <1>4, <1>5, <1>6, <1>7 DEF Service!AccessInv, Seen, CacheInv, Service!AccessFollowsPlan, Told

LEMMA AccessPromise ==
  ASSUME Service!AccessInv
  PROVE  Service!AccessFollowsPlan /\ Service!OnAgainRuns
BY DEF Service!AccessInv

-----------------------------------------------------------------------------
(* Prices.                                                                 *)
\* A set of natural numbers that has a number has a least one.
LEMMA Least == ASSUME NEW T, T \subseteq Nat, T # {} PROVE \E x \in T : \A y \in T : x <= y
<1> DEFINE less == OpToRel(<, Nat)
<1>1. IsWellFoundedOn(less, Nat)
  BY NatLessThanWellFounded
<1>2. \A x, y \in Nat : y < x => <<y, x>> \in less
  BY DEF OpToRel
<1> HIDE DEF less
<1>3. \E x \in T : \A y \in T : ~(<<y, x>> \in less)
  BY <1>1, WFMin
<1>4. \E x \in T : \A y \in T : ~(y < x)
  BY <1>2, <1>3
<1>5. QED BY <1>4

\* A set of natural numbers up to n that has a number has a greatest one.
LEMMA Greatest ==
  ASSUME NEW n \in Nat, NEW S, S \subseteq 0..n, S # {}
  PROVE  Pricing!Max(S) \in S /\ \A y \in S : y <= Pricing!Max(S)
<1>1. PICK x \in {n - y : y \in S} : \A z \in {n - y : y \in S} : x <= z
  <2>1. {n - y : y \in S} \subseteq Nat
    <3>1. \A y \in S : y \in Int /\ 0 <= y /\ y <= n
      OBVIOUS
    <3>2. \A y \in S : n - y \in Nat
      BY <3>1
    <3>3. QED BY <3>2
  <2>2. {n - y : y \in S} # {}
    <3>1. PICK y : y \in S
      OBVIOUS
    <3>2. QED BY <3>1
  <2>3. QED BY <2>1, <2>2, Least
<1>2. \E y \in S : \A z \in S : y >= z
  BY <1>1, SMTT(30)
<1>3. Pricing!Max(S) \in S /\ \A z \in S : Pricing!Max(S) >= z
  BY <1>2 DEF Pricing!Max
<1>4. QED BY <1>3

-----------------------------------------------------------------------------
\* What a sold order promises, of one request.
Sold(j) ==
  j.at = "sold" =>
    LET cfg == j.base  b == j.change
        full == cfg.prices[b.module] * Pricing!rateFor(b, j.rate) IN
    /\ now - j.read < PriceTTL /\ now - j.rateRead < RateTTL
    /\ j.amount <= Pricing!applyBilling(full * 100, b.cycle)
    /\ \A d \in cfg.rules : Pricing!Applies(d, b) => j.amount <= Pricing!applyBilling(full * (100 - d.pct), b.cycle)

\* Everything but the jobs has its type.
PriceTypes ==
  /\ now \in Nat /\ changes \in Nat /\ config \in Pricing!Configs
  /\ rates \in [auto : RatesSeen \cup {0}, manual : RatesSeen \cup {0}]
  /\ memory \in [Servers -> [value : Pricing!Configs \cup {None}, at : 0..now]]
  /\ rateMemory \in [Servers -> [value : Nat \cup {None}, at : 0..now]]
  /\ said \in [Modules -> [price : PriceTags, server : Servers \cup {None}, at : 0..now]]
  /\ late \subseteq Servers /\ blurred \subseteq Modules

\* What the steps find.
LEMMA PricesFound ==
  ASSUME Pricing!PricesInv
  PROVE  /\ Pricing!TypeOK /\ PriceTypes /\ now \in Nat /\ Pricing!PricesKept
         /\ \A s \in Servers : Pricing!MemoryInv(s)
         /\ \A r \in Requests : buy[r] \in Pricing!Job /\ Pricing!JobType(buy[r]) /\ Pricing!JobInv(buy[r]) /\ Sold(buy[r])
BY DEF Pricing!PricesInv, Pricing!TypeOK, PriceTypes, Pricing!OrderIsFair, Sold

\* And what they must leave.
LEMMA PricesLeft ==
  ASSUME PriceTypes', buy' \in [Requests -> Pricing!Job], Pricing!PricesKept', \A s \in Servers : Pricing!MemoryInv(s)',
         \A r \in Requests : Pricing!JobType(buy[r])' /\ Pricing!JobInv(buy[r])' /\ Sold(buy[r])'
  PROVE  Pricing!PricesInv'
<1>1. Pricing!TypeOK'
  BY DEF Pricing!TypeOK, PriceTypes
<1>2. Pricing!OrderIsFair'
  BY DEF Pricing!OrderIsFair, Sold
<1>3. QED BY <1>1, <1>2 DEF Pricing!PricesInv

LEMMA PricesIdle == Pricing!Idle \in Pricing!Job /\ Pricing!Idle.at = "idle"
BY DEF Pricing!Idle, Pricing!Job, Pricing!Held

LEMMA PricesGoes ==
  ASSUME buy \in [Requests -> Pricing!Job], NEW r \in Requests, NEW j \in Pricing!Job, Pricing!Goto(r, j)
  PROVE  buy' \in [Requests -> Pricing!Job] /\ buy'[r] = j /\ \A q \in Requests \ {r} : buy'[q] = buy[q]
BY DEF Pricing!Goto

\* What was known stays known while nothing is said and the changes under way
\* stay so.
LEMMA PricesKnown ==
  ASSUME NEW base, NEW s, NEW t, UNCHANGED <<said, blurred>>, Pricing!Clearing(s) => Pricing!Clearing(s)', Pricing!Known(base, s, t)
  PROVE  Pricing!Known(base, s, t)'
BY DEF Pricing!Known, Pricing!Elsewhere

\* A request that neither was nor becomes a change under way leaves them.
LEMMA PricesClearing ==
  ASSUME buy \in [Requests -> Pricing!Job], NEW r \in Requests, NEW j \in Pricing!Job, Pricing!Goto(r, j), buy[r].at # "clear", NEW s, Pricing!Clearing(s)
  PROVE  Pricing!Clearing(s)'
<1>1. PICK q \in Requests : buy[q].at = "clear" /\ buy[q].server = s
  BY DEF Pricing!Clearing
<1>2. buy'[q] = buy[q]
  BY <1>1, PricesGoes
<1>3. QED BY <1>1, <1>2 DEF Pricing!Clearing

\* A step of one request leads to the invariant, if it does for that request.
LEMMA PricesOne ==
  ASSUME Pricing!PricesInv, UNCHANGED <<now, config, said, blurred>>, NEW r \in Requests, NEW j \in Pricing!Job, Pricing!Goto(r, j),
         buy[r].at # "clear", PriceTypes', \A s \in Servers : Pricing!MemoryInv(s)', Pricing!JobType(j)', Pricing!JobInv(j)', Sold(j)'
  PROVE  Pricing!PricesInv'
<1>1. /\ Pricing!TypeOK /\ Pricing!PricesKept
      /\ \A q \in Requests : buy[q] \in Pricing!Job /\ Pricing!JobType(buy[q]) /\ Pricing!JobInv(buy[q]) /\ Sold(buy[q])
  BY PricesFound
<1>2. buy' \in [Requests -> Pricing!Job] /\ buy'[r] = j /\ \A q \in Requests \ {r} : buy'[q] = buy[q]
  BY <1>1, PricesGoes DEF Pricing!TypeOK
<1>3. Pricing!PricesKept'
  BY <1>1 DEF Pricing!PricesKept
<1>4. ASSUME NEW q \in Requests PROVE Pricing!JobType(buy[q])' /\ Pricing!JobInv(buy[q])' /\ Sold(buy[q])'
  <2>1. CASE q = r
    BY <1>2, <2>1
  <2>2. CASE q # r
    <3>1. PICK k \in Pricing!Job : k = buy[q] /\ k = buy'[q] /\ Pricing!JobType(k) /\ Pricing!JobInv(k) /\ Sold(k)
      BY <1>1, <1>2, <2>2
    <3>2. Pricing!JobType(k)'
      BY <3>1 DEF Pricing!JobType
    <3>3. Sold(k)'
      BY <3>1 DEF Sold, Pricing!Applies, Pricing!Active
    <3>4. Pricing!JobInv(k)'
      <4>1. Pricing!Clearing(k.server) => Pricing!Clearing(k.server)'
        BY <1>1, PricesClearing DEF Pricing!TypeOK
      <4>2. Pricing!Known(k.base, k.server, k.read) => Pricing!Known(k.base, k.server, k.read)'
        BY <4>1, PricesKnown
      <4>3. QED BY <3>1, <4>2 DEF Pricing!JobInv
    <3>5. QED BY <3>1, <3>2, <3>3, <3>4
  <2>3. QED BY <2>1, <2>2
<1>5. QED BY <1>2, <1>3, <1>4, PricesLeft

\* What a server remembers stays known while it remembers it.
LEMMA PricesMemory ==
  ASSUME Pricing!PricesInv, UNCHANGED <<said, blurred>>, NEW r \in Requests, NEW j \in Pricing!Job, Pricing!Goto(r, j), buy[r].at # "clear",
         NEW s \in Servers, memory'[s] = memory[s], s \in late => s \in late'
  PROVE  Pricing!MemoryInv(s)'
<1>1. Pricing!TypeOK /\ Pricing!MemoryInv(s)
  BY PricesFound
<1>2. PICK base, t : base = memory[s].value /\ t = memory[s].at
  OBVIOUS
<1>3. Pricing!Clearing(s) => Pricing!Clearing(s)'
  BY <1>1, PricesClearing DEF Pricing!TypeOK
<1>4. Pricing!Known(base, s, t) => Pricing!Known(base, s, t)'
  BY <1>3, PricesKnown
<1>5. memory'[s].value = base /\ memory'[s].at = t
  BY <1>2
<1>6. base # None => s \in late' \/ Pricing!Known(base, s, t)'
  BY <1>1, <1>2, <1>4 DEF Pricing!MemoryInv
<1>7. QED BY <1>5, <1>6 DEF Pricing!MemoryInv

-----------------------------------------------------------------------------
LEMMA PricesStart ==
  ASSUME Pricing!PricesInv, NEW r \in Requests, NEW s \in Servers, NEW kind \in {"look", "order", "patch"},
         NEW change \in Pricing!Patches \cup Buys \cup {None}, kind = "order" => change \in Buys, kind = "patch" => change \in Pricing!Patches,
         Pricing!Start(r, s, kind, change), changes' \in Nat
  PROVE  Pricing!PricesInv'
<1>1. Pricing!TypeOK /\ PriceTypes
  BY PricesFound
<1>2. UNCHANGED <<now, config, rates, memory, rateMemory, said, late, blurred>> /\ buy[r].at \in {"idle", "sold"}
  BY DEF Pricing!Start, Pricing!Busy
<1>3. PriceTypes'
  BY <1>1, <1>2 DEF PriceTypes
<1>4. PICK j \in Pricing!Job : /\ j = [Pricing!Idle EXCEPT !.kind = kind, !.server = s, !.at = "get", !.change = change]
                               /\ j.at = "get" /\ j.kind = kind /\ j.server = s /\ j.change = change
  <2>1. [Pricing!Idle EXCEPT !.kind = kind, !.server = s, !.at = "get", !.change = change] \in Pricing!Job
    BY PricesIdle DEF Pricing!Job
  <2>2. QED BY <2>1 DEF Pricing!Idle
<1>5. Pricing!Goto(r, j)
  BY <1>4 DEF Pricing!Start
<1>6. \A t \in Servers : Pricing!MemoryInv(t)'
  BY <1>2, <1>5, PricesMemory
<1>7. Pricing!JobType(j)' /\ Pricing!JobInv(j)' /\ Sold(j)'
  BY <1>4 DEF Pricing!JobType, Pricing!JobInv, Sold, Pricing!Held
<1>8. QED BY <1>2, <1>3, <1>5, <1>6, <1>7, PricesOne

\* Where request k goes on once it has its settings.
GoesOn(k, j) ==
  /\ j.at \in {"idle", "write", "rate"}
  /\ j.at = "write" => k.kind = "patch"
  /\ j.at = "rate" => k.kind = "order"
  /\ j.at \in {"write", "rate"} => /\ j.kind = k.kind /\ j.server = k.server /\ j.base = k.base
                                   /\ j.read = k.read /\ j.change = k.change /\ (j.crossed <=> k.crossed)

LEMMA PricesWith ==
  ASSUME NEW j \in Pricing!Job, j.kind \in {"look", "order", "patch"}
  PROVE  Pricing!With(j) \in Pricing!Job /\ GoesOn(j, Pricing!With(j))
<1>1. CASE j.kind = "look"
  <2>1. Pricing!With(j) = Pricing!Idle
    BY <1>1 DEF Pricing!With
  <2>2. QED BY <2>1, PricesIdle DEF GoesOn
<1>2. CASE j.kind = "patch"
  <2>1. Pricing!With(j) = [j EXCEPT !.at = "write"]
    BY <1>2 DEF Pricing!With
  <2>2. [j EXCEPT !.at = "write"] \in Pricing!Job
    BY DEF Pricing!Job, Pricing!Held
  <2>3. QED BY <1>2, <2>1, <2>2 DEF Pricing!Job, GoesOn
<1>3. CASE j.kind = "order"
  <2>1. Pricing!With(j) = [j EXCEPT !.at = "rate"]
    BY <1>3 DEF Pricing!With
  <2>2. [j EXCEPT !.at = "rate"] \in Pricing!Job
    BY DEF Pricing!Job, Pricing!Held
  <2>3. QED BY <1>3, <2>1, <2>2 DEF Pricing!Job, GoesOn
<1>4. QED BY <1>1, <1>2, <1>3

LEMMA PricesGot ==
  ASSUME Pricing!PricesInv, NEW r \in Requests, Pricing!getPlatformConfig(r)
  PROVE  Pricing!PricesInv'
<1> USE PriceTTLAssumption
<1>1. /\ Pricing!TypeOK /\ PriceTypes /\ now \in Nat /\ Pricing!PricesKept /\ \A t \in Servers : Pricing!MemoryInv(t)
      /\ buy[r] \in Pricing!Job /\ Pricing!JobType(buy[r])
  BY PricesFound
<1>2. UNCHANGED <<Pricing!stay, memory, rateMemory, late>> /\ buy[r].at = "get"
  BY DEF Pricing!getPlatformConfig
<1>3. UNCHANGED <<now, config, rates, changes, said, blurred>>
  BY <1>2 DEF Pricing!stay
<1>4. PriceTypes'
  BY <1>1, <1>2, <1>3 DEF PriceTypes
<1>5. PICK s \in Servers : s = buy[r].server
  BY <1>1, <1>2 DEF Pricing!JobType
<1>6. buy[r].kind \in {"look", "order", "patch"}
  BY <1>1, <1>2 DEF Pricing!JobType
<1>7. CASE Pricing!Usable(memory[s], PriceTTL)
  <2>1. memory[s].value \in Pricing!Configs /\ memory[s].at \in 0..now /\ now - memory[s].at < PriceTTL
    BY <1>1, <1>7 DEF PriceTypes, Pricing!Usable, Pricing!Fresh
  <2>2. s \in late \/ Pricing!Known(memory[s].value, s, memory[s].at)
    BY <1>1, <1>7 DEF Pricing!MemoryInv, Pricing!Usable, Pricing!Fresh
  <2>3. PICK base \in Pricing!Configs, t \in 0..now, crossed \in BOOLEAN :
           base = memory[s].value /\ t = memory[s].at /\ crossed = (s \in late)
    <3>1. (s \in late) \in BOOLEAN
      OBVIOUS
    <3>2. QED BY <2>1, <3>1
  <2>4. PICK k \in Pricing!Job : /\ k = [buy[r] EXCEPT !.base = base, !.read = t, !.crossed = crossed]
                                  /\ k.kind = buy[r].kind /\ k.server = s /\ k.change = buy[r].change
                                  /\ k.base = base /\ k.read = t /\ k.crossed = crossed
    <3>1. PICK o \in Pricing!Job : o = buy[r]
      BY <1>1
    <3>2. t \in Nat
      BY <1>1, <2>3
    <3>3. [o EXCEPT !.base = base, !.read = t, !.crossed = crossed] \in Pricing!Job
      BY <2>3, <3>2 DEF Pricing!Job
    <3>4. PICK k \in Pricing!Job : k = [o EXCEPT !.base = base, !.read = t, !.crossed = crossed]
      BY <3>3
    <3>5. k.kind = o.kind /\ k.server = o.server /\ k.change = o.change /\ k.base = base /\ k.read = t /\ k.crossed = crossed
      BY <3>4 DEF Pricing!Job
    <3>6. QED BY <1>5, <3>1, <3>4, <3>5
  <2>5. PICK j \in Pricing!Job : j = Pricing!With(k) /\ GoesOn(k, j)
    BY <1>6, <2>4, PricesWith
  <2>6. Pricing!Goto(r, j)
    BY <1>5, <1>7, <2>3, <2>4, <2>5 DEF Pricing!getPlatformConfig, Pricing!Goto
  <2>7. \A x \in Servers : Pricing!MemoryInv(x)'
    BY <1>2, <1>3, <2>6, PricesMemory
  <2>8. Pricing!Clearing(s) => Pricing!Clearing(s)'
    BY <1>1, <1>2, <2>6, PricesClearing DEF Pricing!TypeOK
  <2>9. s \in late \/ Pricing!Known(base, s, t)'
    BY <1>3, <2>2, <2>3, <2>8, PricesKnown
  <2>10. Pricing!JobInv(j)'
    <3>1. GoesOn(k, j)
      BY <2>5
    <3>2. CASE j.at = "write"
      <4>1. j.base = base /\ j.server = s /\ j.read = t /\ (j.crossed <=> crossed)
        BY <2>4, <3>1, <3>2 DEF GoesOn
      <4>2. crossed \/ Pricing!Known(base, s, t)'
        BY <2>3, <2>9
      <4>3. j.crossed \/ Pricing!Known(j.base, j.server, j.read)'
        BY <4>1, <4>2
      <4>4. QED BY <4>3 DEF Pricing!JobInv
    <3>3. CASE j.at # "write"
      BY <3>1, <3>3 DEF Pricing!JobInv, GoesOn
    <3>4. QED BY <3>2, <3>3
  <2>11. Pricing!JobType(j)' /\ Sold(j)'
    <3>1. /\ buy[r].kind = "order" => buy[r].change \in Buys
          /\ buy[r].kind = "patch" => buy[r].change \in Pricing!Patches
      BY <1>1, <1>2 DEF Pricing!JobType
    <3>2. t \in 0..now' /\ now' - t < PriceTTL
      BY <1>3, <2>1, <2>3
    <3>3. GoesOn(k, j) /\ k.kind = buy[r].kind /\ k.server = s /\ k.change = buy[r].change /\ k.base = base /\ k.read = t
      BY <2>4, <2>5
    <3>4. Pricing!JobType(j)'
      BY <1>6, <3>1, <3>2, <3>3 DEF Pricing!JobType, GoesOn, Pricing!Held
    <3>5. QED BY <3>3, <3>4 DEF Sold, GoesOn
  <2>12. QED BY <1>2, <1>3, <1>4, <2>6, <2>7, <2>10, <2>11, PricesOne
<1>8. CASE ~Pricing!Usable(memory[s], PriceTTL)
  <2>1. PICK base \in Pricing!Configs : base = config
    BY <1>1 DEF PriceTypes
  <2>2. PICK j \in Pricing!Job : /\ j = [buy[r] EXCEPT !.at = "fill", !.base = config, !.read = now]
                                  /\ j.at = "fill" /\ j.kind = buy[r].kind /\ j.server = s /\ j.change = buy[r].change
                                  /\ j.base = base /\ j.read = now
    <3>1. PICK o \in Pricing!Job : o = buy[r]
      BY <1>1
    <3>2. [o EXCEPT !.at = "fill", !.base = base, !.read = now] \in Pricing!Job
      BY <1>1, <2>1 DEF Pricing!Job, Pricing!Held
    <3>3. PICK k \in Pricing!Job : k = [o EXCEPT !.at = "fill", !.base = base, !.read = now]
      BY <3>2
    <3>4. k.at = "fill" /\ k.kind = o.kind /\ k.server = o.server /\ k.change = o.change /\ k.base = base /\ k.read = now
      BY <3>1, <3>3 DEF Pricing!Job
    <3>5. QED BY <1>5, <2>1, <3>1, <3>3, <3>4
  <2>3. Pricing!Goto(r, j)
    BY <1>5, <1>8, <2>2 DEF Pricing!getPlatformConfig
  <2>4. \A x \in Servers : Pricing!MemoryInv(x)'
    BY <1>2, <1>3, <2>3, PricesMemory
  <2>5. Pricing!JobInv(j)'
    BY <1>1, <1>3, <2>1, <2>2 DEF Pricing!JobInv, Pricing!Known, Pricing!PricesKept
  <2>6. Pricing!JobType(j)' /\ Sold(j)'
    BY <1>1, <1>2, <1>3, <2>2 DEF Pricing!JobType, Sold, Pricing!Held
  <2>7. QED BY <1>2, <1>3, <1>4, <2>3, <2>4, <2>5, <2>6, PricesOne
<1>9. QED BY <1>7, <1>8

LEMMA PricesFilled ==
  ASSUME Pricing!PricesInv, NEW r \in Requests, Pricing!FillConfig(r)
  PROVE  Pricing!PricesInv'
<1>1. /\ Pricing!TypeOK /\ PriceTypes /\ now \in Nat /\ \A t \in Servers : Pricing!MemoryInv(t)
      /\ buy[r] \in Pricing!Job /\ Pricing!JobType(buy[r]) /\ Pricing!JobInv(buy[r])
  BY PricesFound
<1>2. UNCHANGED <<Pricing!stay, rateMemory>> /\ buy[r].at = "fill"
  BY DEF Pricing!FillConfig
<1>3. UNCHANGED <<now, config, rates, changes, said, blurred>>
  BY <1>2 DEF Pricing!stay
<1>4. PICK s \in Servers, k \in Pricing!Job : s = buy[r].server /\ k = buy[r]
  BY <1>1, <1>2 DEF Pricing!JobType
<1>5. /\ k.kind \in {"look", "order", "patch"} /\ k.base \in Pricing!Configs /\ k.read = now /\ now - k.read < PriceTTL
      /\ k.kind = "order" => k.change \in Buys
      /\ k.kind = "patch" => k.change \in Pricing!Patches
  BY <1>1, <1>2, <1>4 DEF Pricing!JobType, Pricing!Held
<1>6. memory' = [memory EXCEPT ![s] = [value |-> k.base, at |-> now]]
      /\ late' = IF k.crossed THEN late \cup {s} ELSE late \ {s}
  BY <1>4 DEF Pricing!FillConfig
<1>7. PriceTypes'
  <2>1. memory' \in [Servers -> [value : Pricing!Configs \cup {None}, at : 0..now]]
    BY <1>1, <1>5, <1>6 DEF PriceTypes
  <2>2. late' \subseteq Servers
    BY <1>1, <1>6 DEF PriceTypes
  <2>3. QED BY <1>1, <1>2, <1>3, <2>1, <2>2 DEF PriceTypes
<1>8. PICK j \in Pricing!Job : j = Pricing!With(k) /\ GoesOn(k, j)
  BY <1>4, <1>5, PricesWith
<1>9. Pricing!Goto(r, j)
  BY <1>4, <1>8 DEF Pricing!FillConfig, Pricing!Goto
<1>10. k.crossed \/ Pricing!Known(k.base, s, now)
  BY <1>1, <1>2, <1>4, <1>5 DEF Pricing!JobInv
<1>11. k.crossed \/ Pricing!Known(k.base, s, now)'
  <2>1. Pricing!Clearing(s) => Pricing!Clearing(s)'
    BY <1>1, <1>2, <1>9, PricesClearing DEF Pricing!TypeOK
  <2>2. PICK t : t = now
    OBVIOUS
  <2>3. Pricing!Known(k.base, s, t) => Pricing!Known(k.base, s, t)'
    BY <1>3, <2>1, PricesKnown
  <2>4. QED BY <1>3, <1>10, <2>2, <2>3
<1>12. ASSUME NEW x \in Servers PROVE Pricing!MemoryInv(x)'
  <2>1. CASE x = s
    <3>1. memory'[s].value = k.base /\ memory'[s].at = now'
      BY <1>1, <1>3, <1>6 DEF PriceTypes
    <3>2. k.crossed => s \in late'
      BY <1>6
    <3>3. QED BY <1>11, <2>1, <3>1, <3>2 DEF Pricing!MemoryInv
  <2>2. CASE x # s
    <3>1. memory'[x] = memory[x] /\ (x \in late => x \in late')
      BY <1>1, <1>6, <2>2 DEF PriceTypes
    <3>2. QED BY <1>2, <1>3, <1>9, <3>1, PricesMemory
  <2>3. QED BY <2>1, <2>2
<1>13. GoesOn(k, j) /\ k.server = s
  BY <1>4, <1>8
<1>14. Pricing!JobInv(j)'
  <2>1. CASE j.at = "write"
    <3>1. PICK t : t = now
      OBVIOUS
    <3>2. j.base = k.base /\ j.server = s /\ j.read = t /\ (j.crossed <=> k.crossed)
      BY <1>5, <1>13, <2>1, <3>1 DEF GoesOn
    <3>3. k.crossed \/ Pricing!Known(k.base, s, t)'
      BY <1>3, <1>11, <3>1
    <3>4. j.crossed \/ Pricing!Known(j.base, j.server, j.read)'
      BY <3>2, <3>3
    <3>5. QED BY <3>4 DEF Pricing!JobInv
  <2>2. CASE j.at # "write"
    BY <1>13, <2>2 DEF Pricing!JobInv, GoesOn
  <2>3. QED BY <2>1, <2>2
<1>15. Pricing!JobType(j)' /\ Sold(j)'
  <2>1. k.read \in 0..now' /\ now' - k.read < PriceTTL
    BY <1>1, <1>3, <1>5
  <2>2. Pricing!JobType(j)'
    BY <1>5, <1>13, <2>1 DEF Pricing!JobType, GoesOn, Pricing!Held
  <2>3. QED BY <1>13, <2>2 DEF Sold, GoesOn
<1>16. QED BY <1>2, <1>3, <1>7, <1>9, <1>12, <1>14, <1>15, PricesOne

-----------------------------------------------------------------------------
\* The rate that holds is a number.
LEMMA PricesRate == ASSUME PriceTypes PROVE Pricing!Effective(rates) \in Nat
<1>1. rates.auto \in Nat /\ rates.manual \in Nat
  <2>1. \A v \in RatesSeen \cup {0} : v \in Nat
    BY TagsAssumption
  <2>2. QED BY <2>1 DEF PriceTypes
<1>2. QED BY <1>1, TagsAssumption DEF Pricing!Effective

LEMMA PricesRated ==
  ASSUME Pricing!PricesInv, NEW r \in Requests, Pricing!getRates(r)
  PROVE  Pricing!PricesInv'
<1> USE PriceTTLAssumption
<1>1. /\ Pricing!TypeOK /\ PriceTypes /\ now \in Nat /\ buy[r] \in Pricing!Job /\ Pricing!JobType(buy[r])
  BY PricesFound
<1>2. UNCHANGED <<Pricing!stay, memory, rateMemory, late>> /\ buy[r].at = "rate"
  BY DEF Pricing!getRates
<1>3. UNCHANGED <<now, config, rates, changes, said, blurred>>
  BY <1>2 DEF Pricing!stay
<1>4. PriceTypes'
  BY <1>1, <1>2, <1>3 DEF PriceTypes
<1>5. PICK s \in Servers, k \in Pricing!Job : s = buy[r].server /\ k = buy[r] /\ k.server = s
  BY <1>1, <1>2 DEF Pricing!JobType
<1>6. k.kind = "order" /\ k.base \in Pricing!Configs /\ k.change \in Buys /\ k.read \in 0..now /\ now - k.read < PriceTTL
  BY <1>1, <1>2, <1>5 DEF Pricing!JobType, Pricing!Held
<1>7. PICK rate \in Nat, at \in 0..now, place \in {"charge", "fillRate"} :
         /\ Pricing!Goto(r, [k EXCEPT !.at = place, !.rate = rate, !.rateRead = at])
         /\ now - at < RateTTL /\ (place = "fillRate" => at = now)
  <2>1. CASE Pricing!Usable(rateMemory[s], RateTTL)
    <3>1. rateMemory[s].value \in Nat /\ rateMemory[s].at \in 0..now /\ now - rateMemory[s].at < RateTTL
      BY <1>1, <2>1 DEF Pricing!Usable, Pricing!Fresh, PriceTypes
    <3>2. Pricing!Goto(r, [k EXCEPT !.at = "charge", !.rate = rateMemory[s].value, !.rateRead = rateMemory[s].at])
      BY <1>5, <2>1 DEF Pricing!getRates
    <3>3. QED BY <3>1, <3>2
  <2>2. CASE ~Pricing!Usable(rateMemory[s], RateTTL)
    <3>1. Pricing!Goto(r, [k EXCEPT !.at = "fillRate", !.rate = Pricing!Effective(rates), !.rateRead = now])
      BY <1>5, <2>2 DEF Pricing!getRates
    <3>2. Pricing!Effective(rates) \in Nat /\ now \in 0..now /\ now - now < RateTTL
      BY <1>1, PricesRate
    <3>3. QED BY <3>1, <3>2
  <2>3. QED BY <2>1, <2>2
<1>8. PICK j \in Pricing!Job : /\ j = [k EXCEPT !.at = place, !.rate = rate, !.rateRead = at]
                                /\ j.at = place /\ j.rateRead = at /\ j.kind = k.kind /\ j.server = s /\ j.base = k.base
                                /\ j.read = k.read /\ j.change = k.change
  <2>1. at \in Nat
    BY <1>1
  <2>2. [k EXCEPT !.at = place, !.rate = rate, !.rateRead = at] \in Pricing!Job
    BY <2>1 DEF Pricing!Job, Pricing!Held
  <2>3. PICK j \in Pricing!Job : j = [k EXCEPT !.at = place, !.rate = rate, !.rateRead = at]
    BY <2>2
  <2>4. j.at = place /\ j.rateRead = at /\ j.kind = k.kind /\ j.server = k.server /\ j.base = k.base
        /\ j.read = k.read /\ j.change = k.change
    BY <2>3 DEF Pricing!Job
  <2>5. QED BY <1>5, <2>3, <2>4
<1>9. Pricing!Goto(r, j)
  BY <1>7, <1>8
<1>10. \A x \in Servers : Pricing!MemoryInv(x)'
  BY <1>2, <1>3, <1>9, PricesMemory
<1>11. Pricing!JobInv(j)' /\ Sold(j)'
  BY <1>8 DEF Pricing!JobInv, Sold
<1>12. Pricing!JobType(j)'
  BY <1>3, <1>6, <1>7, <1>8 DEF Pricing!JobType, Pricing!Held
<1>13. QED BY <1>2, <1>3, <1>4, <1>9, <1>10, <1>11, <1>12, PricesOne

LEMMA PricesRateFilled ==
  ASSUME Pricing!PricesInv, NEW r \in Requests, Pricing!FillRates(r)
  PROVE  Pricing!PricesInv'
<1>1. /\ Pricing!TypeOK /\ PriceTypes /\ now \in Nat /\ buy[r] \in Pricing!Job /\ Pricing!JobType(buy[r])
  BY PricesFound
<1>2. UNCHANGED <<Pricing!stay, memory, late>> /\ buy[r].at = "fillRate"
  BY DEF Pricing!FillRates
<1>3. UNCHANGED <<now, config, rates, changes, said, blurred>>
  BY <1>2 DEF Pricing!stay
<1>4. PICK k \in Pricing!Job : k = buy[r]
  BY <1>1
<1>5. /\ k.kind = "order" /\ k.base \in Pricing!Configs /\ k.change \in Buys /\ k.read \in 0..now /\ now - k.read < PriceTTL
      /\ k.rateRead = now /\ now - k.rateRead < RateTTL /\ k.server \in Servers /\ k.rate \in Nat
  BY <1>1, <1>2, <1>4 DEF Pricing!JobType, Pricing!Held, Pricing!Job
<1>6. PriceTypes'
  <2>1. rateMemory' \in [Servers -> [value : Nat \cup {None}, at : 0..now]]
    BY <1>1, <1>4, <1>5 DEF PriceTypes, Pricing!FillRates
  <2>2. QED BY <1>1, <1>2, <1>3, <2>1 DEF PriceTypes
<1>7. PICK j \in Pricing!Job : /\ j = [k EXCEPT !.at = "charge"] /\ j.at = "charge" /\ j.rateRead = now
                                /\ j.kind = k.kind /\ j.server = k.server /\ j.base = k.base /\ j.read = k.read /\ j.change = k.change
  <2>1. [k EXCEPT !.at = "charge"] \in Pricing!Job
    BY DEF Pricing!Job, Pricing!Held
  <2>2. QED BY <1>5, <2>1 DEF Pricing!Job
<1>8. Pricing!Goto(r, j)
  BY <1>4, <1>7 DEF Pricing!FillRates
<1>9. \A x \in Servers : Pricing!MemoryInv(x)'
  BY <1>2, <1>3, <1>8, PricesMemory
<1>10. Pricing!JobInv(j)' /\ Sold(j)'
  BY <1>7 DEF Pricing!JobInv, Sold
<1>11. Pricing!JobType(j)'
  BY <1>1, <1>3, <1>5, <1>7 DEF Pricing!JobType, Pricing!Held
<1>12. QED BY <1>2, <1>3, <1>6, <1>8, <1>9, <1>10, <1>11, PricesOne

-----------------------------------------------------------------------------
\* More of the same costs no less.
LEMMA Product ==
  ASSUME NEW a \in Nat, NEW x \in Nat, NEW y \in Nat, x <= y
  PROVE  a * x \in Nat /\ a * y \in Nat /\ a * x <= a * y
<1>1. a * x \in Nat /\ a * y \in Nat
  OBVIOUS
<1>2. PICK d \in Nat : y = x + d
  <2>1. y - x \in Nat /\ y = x + (y - x)
    OBVIOUS
  <2>2. QED BY <2>1
<1>3. a * y = a * x + a * d /\ a * d \in Nat
  BY <1>2
<1>4. QED BY <1>1, <1>3

LEMMA Billed ==
  ASSUME NEW x \in Nat, NEW y \in Nat, x <= y, NEW cycle
  PROVE  Pricing!applyBilling(x, cycle) \in Int /\ Pricing!applyBilling(x, cycle) <= Pricing!applyBilling(y, cycle)
<1>1. CASE cycle = "yearly"
  <2>1. PICK left \in Nat : left = 100 - YearlyDiscount
    <3>1. YearlyDiscount \in 0..100
      BY TagsAssumption
    <3>2. QED BY <3>1
  <2>2. PICK a \in Nat, b \in Nat : a = x * 12 /\ b = y * 12 /\ a <= b
    OBVIOUS
  <2>3. left * a \in Nat /\ left * b \in Nat /\ left * a <= left * b
    BY <2>2, Product
  <2>4. a * left = left * a /\ b * left = left * b
    OBVIOUS
  <2>5. PICK m \in Nat, n \in Nat : m = a * left /\ n = b * left /\ m <= n
    BY <2>3, <2>4
  <2>6. m \div 100 \in Int /\ m \div 100 <= n \div 100
    BY <2>5
  <2>7. Pricing!applyBilling(x, cycle) = m \div 100 /\ Pricing!applyBilling(y, cycle) = n \div 100
    BY <1>1, <2>1, <2>2, <2>5 DEF Pricing!applyBilling
  <2>8. QED BY <2>6, <2>7
<1>2. CASE cycle # "yearly"
  BY <1>2 DEF Pricing!applyBilling
<1>3. QED BY <1>1, <1>2

\* The order is charged no more than without, or with another, discount.
LEMMA PricesFair ==
  ASSUME NEW cfg \in Pricing!Configs, NEW b \in Buys, NEW rate \in Nat
  PROVE  LET full == cfg.prices[b.module] * Pricing!rateFor(b, rate)
             amount == Pricing!OrderAmount(cfg, b, rate) IN
         /\ amount \in Int /\ amount <= Pricing!applyBilling(full * 100, b.cycle)
         /\ \A d \in cfg.rules : Pricing!Applies(d, b) => amount <= Pricing!applyBilling(full * (100 - d.pct), b.cycle)
<1>1. cfg.prices[b.module] \in Nat /\ cfg.rules \subseteq Rules
  <2>1. b.module \in Modules
    BY RulesAssumption
  <2>2. cfg.prices[b.module] \in PriceTags
    BY <2>1 DEF Pricing!Configs
  <2>3. QED BY <2>2, TagsAssumption DEF Pricing!Configs
<1>2. Pricing!rateFor(b, rate) \in Nat
  BY DEF Pricing!rateFor
<1>3. PICK full \in Nat : full = cfg.prices[b.module] * Pricing!rateFor(b, rate)
  BY <1>1, <1>2
<1>4. PICK pcts : pcts = {d.pct : d \in {x \in cfg.rules : Pricing!Applies(x, b)}}
  OBVIOUS
<1>5. pcts \cup {0} \subseteq 0..100 /\ pcts \cup {0} # {}
  <2>1. \A d \in cfg.rules : d.pct \in 0..100
    BY <1>1, RulesAssumption
  <2>2. QED BY <1>4, <2>1
<1>6. Pricing!Max(pcts \cup {0}) \in 0..100 /\ \A y \in pcts \cup {0} : y <= Pricing!Max(pcts \cup {0})
  BY <1>5, Greatest
<1>7. PICK best \in 0..100 : best = Pricing!bestDiscount(pcts) /\ \A y \in pcts : y <= best
  BY <1>6 DEF Pricing!bestDiscount, Pricing!Largest
<1>8. PICK least \in Nat : least = 100 - best /\ least <= 100
  BY <1>7
<1>9. Pricing!ModulePrice(cfg, b, rate) = full * least
  BY <1>3, <1>4, <1>7, <1>8 DEF Pricing!ModulePrice
<1>10. Pricing!OrderAmount(cfg, b, rate) = Pricing!applyBilling(full * least, b.cycle)
  BY <1>9 DEF Pricing!OrderAmount
<1>11. ASSUME NEW more \in Nat, least <= more
       PROVE  Pricing!applyBilling(full * least, b.cycle) \in Int /\ Pricing!applyBilling(full * least, b.cycle) <= Pricing!applyBilling(full * more, b.cycle)
  <2>1. full * least \in Nat /\ full * more \in Nat /\ full * least <= full * more
    BY <1>11, Product
  <2>2. QED BY <2>1, Billed
<1>12. ASSUME NEW d \in cfg.rules, Pricing!Applies(d, b)
       PROVE  Pricing!applyBilling(full * least, b.cycle) <= Pricing!applyBilling(full * (100 - d.pct), b.cycle)
  <2>1. d.pct \in 0..100 /\ d.pct \in pcts
    BY <1>1, <1>4, <1>12, RulesAssumption
  <2>2. PICK more \in Nat : more = 100 - d.pct /\ least <= more
    <3>1. d.pct <= best
      BY <1>7, <2>1
    <3>2. QED BY <1>8, <2>1, <3>1
  <2>3. QED BY <1>11, <2>2
<1>13. Pricing!applyBilling(full * least, b.cycle) \in Int /\ Pricing!applyBilling(full * least, b.cycle) <= Pricing!applyBilling(full * 100, b.cycle)
  BY <1>8, <1>11
<1>14. QED BY <1>3, <1>10, <1>12, <1>13

LEMMA PricesSold ==
  ASSUME Pricing!PricesInv, NEW r \in Requests, Pricing!CreateOrder(r)
  PROVE  Pricing!PricesInv'
<1>1. /\ Pricing!TypeOK /\ PriceTypes /\ now \in Nat /\ buy[r] \in Pricing!Job /\ Pricing!JobType(buy[r])
  BY PricesFound
<1>2. UNCHANGED <<Pricing!stay, memory, rateMemory, late>> /\ buy[r].at = "charge"
  BY DEF Pricing!CreateOrder
<1>3. UNCHANGED <<now, config, rates, changes, said, blurred>>
  BY <1>2 DEF Pricing!stay
<1>4. PriceTypes'
  BY <1>1, <1>2, <1>3 DEF PriceTypes
<1>5. PICK k \in Pricing!Job : k = buy[r]
  BY <1>1
<1>6. /\ k.kind = "order" /\ k.base \in Pricing!Configs /\ k.change \in Buys /\ k.read \in 0..now /\ now - k.read < PriceTTL
      /\ k.rateRead \in 0..now /\ now - k.rateRead < RateTTL /\ k.server \in Servers /\ k.rate \in Nat
  BY <1>1, <1>2, <1>5 DEF Pricing!JobType, Pricing!Held, Pricing!Job
<1>7. PICK amount \in Int : amount = Pricing!OrderAmount(k.base, k.change, k.rate)
  BY <1>6, PricesFair
<1>8. PICK j \in Pricing!Job : /\ j = [k EXCEPT !.at = "sold", !.amount = amount] /\ j.at = "sold" /\ j.amount = amount
                                /\ j.kind = k.kind /\ j.server = k.server /\ j.base = k.base /\ j.read = k.read
                                /\ j.change = k.change /\ j.rate = k.rate /\ j.rateRead = k.rateRead
  <2>1. [k EXCEPT !.at = "sold", !.amount = amount] \in Pricing!Job
    BY DEF Pricing!Job, Pricing!Held
  <2>2. PICK j \in Pricing!Job : j = [k EXCEPT !.at = "sold", !.amount = amount]
    BY <2>1
  <2>3. j.at = "sold" /\ j.amount = amount /\ j.kind = k.kind /\ j.server = k.server /\ j.base = k.base /\ j.read = k.read
        /\ j.change = k.change /\ j.rate = k.rate /\ j.rateRead = k.rateRead
    BY <2>2 DEF Pricing!Job
  <2>4. QED BY <2>2, <2>3
<1>9. Pricing!Goto(r, j)
  BY <1>5, <1>7, <1>8 DEF Pricing!CreateOrder
<1>10. \A x \in Servers : Pricing!MemoryInv(x)'
  BY <1>2, <1>3, <1>9, PricesMemory
<1>11. Pricing!JobInv(j)'
  BY <1>8 DEF Pricing!JobInv
<1>12. Pricing!JobType(j)'
  BY <1>3, <1>6, <1>8 DEF Pricing!JobType, Pricing!Held
<1>13. Sold(j)'
  <2>1. Sold(j)' <=> Sold(j)
    BY <1>3 DEF Sold, Pricing!Applies, Pricing!Active
  <2>2. Sold(j)
    <3>1. PICK cfg \in Pricing!Configs, b \in Buys, rate \in Nat : cfg = k.base /\ b = k.change /\ rate = k.rate
      BY <1>6
    <3>2. /\ amount <= Pricing!applyBilling(cfg.prices[b.module] * Pricing!rateFor(b, rate) * 100, b.cycle)
          /\ \A d \in cfg.rules : Pricing!Applies(d, b) => amount <= Pricing!applyBilling(cfg.prices[b.module] * Pricing!rateFor(b, rate) * (100 - d.pct), b.cycle)
      BY <1>7, <3>1, PricesFair
    <3>3. QED BY <1>6, <1>8, <3>1, <3>2 DEF Sold
  <2>3. QED BY <2>1, <2>2
<1>14. QED BY <1>2, <1>3, <1>4, <1>9, <1>10, <1>11, <1>12, <1>13, PricesOne

-----------------------------------------------------------------------------
\* A change is of one price, or of none.
LEMMA PricesPatch ==
  ASSUME NEW c \in Pricing!Patches
  PROVE  /\ \/ c.prices = <<>> /\ DOMAIN c.prices = {}
            \/ \E x \in Modules, v \in PriceTags : c.prices = [m \in {x} |-> v]
         /\ c.list # None => c.list \in SUBSET Rules
         /\ c.old # None => c.old \in Rules
<1>1. CASE c \in Pricing!PriceChanges
  <2>1. PICK x \in Modules : \E p \in [{x} -> PriceTags] : c = Pricing!Change(p, None, None)
    BY <1>1 DEF Pricing!PriceChanges
  <2>2. PICK p \in [{x} -> PriceTags] : c = Pricing!Change(p, None, None)
    BY <2>1
  <2>3. c.prices = p /\ c.list = None /\ c.old = None
    BY <2>2 DEF Pricing!Change
  <2>4. p = [m \in {x} |-> p[x]] /\ p[x] \in PriceTags
    OBVIOUS
  <2>5. QED BY <2>3, <2>4
<1>2. CASE c \in Pricing!ListChanges
  <2>1. PICK l \in RuleLists : c = Pricing!Change(<<>>, l, None)
    BY <1>2 DEF Pricing!ListChanges
  <2>2. c.prices = <<>> /\ c.list = l /\ c.old = None
    BY <2>1 DEF Pricing!Change
  <2>3. l \in SUBSET Rules /\ DOMAIN <<>> = {}
    BY RulesAssumption
  <2>4. QED BY <2>2, <2>3
<1>3. CASE c \in Pricing!OldChanges
  <2>1. PICK d \in Rules : c = Pricing!Change(<<>>, None, d)
    BY <1>3 DEF Pricing!OldChanges
  <2>2. c.prices = <<>> /\ c.list = None /\ c.old = d
    BY <2>1 DEF Pricing!Change
  <2>3. DOMAIN <<>> = {}
    OBVIOUS
  <2>4. QED BY <2>2, <2>3
<1>4. QED BY <1>1, <1>2, <1>3 DEF Pricing!Patches

LEMMA PricesWritten ==
  ASSUME NEW cfg \in Pricing!Configs, NEW base \in Pricing!Configs, NEW c \in Pricing!Patches
  PROVE  Pricing!Written(cfg, base, c) \in Pricing!Configs
<1>1. /\ \/ c.prices = <<>> /\ DOMAIN c.prices = {}
         \/ \E x \in Modules, v \in PriceTags : c.prices = [m \in {x} |-> v]
      /\ c.list # None => c.list \in SUBSET Rules
      /\ c.old # None => c.old \in Rules
  BY PricesPatch
<1>2. PICK table : table = IF c.prices = <<>> THEN cfg.prices
                             ELSE [m \in Modules |-> IF m \in DOMAIN c.prices THEN c.prices[m] ELSE base.prices[m]]
  OBVIOUS
<1>3. table \in [Modules -> PriceTags]
  <2>1. cfg.prices \in [Modules -> PriceTags] /\ base.prices \in [Modules -> PriceTags]
    BY DEF Pricing!Configs
  <2>2. CASE c.prices = <<>>
    BY <1>2, <2>1, <2>2
  <2>3. CASE c.prices # <<>>
    <3>1. PICK x \in Modules, v \in PriceTags : c.prices = [m \in {x} |-> v]
      BY <1>1, <2>3
    <3>2. \A m \in Modules : (IF m \in DOMAIN c.prices THEN c.prices[m] ELSE base.prices[m]) \in PriceTags
      BY <2>1, <3>1
    <3>3. QED BY <1>2, <2>3, <3>2
  <2>4. QED BY <2>2, <2>3
<1>4. PICK rules : rules = IF c.list # None THEN c.list
                           ELSE IF c.old # None THEN {d \in base.rules : d.modules # c.old.modules} \cup {c.old}
                           ELSE cfg.rules
  OBVIOUS
<1>5. rules \in SUBSET Rules
  BY <1>1, <1>4 DEF Pricing!Configs
<1>6. Pricing!Written(cfg, base, c) = [prices |-> table, rules |-> rules]
  BY <1>2, <1>4 DEF Pricing!Written
<1>7. QED BY <1>3, <1>5, <1>6 DEF Pricing!Configs

\* What the change of one price says of that price is heard by every other
\* server, and its own is about to forget.
LEMMA PricesHeard ==
  ASSUME Pricing!PricesInv, NEW r \in Requests, Pricing!UpdateConfig(r), NEW base, NEW s \in Servers, NEW t \in 0..now, Pricing!Known(base, s, t)
  PROVE  Pricing!Known(base, s, t)'
<1>1. /\ Pricing!TypeOK /\ PriceTypes /\ now \in Nat /\ buy[r] \in Pricing!Job /\ Pricing!JobType(buy[r])
  BY PricesFound
<1>2. PICK k \in Pricing!Job, c \in Pricing!Patches : k = buy[r] /\ c = k.change /\ k.at = "write" /\ k.server \in Servers
  BY <1>1 DEF Pricing!UpdateConfig, Pricing!JobType
<1>3. PICK j \in Pricing!Job : j = [k EXCEPT !.at = "clear"] /\ j.at = "clear" /\ j.server = k.server
  <2>1. [k EXCEPT !.at = "clear"] \in Pricing!Job
    BY DEF Pricing!Job
  <2>2. QED BY <2>1 DEF Pricing!Job
<1>4. Pricing!Goto(r, j)
  BY <1>2, <1>3 DEF Pricing!UpdateConfig
<1>5. buy'[r] = j
  BY <1>1, <1>4, PricesGoes DEF Pricing!TypeOK
<1>6. CASE s = k.server
  <2>1. Pricing!Clearing(s)'
    BY <1>3, <1>5, <1>6 DEF Pricing!Clearing
  <2>2. QED BY <2>1 DEF Pricing!Known
<1>7. CASE s # k.server
  <2>1. Pricing!Clearing(s) => Pricing!Clearing(s)'
    BY <1>1, <1>2, <1>4, PricesClearing DEF Pricing!TypeOK
  <2>2. CASE DOMAIN c.prices = {}
    <3>1. UNCHANGED <<said, blurred>>
      BY <1>2, <2>2 DEF Pricing!UpdateConfig
    <3>2. QED BY <2>1, <3>1, PricesKnown
  <2>3. CASE DOMAIN c.prices # {}
    <3>1. PICK x \in Modules, v \in PriceTags : c.prices = [m \in {x} |-> v]
      BY <2>3, PricesPatch
    <3>2. DOMAIN c.prices = {x} /\ c.prices[x] = v
      BY <3>1
    <3>3. /\ said' = [m \in Modules |-> IF m \in {x} THEN [price |-> c.prices[m], server |-> k.server, at |-> now] ELSE said[m]]
          /\ blurred' = (blurred \cup {m \in Modules : Pricing!Near(r, m)}) \ {x}
      BY <1>2, <3>2 DEF Pricing!UpdateConfig
    <3>4. ASSUME NEW m \in Modules
          PROVE  base.prices[m] = said'[m].price \/ m \in blurred' \/ Pricing!Clearing(s)' \/ Pricing!Elsewhere(s, m, t)'
      <4>1. CASE m = x
        <5>1. said'[m].server = k.server /\ said'[m].at = now
          BY <3>3, <4>1
        <5>2. Pricing!Elsewhere(s, m, t)'
          BY <1>1, <1>7, <5>1 DEF Pricing!Elsewhere
        <5>3. QED BY <5>2
      <4>2. CASE m # x
        <5>1. said'[m] = said[m] /\ (m \in blurred => m \in blurred')
          BY <3>3, <4>2
        <5>2. Pricing!Elsewhere(s, m, t) => Pricing!Elsewhere(s, m, t)'
          BY <5>1 DEF Pricing!Elsewhere
        <5>3. base.prices[m] = said[m].price \/ m \in blurred \/ Pricing!Clearing(s) \/ Pricing!Elsewhere(s, m, t)
          BY DEF Pricing!Known
        <5>4. QED BY <2>1, <5>1, <5>2, <5>3
      <4>3. QED BY <4>1, <4>2
    <3>5. QED BY <3>4 DEF Pricing!Known
  <2>4. QED BY <2>2, <2>3
<1>8. QED BY <1>6, <1>7

LEMMA PricesUpdated ==
  ASSUME Pricing!PricesInv, NEW r \in Requests, Pricing!UpdateConfig(r)
  PROVE  Pricing!PricesInv'
<1>1. /\ Pricing!TypeOK /\ PriceTypes /\ now \in Nat /\ Pricing!PricesKept /\ buy[r] \in Pricing!Job /\ Pricing!JobType(buy[r]) /\ Pricing!JobInv(buy[r])
      /\ \A x \in Servers : Pricing!MemoryInv(x)
      /\ \A q \in Requests : buy[q] \in Pricing!Job /\ Pricing!JobType(buy[q]) /\ Pricing!JobInv(buy[q]) /\ Sold(buy[q])
  BY PricesFound
<1>2. UNCHANGED <<now, rates, memory, rateMemory, changes, late>> /\ buy[r].at = "write"
  BY DEF Pricing!UpdateConfig
<1>3. PICK k \in Pricing!Job, c \in Pricing!Patches, s \in Servers, base \in Pricing!Configs :
         /\ k = buy[r] /\ c = k.change /\ s = k.server /\ base = k.base /\ k.kind = "patch"
         /\ k.read \in 0..now /\ now - k.read < PriceTTL
  BY <1>1, <1>2 DEF Pricing!JobType, Pricing!Held
<1>4. config' = Pricing!Written(config, base, c)
  BY <1>3 DEF Pricing!UpdateConfig
<1>5. config' \in Pricing!Configs
  BY <1>1, <1>4, PricesWritten DEF PriceTypes
<1>6. PICK j \in Pricing!Job : j = [k EXCEPT !.at = "clear"] /\ j.at = "clear" /\ j.server = s /\ j.kind = "patch" /\ j.change = c
  <2>1. [k EXCEPT !.at = "clear"] \in Pricing!Job
    BY DEF Pricing!Job
  <2>2. QED BY <1>3, <2>1 DEF Pricing!Job
<1>7. Pricing!Goto(r, j)
  BY <1>3, <1>6 DEF Pricing!UpdateConfig
<1>8. buy' \in [Requests -> Pricing!Job] /\ buy'[r] = j /\ \A q \in Requests \ {r} : buy'[q] = buy[q]
  BY <1>1, <1>7, PricesGoes DEF Pricing!TypeOK
<1>9. said' \in [Modules -> [price : PriceTags, server : Servers \cup {None}, at : 0..now]] /\ blurred' \subseteq Modules /\ Pricing!PricesKept'
  <2>1. CASE DOMAIN c.prices = {}
    <3>1. UNCHANGED <<said, blurred>>
      BY <1>3, <2>1 DEF Pricing!UpdateConfig
    <3>2. c.prices = <<>>
      <4>1. \A x : \A v : c.prices = [m \in {x} |-> v] => DOMAIN c.prices # {}
        OBVIOUS
      <4>2. QED BY <2>1, <4>1, PricesPatch
    <3>3. config'.prices = config.prices
      BY <1>4, <3>2 DEF Pricing!Written
    <3>4. QED BY <1>1, <3>1, <3>3 DEF PriceTypes, Pricing!PricesKept
  <2>2. CASE DOMAIN c.prices # {}
    <3>1. PICK x \in Modules, v \in PriceTags : c.prices = [m \in {x} |-> v]
      BY <2>2, PricesPatch
    <3>2. DOMAIN c.prices = {x} /\ c.prices[x] = v
      BY <3>1
    <3>3. /\ said' = [m \in Modules |-> IF m \in {x} THEN [price |-> c.prices[m], server |-> s, at |-> now] ELSE said[m]]
          /\ blurred' = (blurred \cup {m \in Modules : Pricing!Near(r, m)}) \ {x}
      BY <1>3, <3>2 DEF Pricing!UpdateConfig
    <3>4. said \in [Modules -> [price : PriceTags, server : Servers \cup {None}, at : 0..now]] /\ blurred \subseteq Modules
      BY <1>1 DEF PriceTypes
    <3>5. said' \in [Modules -> [price : PriceTags, server : Servers \cup {None}, at : 0..now]] /\ blurred' \subseteq Modules
      <4>1. [price |-> v, server |-> s, at |-> now] \in [price : PriceTags, server : Servers \cup {None}, at : 0..now]
        BY <1>1
      <4>2. \A m \in Modules : said'[m] \in [price : PriceTags, server : Servers \cup {None}, at : 0..now]
        BY <3>2, <3>3, <3>4, <4>1
      <4>3. QED BY <3>3, <3>4, <4>2
    <3>6. ASSUME NEW m \in Modules PROVE config'.prices[m] = said'[m].price \/ m \in blurred'
      <4>1. config'.prices[m] = IF m \in {x} THEN c.prices[m] ELSE base.prices[m]
        <5>1. c.prices # <<>>
          <6>1. DOMAIN <<>> = {}
            OBVIOUS
          <6>2. QED BY <2>2, <6>1
        <5>2. QED BY <1>4, <3>2, <5>1 DEF Pricing!Written
      <4>2. CASE m = x
        BY <3>3, <4>1, <4>2
      <4>3. CASE m # x
        <5>1. config'.prices[m] = base.prices[m] /\ said'[m] = said[m]
          BY <3>3, <4>1, <4>3
        <5>2. CASE Pricing!Near(r, m)
          BY <3>3, <4>3, <5>2
        <5>3. CASE ~Pricing!Near(r, m)
          <6>1. ~k.crossed
            BY <1>3, <5>3 DEF Pricing!Near
          <6>2. Pricing!Known(base, s, k.read)
            BY <1>1, <1>2, <1>3, <6>1 DEF Pricing!JobInv
          <6>3. ~Pricing!Clearing(s)
            BY <1>2, <5>3 DEF Pricing!Near, Pricing!Clearing
          <6>4. ~Pricing!Elsewhere(s, m, k.read)
            <7>1. SUFFICES ASSUME said[m].server # s, said[m].at >= k.read PROVE FALSE
              BY DEF Pricing!Elsewhere
            <7>2. said[m].at \in 0..now
              BY <3>4
            <7>3. now - said[m].at < PriceTTL
              BY <1>1, <1>3, <7>1, <7>2, PriceTTLAssumption
            <7>4. QED BY <1>3, <5>3, <7>1, <7>3 DEF Pricing!Near
          <6>5. base.prices[m] = said[m].price \/ m \in blurred
            BY <6>2, <6>3, <6>4 DEF Pricing!Known
          <6>6. QED BY <3>3, <4>3, <5>1, <6>5
        <5>4. QED BY <5>2, <5>3
      <4>4. QED BY <4>2, <4>3
    <3>7. QED BY <3>5, <3>6 DEF Pricing!PricesKept
  <2>3. QED BY <2>1, <2>2
<1>10. PriceTypes'
  BY <1>1, <1>2, <1>5, <1>9 DEF PriceTypes
<1>11. ASSUME NEW x \in Servers PROVE Pricing!MemoryInv(x)'
  <2>1. PICK t \in 0..now : t = memory[x].at
    BY <1>1 DEF PriceTypes
  <2>2. PICK value : value = memory[x].value
    OBVIOUS
  <2>3. value # None => x \in late \/ Pricing!Known(value, x, t)
    BY <1>1, <2>1, <2>2 DEF Pricing!MemoryInv
  <2>4. value # None => x \in late \/ Pricing!Known(value, x, t)'
    BY <2>3, PricesHeard
  <2>5. QED BY <1>2, <2>1, <2>2, <2>4 DEF Pricing!MemoryInv
<1>12. ASSUME NEW q \in Requests PROVE Pricing!JobType(buy[q])' /\ Pricing!JobInv(buy[q])' /\ Sold(buy[q])'
  <2>1. CASE q = r
    <3>1. Pricing!JobType(j)' /\ Pricing!JobInv(j)' /\ Sold(j)'
      BY <1>3, <1>6 DEF Pricing!JobType, Pricing!JobInv, Sold, Pricing!Held
    <3>2. QED BY <1>8, <2>1, <3>1
  <2>2. CASE q # r
    <3>1. PICK o \in Pricing!Job : o = buy[q] /\ o = buy'[q] /\ Pricing!JobType(o) /\ Pricing!JobInv(o) /\ Sold(o)
      BY <1>1, <1>8, <2>2
    <3>2. Pricing!JobType(o)'
      BY <1>2, <3>1 DEF Pricing!JobType
    <3>3. Sold(o)'
      BY <1>2, <3>1 DEF Sold, Pricing!Applies, Pricing!Active
    <3>4. Pricing!JobInv(o)'
      <4>1. o.at \in {"fill", "write"} => o.server \in Servers /\ o.read \in 0..now
        BY <3>1 DEF Pricing!JobType, Pricing!Held
      <4>2. QED BY <3>1, <4>1, PricesHeard DEF Pricing!JobInv
    <3>5. QED BY <3>1, <3>2, <3>3, <3>4
  <2>3. QED BY <2>1, <2>2
<1>13. QED BY <1>8, <1>9, <1>10, <1>11, <1>12, PricesLeft

\* A server that forgets remembers nothing wrong, and the requests it overtakes
\* are crossed.
LEMMA PricesCleared ==
  ASSUME Pricing!PricesInv, NEW r \in Requests, Pricing!clearPlatformConfigCache(r)
  PROVE  Pricing!PricesInv'
<1>1. /\ Pricing!TypeOK /\ PriceTypes /\ now \in Nat /\ Pricing!PricesKept /\ buy[r] \in Pricing!Job /\ Pricing!JobType(buy[r])
      /\ \A x \in Servers : Pricing!MemoryInv(x)
      /\ \A q \in Requests : buy[q] \in Pricing!Job /\ Pricing!JobType(buy[q]) /\ Pricing!JobInv(buy[q]) /\ Sold(buy[q])
  BY PricesFound
<1>2. UNCHANGED <<Pricing!stay, rateMemory>> /\ buy[r].at = "clear"
  BY DEF Pricing!clearPlatformConfigCache
<1>3. UNCHANGED <<now, config, rates, changes, said, blurred>>
  BY <1>2 DEF Pricing!stay
<1>4. PICK s \in Servers : s = buy[r].server
  BY <1>1, <1>2 DEF Pricing!JobType
<1>5. memory' = [memory EXCEPT ![s] = Pricing!Nothing] /\ late' = late \ {s}
  BY <1>4 DEF Pricing!clearPlatformConfigCache, Pricing!Forget, Pricing!Nowhere
<1>6. PriceTypes'
  <2>1. memory' \in [Servers -> [value : Pricing!Configs \cup {None}, at : 0..now]]
    <3>1. Pricing!Nothing \in [value : Pricing!Configs \cup {None}, at : 0..now]
      BY <1>1 DEF Pricing!Nothing
    <3>2. QED BY <1>1, <1>5, <3>1 DEF PriceTypes
  <2>2. QED BY <1>1, <1>2, <1>3, <1>5, <2>1 DEF PriceTypes
<1>7. PICK j \in Pricing!Job : j = [Pricing!Idle EXCEPT !.kind = "look", !.server = s, !.at = "get"] /\ j.at = "get" /\ j.kind = "look" /\ j.server = s
  <2>1. [Pricing!Idle EXCEPT !.kind = "look", !.server = s, !.at = "get"] \in Pricing!Job
    BY PricesIdle DEF Pricing!Job
  <2>2. QED BY <2>1 DEF Pricing!Idle
<1>8. buy' = [q \in Requests |-> IF q = r THEN j
                                ELSE IF buy[q].server = s /\ buy[q].at \in {"fill", "write"} THEN [buy[q] EXCEPT !.crossed = TRUE]
                                ELSE buy[q]]
  BY <1>4, <1>7 DEF Pricing!clearPlatformConfigCache
<1>9. ASSUME NEW q \in Requests, q # r
      PROVE  /\ buy'[q] \in Pricing!Job /\ buy'[q].at = buy[q].at /\ buy'[q].server = buy[q].server /\ buy'[q].kind = buy[q].kind
             /\ buy'[q].base = buy[q].base /\ buy'[q].read = buy[q].read /\ buy'[q].change = buy[q].change
             /\ buy'[q].rateRead = buy[q].rateRead
             /\ IF buy[q].server = s /\ buy[q].at \in {"fill", "write"} THEN buy'[q].crossed ELSE buy'[q] = buy[q]
  <2>1. PICK o \in Pricing!Job : o = buy[q]
    BY <1>1
  <2>2. CASE o.server = s /\ o.at \in {"fill", "write"}
    <3>1. buy'[q] = [o EXCEPT !.crossed = TRUE]
      BY <1>8, <1>9, <2>1, <2>2
    <3>2. [o EXCEPT !.crossed = TRUE] \in Pricing!Job
      BY DEF Pricing!Job
    <3>3. PICK n \in Pricing!Job : n = [o EXCEPT !.crossed = TRUE]
      BY <3>2
    <3>4. /\ n.at = o.at /\ n.server = o.server /\ n.kind = o.kind /\ n.base = o.base /\ n.read = o.read
          /\ n.change = o.change /\ n.rateRead = o.rateRead /\ n.crossed
      BY <3>3 DEF Pricing!Job
    <3>5. QED BY <2>1, <2>2, <3>1, <3>3, <3>4
  <2>3. CASE ~(o.server = s /\ o.at \in {"fill", "write"})
    <3>1. buy'[q] = o
      BY <1>8, <1>9, <2>1, <2>3
    <3>2. QED BY <2>1, <2>3, <3>1
  <2>4. QED BY <2>2, <2>3
<1>10. buy' \in [Requests -> Pricing!Job] /\ buy'[r] = j
  <2>1. \A q \in Requests : buy'[q] \in Pricing!Job
    BY <1>7, <1>8, <1>9
  <2>2. QED BY <1>8, <2>1
<1>11. ASSUME NEW x \in Servers, x # s, Pricing!Clearing(x) PROVE Pricing!Clearing(x)'
  <2>1. PICK q \in Requests : buy[q].at = "clear" /\ buy[q].server = x
    BY <1>11 DEF Pricing!Clearing
  <2>2. q # r
    BY <1>4, <1>11, <2>1
  <2>3. QED BY <1>9, <2>1, <2>2 DEF Pricing!Clearing
<1>12. ASSUME NEW x \in Servers PROVE Pricing!MemoryInv(x)'
  <2>1. CASE x = s
    BY <1>1, <1>5, <2>1 DEF Pricing!MemoryInv, Pricing!Nothing, PriceTypes
  <2>2. CASE x # s
    <3>1. PICK value, t : value = memory[x].value /\ t = memory[x].at /\ value = memory'[x].value /\ t = memory'[x].at
      BY <1>1, <1>5, <2>2 DEF PriceTypes
    <3>2. value # None => x \in late \/ Pricing!Known(value, x, t)
      BY <1>1, <3>1 DEF Pricing!MemoryInv
    <3>3. Pricing!Known(value, x, t) => Pricing!Known(value, x, t)'
      BY <1>3, <1>11, <2>2, PricesKnown
    <3>4. x \in late => x \in late'
      BY <1>5, <2>2
    <3>5. QED BY <3>1, <3>2, <3>3, <3>4 DEF Pricing!MemoryInv
  <2>3. QED BY <2>1, <2>2
<1>13. ASSUME NEW q \in Requests PROVE Pricing!JobType(buy[q])' /\ Pricing!JobInv(buy[q])' /\ Sold(buy[q])'
  <2>1. CASE q = r
    <3>1. Pricing!JobType(j)' /\ Pricing!JobInv(j)' /\ Sold(j)'
      BY <1>7 DEF Pricing!JobType, Pricing!JobInv, Sold, Pricing!Held
    <3>2. QED BY <1>10, <2>1, <3>1
  <2>2. CASE q # r
    <3>1. PICK o \in Pricing!Job, n \in Pricing!Job :
             /\ o = buy[q] /\ n = buy'[q] /\ Pricing!JobType(o) /\ Pricing!JobInv(o) /\ Sold(o)
             /\ n.at = o.at /\ n.server = o.server /\ n.kind = o.kind /\ n.base = o.base /\ n.read = o.read
             /\ n.change = o.change /\ n.rateRead = o.rateRead
             /\ IF o.server = s /\ o.at \in {"fill", "write"} THEN n.crossed ELSE n = o
      BY <1>1, <1>9, <2>2
    <3>2. Pricing!JobType(n)'
      BY <1>3, <3>1 DEF Pricing!JobType
    <3>3. Sold(n)'
      <4>1. CASE n = o
        BY <1>3, <3>1, <4>1 DEF Sold, Pricing!Applies, Pricing!Active
      <4>2. CASE n # o
        BY <3>1, <4>2 DEF Sold
      <4>3. QED BY <4>1, <4>2
    <3>4. Pricing!JobInv(n)'
      <4>1. CASE o.server = s /\ o.at \in {"fill", "write"}
        BY <3>1, <4>1 DEF Pricing!JobInv
      <4>2. CASE o.server # s /\ o.at \in {"fill", "write"}
        <5>1. o.server \in Servers
          BY <3>1, <4>2 DEF Pricing!JobType
        <5>2. Pricing!Known(o.base, o.server, o.read) => Pricing!Known(o.base, o.server, o.read)'
          BY <1>3, <1>11, <4>2, <5>1, PricesKnown
        <5>3. n = o
          BY <3>1, <4>2
        <5>4. QED BY <3>1, <5>2, <5>3 DEF Pricing!JobInv
      <4>3. CASE o.at \notin {"fill", "write"}
        BY <3>1, <4>3 DEF Pricing!JobInv
      <4>4. QED BY <4>1, <4>2, <4>3
    <3>5. QED BY <3>1, <3>2, <3>3, <3>4
  <2>3. QED BY <2>1, <2>2
<1>14. Pricing!PricesKept'
  BY <1>1, <1>3 DEF Pricing!PricesKept
<1>15. QED BY <1>6, <1>10, <1>12, <1>13, <1>14, PricesLeft

-----------------------------------------------------------------------------
LEMMA PricesRates ==
  ASSUME Pricing!PricesInv, NEW s \in Servers, NEW x \in [auto : RatesSeen \cup {0}, manual : RatesSeen \cup {0}], Pricing!SetRate(s, x)
  PROVE  Pricing!PricesInv'
<1>1. /\ Pricing!TypeOK /\ PriceTypes /\ now \in Nat /\ Pricing!PricesKept /\ \A t \in Servers : Pricing!MemoryInv(t)
      /\ \A q \in Requests : buy[q] \in Pricing!Job /\ Pricing!JobType(buy[q]) /\ Pricing!JobInv(buy[q]) /\ Sold(buy[q])
  BY PricesFound
<1>2. UNCHANGED <<now, config, memory, buy, said, late, blurred>>
  BY DEF Pricing!SetRate
<1>3. PriceTypes'
  <2>1. Pricing!Nothing \in [value : Nat \cup {None}, at : 0..now]
    BY <1>1 DEF Pricing!Nothing
  <2>2. rateMemory' \in [Servers -> [value : Nat \cup {None}, at : 0..now]]
    BY <1>1, <2>1 DEF Pricing!SetRate, Pricing!Nowhere, PriceTypes
  <2>3. changes' \in Nat
    BY <1>1 DEF Pricing!SetRate, PriceTypes
  <2>4. QED BY <1>1, <1>2, <2>2, <2>3 DEF PriceTypes, Pricing!SetRate
<1>4. \A base, t : \A s2 : Pricing!Known(base, s2, t)' <=> Pricing!Known(base, s2, t)
  BY <1>2 DEF Pricing!Known, Pricing!Clearing, Pricing!Elsewhere
<1>5. \A t \in Servers : Pricing!MemoryInv(t)'
  BY <1>1, <1>2, <1>4 DEF Pricing!MemoryInv
<1>6. \A q \in Requests : Pricing!JobType(buy[q])' /\ Pricing!JobInv(buy[q])' /\ Sold(buy[q])'
  <2>1. \A q \in Requests : Pricing!JobType(buy[q])'
    BY <1>1, <1>2 DEF Pricing!JobType
  <2>2. \A q \in Requests : Pricing!JobInv(buy[q])'
    BY <1>1, <1>2, <1>4 DEF Pricing!JobInv
  <2>3. \A q \in Requests : Sold(buy[q])'
    BY <1>1, <1>2 DEF Sold, Pricing!Applies, Pricing!Active
  <2>4. QED BY <2>1, <2>2, <2>3
<1>7. buy' \in [Requests -> Pricing!Job] /\ Pricing!PricesKept'
  BY <1>1, <1>2 DEF Pricing!TypeOK, Pricing!PricesKept
<1>8. QED BY <1>3, <1>5, <1>6, <1>7, PricesLeft

LEMMA PricesTick ==
  ASSUME Pricing!PricesInv, Pricing!Tick
  PROVE  Pricing!PricesInv'
<1>1. /\ Pricing!TypeOK /\ PriceTypes /\ now \in Nat /\ Pricing!PricesKept /\ \A t \in Servers : Pricing!MemoryInv(t)
  BY PricesFound
<1>2. /\ now' = now + 1 /\ buy' = [r \in Requests |-> Pricing!Idle]
      /\ UNCHANGED <<config, rates, memory, rateMemory, changes, said, late, blurred>>
      /\ \A r \in Requests : buy[r].at \in {"idle", "sold"}
  BY DEF Pricing!Tick, Pricing!Busy
<1>3. PriceTypes'
  <2>1. 0..now \subseteq 0..now'
    BY <1>1, <1>2
  <2>2. /\ memory \in [Servers -> [value : Pricing!Configs \cup {None}, at : 0..now']]
        /\ rateMemory \in [Servers -> [value : Nat \cup {None}, at : 0..now']]
        /\ said \in [Modules -> [price : PriceTags, server : Servers \cup {None}, at : 0..now']]
    <3>1. [value : Pricing!Configs \cup {None}, at : 0..now] \subseteq [value : Pricing!Configs \cup {None}, at : 0..now']
      BY <2>1
    <3>2. [value : Nat \cup {None}, at : 0..now] \subseteq [value : Nat \cup {None}, at : 0..now']
      BY <2>1
    <3>3. [price : PriceTags, server : Servers \cup {None}, at : 0..now] \subseteq [price : PriceTags, server : Servers \cup {None}, at : 0..now']
      BY <2>1
    <3>4. QED BY <1>1, <3>1, <3>2, <3>3 DEF PriceTypes
  <2>3. now' \in Nat
    BY <1>1, <1>2
  <2>4. QED BY <1>1, <1>2, <2>2, <2>3 DEF PriceTypes
<1>4. ASSUME NEW s \in Servers PROVE Pricing!MemoryInv(s)'
  <2>1. PICK value, t : value = memory[s].value /\ t = memory[s].at
    OBVIOUS
  <2>2. value # None => s \in late \/ Pricing!Known(value, s, t)
    BY <1>1, <2>1 DEF Pricing!MemoryInv
  <2>3. ~Pricing!Clearing(s)
    BY <1>2 DEF Pricing!Clearing
  <2>4. Pricing!Known(value, s, t) => Pricing!Known(value, s, t)'
    BY <1>2, <2>3, PricesKnown
  <2>5. QED BY <1>2, <2>1, <2>2, <2>4 DEF Pricing!MemoryInv
<1>5. buy' \in [Requests -> Pricing!Job] /\ \A q \in Requests : buy'[q].at = "idle"
  BY <1>2, PricesIdle
<1>6. \A q \in Requests : Pricing!JobType(buy[q])' /\ Pricing!JobInv(buy[q])' /\ Sold(buy[q])'
  BY <1>5 DEF Pricing!JobType, Pricing!JobInv, Sold, Pricing!Held
<1>7. Pricing!PricesKept'
  BY <1>1, <1>2 DEF Pricing!PricesKept
<1>8. QED BY <1>3, <1>4, <1>5, <1>6, <1>7, PricesLeft

-----------------------------------------------------------------------------
LEMMA PricesStep ==
  ASSUME Pricing!PricesInv, [Pricing!Next]_prices
  PROVE  Pricing!PricesInv'
<1>1. CASE UNCHANGED prices
  <2>1. UNCHANGED <<now, config, rates, memory, rateMemory, buy, changes, said, late, blurred>>
    BY <1>1 DEF prices
  <2>2. Pricing!TypeOK' /\ Pricing!PricesKept'
    BY <2>1 DEF Pricing!PricesInv, Pricing!TypeOK, Pricing!PricesKept
  <2>3. Pricing!OrderIsFair'
    BY <2>1 DEF Pricing!PricesInv, Pricing!OrderIsFair, Pricing!Applies, Pricing!Active
  <2>4. \A base, t : \A s : Pricing!Known(base, s, t)' <=> Pricing!Known(base, s, t)
    BY <2>1 DEF Pricing!Known, Pricing!Clearing, Pricing!Elsewhere
  <2>5. \A s \in Servers : Pricing!MemoryInv(s)'
    BY <2>1, <2>4 DEF Pricing!PricesInv, Pricing!MemoryInv
  <2>6. \A r \in Requests : Pricing!JobType(buy[r])' /\ Pricing!JobInv(buy[r])'
    BY <2>1, <2>4 DEF Pricing!PricesInv, Pricing!JobType, Pricing!JobInv
  <2>7. QED BY <2>2, <2>3, <2>5, <2>6 DEF Pricing!PricesInv
<1>2. CASE Pricing!Next
  <2>1. changes \in Nat /\ rates \in [auto : RatesSeen \cup {0}, manual : RatesSeen \cup {0}]
    BY PricesFound DEF PriceTypes
  <2>2. ASSUME NEW r \in Requests, NEW s \in Servers, Pricing!Look(r, s) PROVE Pricing!PricesInv'
    BY <2>1, <2>2, PricesStart DEF Pricing!Look
  <2>3. ASSUME NEW r \in Requests, NEW s \in Servers, NEW b \in Buys, Pricing!Order(r, s, b) PROVE Pricing!PricesInv'
    BY <2>1, <2>3, PricesStart DEF Pricing!Order
  <2>4. ASSUME NEW r \in Requests, NEW s \in Servers, NEW c \in Pricing!PriceChanges \cup Pricing!ListChanges \cup Pricing!OldChanges,
               Pricing!PatchPlatformConfig(r, s, c)
        PROVE  Pricing!PricesInv'
    <3>1. changes' \in Nat /\ c \in Pricing!Patches
      BY <2>1, <2>4 DEF Pricing!PatchPlatformConfig, Pricing!Patches
    <3>2. QED BY <2>4, <3>1, PricesStart DEF Pricing!PatchPlatformConfig
  <2>5. ASSUME NEW r \in Requests, Pricing!getPlatformConfig(r) \/ Pricing!FillConfig(r) \/ Pricing!getRates(r) \/ Pricing!FillRates(r) \/ Pricing!CreateOrder(r)
        PROVE  Pricing!PricesInv'
    BY <2>5, PricesGot, PricesFilled, PricesRated, PricesRateFilled, PricesSold
  <2>6. ASSUME NEW r \in Requests, Pricing!UpdateConfig(r) \/ Pricing!clearPlatformConfigCache(r) PROVE Pricing!PricesInv'
    BY <2>6, PricesUpdated, PricesCleared
  <2>7. ASSUME NEW s \in Servers, NEW v \in RatesSeen \cup {0}, Pricing!PatchRate(s, v) PROVE Pricing!PricesInv'
    <3>1. [rates EXCEPT !.manual = v] \in [auto : RatesSeen \cup {0}, manual : RatesSeen \cup {0}]
      BY <2>1
    <3>2. QED BY <2>7, <3>1, PricesRates DEF Pricing!PatchRate
  <2>8. ASSUME NEW s \in Servers, NEW v \in RatesSeen \cup {0}, Pricing!refreshRatesFromInternet(s, v) PROVE Pricing!PricesInv'
    <3>1. [rates EXCEPT !.auto = v] \in [auto : RatesSeen \cup {0}, manual : RatesSeen \cup {0}]
      BY <2>1
    <3>2. QED BY <2>8, <3>1, PricesRates DEF Pricing!refreshRatesFromInternet
  <2>9. ASSUME Pricing!Tick PROVE Pricing!PricesInv'
    BY <2>9, PricesTick
  <2>10. QED BY <1>2, <2>2, <2>3, <2>4, <2>5, <2>6, <2>7, <2>8, <2>9 DEF Pricing!Next
<1>3. QED BY <1>1, <1>2

LEMMA PricesInit ==
  ASSUME Pricing!Init
  PROVE  Pricing!PricesInv
<1>1. Pricing!Min(PriceTags) \in PriceTags
  <2>1. \E x \in PriceTags : \A y \in PriceTags : x <= y
    BY TagsAssumption, Least
  <2>2. QED BY <2>1 DEF Pricing!Min
<1>2. Pricing!CheapestFirst \in [Modules -> PriceTags]
  BY <1>1 DEF Pricing!CheapestFirst
<1>3. /\ now = 0 /\ config = [prices |-> Pricing!CheapestFirst, rules |-> {}]
      /\ rates = [auto |-> 0, manual |-> 0]
      /\ memory = [s \in Servers |-> Pricing!Nothing] /\ rateMemory = [s \in Servers |-> Pricing!Nothing]
      /\ buy = [r \in Requests |-> Pricing!Idle] /\ changes = 0
      /\ said = [m \in Modules |-> [price |-> Pricing!CheapestFirst[m], server |-> None, at |-> 0]]
      /\ late = {} /\ blurred = {}
  BY DEF Pricing!Init
<1>4. buy \in [Requests -> Pricing!Job] /\ \A q \in Requests : buy[q].at = "idle"
  BY <1>3, PricesIdle
<1>5. Pricing!TypeOK
  <2>1. config \in Pricing!Configs
    BY <1>2, <1>3 DEF Pricing!Configs
  <2>2. Pricing!Nothing \in [value : Pricing!Configs \cup {None}, at : 0..0] /\ Pricing!Nothing \in [value : Nat \cup {None}, at : 0..0]
    BY DEF Pricing!Nothing
  <2>3. said \in [Modules -> [price : PriceTags, server : Servers \cup {None}, at : 0..0]]
    BY <1>2, <1>3
  <2>4. QED BY <1>3, <1>4, <2>1, <2>2, <2>3 DEF Pricing!TypeOK
<1>6. Pricing!PricesKept
  BY <1>3 DEF Pricing!PricesKept
<1>7. \A s \in Servers : Pricing!MemoryInv(s)
  BY <1>3 DEF Pricing!MemoryInv, Pricing!Nothing
<1>8. Pricing!OrderIsFair
  BY <1>4 DEF Pricing!OrderIsFair
<1>9. \A r \in Requests : Pricing!JobType(buy[r]) /\ Pricing!JobInv(buy[r])
  BY <1>4 DEF Pricing!JobType, Pricing!JobInv, Pricing!Held
<1>10. QED BY <1>5, <1>6, <1>7, <1>8, <1>9 DEF Pricing!PricesInv

LEMMA PricesPromise ==
  ASSUME Pricing!PricesInv
  PROVE  Pricing!PricesKept /\ Pricing!OrderIsFair
BY DEF Pricing!PricesInv

-----------------------------------------------------------------------------
(* What the components promise, side by side.                              *)

\* A behaviour of them all is one of each.
LEMMA SideBySide ==
  ASSUME [AccountsNext]_<<vars, sessions, prices, plans>>
  PROVE  [Session!Next]_sessions /\ [Pricing!Next]_prices /\ [Service!Next]_plans
BY DEF AccountsNext, FirmStep, SessionStep, PriceStep, ServiceStep

\* A disabled company's pages stay closed apart from the panel's time and the
\* requests already past the door; after a reset of the password no session of
\* before it goes on, and a token renews, and a link resets, once: rotation and
\* reset are each one conditional statement.
THEOREM SessionsEndHolds == AccountsSpec => []SessionsEnd
<1>1. AccountsInit => Session!SessionsInv
  BY SessionsInit DEF AccountsInit
<1>2. Session!SessionsInv /\ [AccountsNext]_<<vars, sessions, prices, plans>> => Session!SessionsInv'
  BY SideBySide, SessionsStep
<1>3. Session!SessionsInv => SessionsEnd
  BY SessionsPromise DEF SessionsEnd
<1>4. QED BY <1>1, <1>2, <1>3, PTL DEF AccountsSpec

\* Whatever servers, requests, prices and discounts there are: a price stays
\* what it was made until it is changed again, except where changes overlap,
\* follow a late read or reach another server within TTL; and an order is
\* charged the least its discounts allow, by settings that are not older than
\* their time in memory.
THEOREM PricesHoldHolds == AccountsSpec => []PricesHold
<1>1. AccountsInit => Pricing!PricesInv
  BY PricesInit DEF AccountsInit
<1>2. Pricing!PricesInv /\ [AccountsNext]_<<vars, sessions, prices, plans>> => Pricing!PricesInv'
  BY SideBySide, PricesStep
<1>3. Pricing!PricesInv => PricesHold
  BY PricesPromise DEF PricesHold
<1>4. QED BY <1>1, <1>2, <1>3, PTL DEF AccountsSpec

\* Whatever the super admin changes and however the kept answers and the kept
\* default grace overlap with it: a service answers as the company was entitled
\* to it less than TTL before, or a changed default grace takes its own time
\* more; and a service switched on again runs until it is dated anew, unless
\* two changes of the subscriptions crossed.
THEOREM ServicesFollowPlanHolds == AccountsSpec => []ServicesFollowPlan
<1>1. AccountsInit => Service!AccessInv
  BY AccessInit DEF AccountsInit
<1>2. Service!AccessInv /\ [AccountsNext]_<<vars, sessions, prices, plans>> => Service!AccessInv'
  BY SideBySide, AccessStep
<1>3. Service!AccessInv => ServicesFollowPlan
  BY AccessPromise DEF ServicesFollowPlan
<1>4. QED BY <1>1, <1>2, <1>3, PTL DEF AccountsSpec
=============================================================================
