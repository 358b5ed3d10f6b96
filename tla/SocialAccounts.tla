--------------------------- MODULE SocialAccounts ---------------------------
(***************************************************************************)
(* The accounts a company publishes from, and its monthly report.  A       *)
(* TikTok account's token ends after a day: whoever needs it renews it     *)
(* with a second token that works once, and stores what he got.  The       *)
(* report of last month is claimed by a statement, then mailed to each     *)
(* address the list held when the run began.                               *)
(***************************************************************************)
EXTENDS Integers

CONSTANTS
  Requests, Addresses,
  MaxTokens, MaxMonths  \* bounds

VARIABLES
  account,  \* social_accounts: a TikTok account
  valid,    \* the renewing token TikTok accepts
  issued,   \* tokens TikTok has made
  state,    \* a link to connect: none, open or expired
  job,
  crossed,  \* renewals overlapped, or one was cut off, since the account was connected
  report,   \* social_report_settings
  month,    \* the month that is over
  mails,    \* copies each address got of each month's report
  back      \* a run begun in an earlier month claimed after one of a later month

vars == <<account, valid, issued, state, job, crossed, report, month, mails, back>>

Idle == [at |-> "idle"]
NoAccount == [status |-> "DISCONNECTED", refresh |-> 0, ending |-> FALSE]
NoReport == [on |-> FALSE, list |-> {}, sent |-> 0]

Init ==
  /\ account = NoAccount /\ valid = 0 /\ issued = 0 /\ state = "none"
  /\ job = [q \in Requests |-> Idle] /\ crossed = FALSE
  /\ report = NoReport /\ month = 1
  /\ mails = [to \in Addresses |-> [m \in 1..MaxMonths |-> 0]] /\ back = FALSE

accounts == <<account, valid, issued, state, crossed>>
reports == <<report, month, mails, back>>
Go(q, j) == job' = [job EXCEPT ![q] = j]
Renewing == {q \in Requests : job[q].at \in {"renew", "store"}}

-----------------------------------------------------------------------------
(* Connecting and disconnecting.                                           *)

tiktokConnectUrl == state' = "open" /\ UNCHANGED <<account, valid, issued, job, crossed, reports>>
LinkExpires == state = "open" /\ state' = "expired" /\ UNCHANGED <<account, valid, issued, job, crossed, reports>>
\* TikTok sends the merchant back; the same page may be loaded again, but a
\* code works once.
tiktokCallback ==
  /\ state = "open" /\ issued < MaxTokens
  /\ issued' = issued + 1 /\ valid' = issued + 1
  /\ account' = [status |-> "ACTIVE", refresh |-> issued + 1, ending |-> FALSE]
  /\ state' = "none" /\ crossed' = (Renewing # {}) /\ UNCHANGED <<job, reports>>
disconnect ==
  /\ account.status # "DISCONNECTED" /\ account' = NoAccount
  /\ crossed' = (crossed \/ Renewing # {})
  /\ UNCHANGED <<valid, issued, state, job, reports>>
Day ==
  /\ ~account.ending /\ account.status = "ACTIVE" /\ account' = [account EXCEPT !.ending = TRUE]
  /\ UNCHANGED <<valid, issued, state, job, crossed, reports>>

-----------------------------------------------------------------------------
(* Whoever publishes, or asks what the account may do, needs the token.     *)

accessToken(q) ==
  /\ job[q] = Idle /\ account.status = "ACTIVE" /\ account.ending
  /\ Go(q, [at |-> "renew", t |-> account.refresh])
  /\ crossed' = (crossed \/ Renewing # {}) /\ UNCHANGED <<account, valid, issued, state, reports>>
\* TikTok takes a renewing token once.  A token it refuses marks the account.
refresh(q) ==
  /\ job[q].at = "renew"
  /\ \/ /\ job[q].t = valid /\ issued < MaxTokens
        /\ issued' = issued + 1 /\ valid' = issued + 1 /\ Go(q, [at |-> "store", t |-> issued + 1])
        /\ UNCHANGED account
     \/ /\ job[q].t # valid /\ account' = [account EXCEPT !.status = "NEEDS_RECONNECT"]
        /\ Go(q, Idle) /\ UNCHANGED <<valid, issued>>
     \/ Go(q, Idle) /\ UNCHANGED <<account, valid, issued>>
  /\ UNCHANGED <<state, crossed, reports>>
HalfStored(t) == [account EXCEPT !.ending = FALSE]   \* mutant: without the renewing token
Stored(t) == [account EXCEPT !.refresh = t, !.ending = FALSE]
updateTokens(q) ==
  /\ job[q].at = "store" /\ account' = Stored(job[q].t) /\ Go(q, Idle)
  /\ UNCHANGED <<valid, issued, state, crossed, reports>>

-----------------------------------------------------------------------------
(* The monthly report, once an hour on each server.                        *)

MonthEnds == month < MaxMonths /\ month' = month + 1 /\ UNCHANGED <<accounts, job, report, mails, back>>
updateSettings ==
  /\ \E on \in BOOLEAN, l \in SUBSET Addresses : report' = [report EXCEPT !.on = on, !.list = l]
  /\ UNCHANGED <<accounts, job, month, mails, back>>
dueMonthly(q) ==
  /\ job[q] = Idle /\ report.on /\ report.list # {} /\ report.sent # month
  /\ Go(q, [at |-> "claim", m |-> month, list |-> report.list]) /\ UNCHANGED <<accounts, reports>>
Unclaimed(m) == report.sent # m
claimMonthly(q) ==
  /\ job[q].at = "claim"
  /\ IF Unclaimed(job[q].m)
     THEN report' = [report EXCEPT !.sent = job[q].m] /\ Go(q, [job[q] EXCEPT !.at = "mail"])
     ELSE UNCHANGED report /\ Go(q, Idle)
  /\ back' = (back \/ report.sent > job[q].m) /\ UNCHANGED <<accounts, month, mails>>
sendMonthly(q) ==
  /\ job[q].at = "mail"
  /\ IF job[q].list = {} THEN Go(q, Idle) /\ UNCHANGED mails
     ELSE \E to \in job[q].list :
            /\ Go(q, [job[q] EXCEPT !.list = @ \ {to}])
            /\ mails' \in {mails, [mails EXCEPT ![to][job[q].m] = @ + 1]}
  /\ UNCHANGED <<accounts, report, month, back>>

Restart ==
  /\ job' = [q \in Requests |-> Idle] /\ crossed' = (crossed \/ Renewing # {})
  /\ UNCHANGED <<account, valid, issued, state, reports>>

AccountsNext ==
  \/ tiktokConnectUrl \/ LinkExpires \/ tiktokCallback \/ disconnect \/ Day \/ Restart
  \/ \E q \in Requests : accessToken(q) \/ refresh(q) \/ updateTokens(q)
ReportsNext ==
  \/ MonthEnds \/ updateSettings \/ Restart
  \/ \E q \in Requests : dueMonthly(q) \/ claimMonthly(q) \/ sendMonthly(q)
Next == AccountsNext \/ ReportsNext
Spec == Init /\ [][Next]_vars

-----------------------------------------------------------------------------
\* A connected account holds the token TikTok accepts next, and one that was
\* disconnected holds none, unless renewals overlapped with each other or with
\* that, or one was cut off between TikTok's answer and its storing.
TokensFollow ==
  ~crossed /\ Renewing = {} =>
    /\ account.status = "ACTIVE" => account.refresh = valid
    /\ account.status = "DISCONNECTED" => account.refresh = 0

\* An address gets a month's report once, however many servers run, unless a
\* run begun before the month's end claims after one begun after it: the row
\* holds the last period claimed, not the latest.
ReportOnce == ~back => \A to \in Addresses, m \in 1..MaxMonths : mails[to][m] <= 1

-----------------------------------------------------------------------------
(* Why: as long as renewals do not overlap, the one under way holds the    *)
(* token TikTok accepts; and a month is mailed by the run that claimed it, *)
(* each claim being of a later month than the one before.                  *)

Renewals == [at : {"renew", "store"}, t : Nat]
Runs     == [at : {"claim", "mail"}, m : 1..MaxMonths, list : SUBSET Addresses]
TypeOK ==
  /\ account \in [status : {"ACTIVE", "NEEDS_RECONNECT", "DISCONNECTED"}, refresh : Nat, ending : BOOLEAN]
  /\ valid \in Nat /\ issued \in Nat /\ state \in {"none", "open", "expired"} /\ crossed \in BOOLEAN
  /\ job \in [Requests -> {Idle} \cup Renewals \cup Runs]
  /\ report \in [on : BOOLEAN, list : SUBSET Addresses, sent : 0..MaxMonths]
  /\ month \in 1..MaxMonths /\ mails \in [Addresses -> [1..MaxMonths -> Nat]] /\ back \in BOOLEAN

TokenInv ==
  /\ Renewing = {} => /\ account.status = "ACTIVE" => account.refresh = valid
                      /\ account.status = "DISCONNECTED" => account.refresh = 0
  /\ \A q \in Renewing :
       /\ Renewing = {q} /\ account.status = "ACTIVE" /\ job[q].t = valid
       /\ job[q].at = "renew" => account.refresh = valid
Mailing == {q \in Requests : job[q].at = "mail"}
MailInv ==
  /\ \A to \in Addresses, m \in 1..MaxMonths : mails[to][m] <= 1 /\ (mails[to][m] = 1 => m <= report.sent)
  /\ \A q \in Mailing :
       /\ job[q].m <= report.sent
       /\ \A to \in job[q].list : mails[to][job[q].m] = 0
       /\ \A p \in Mailing \ {q} : job[p].m # job[q].m
LinksInv == TypeOK /\ (~crossed => TokenInv) /\ (~back => MailInv)
=============================================================================
