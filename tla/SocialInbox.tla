----------------------------- MODULE SocialInbox -----------------------------
(***************************************************************************)
(* What a company has at Meta and TikTok: the inbox of its social          *)
(* accounts, the answers to comments, the boosted posts, the accounts with *)
(* their monthly report, and the WhatsApp templates.  They run side by     *)
(* side and share no state.                                                *)
(***************************************************************************)
EXTENDS Integers, Sequences

CONSTANTS Requests

CONSTANTS Threads, Private, Shown, Questions, MaxClock
VARIABLES clock, today, account, meta, rows, session, talkJob, shown, passed, spoke, overtaken, talkedOver, answered, again
ASSUME TalkAssumption == Private \subseteq Threads /\ Questions \in Nat \ {0} /\ Shown \in Nat
Talk == INSTANCE Inbox WITH job <- talkJob, twice <- again

CONSTANTS Comments, AuthorOf, Rules, Matches, MaxEdits
VARIABLES rule, hits, count, reply, got, edits
Rule == INSTANCE CommentRules WITH job <- reply

CONSTANTS Ads, Budgets, MaxEvents
VARIABLES token, ad, campaign, boost, lost, mixed, doubtful, events
Boosts == INSTANCE Ads WITH row <- ad, meta <- campaign, job <- boost

CONSTANTS Addresses, MaxTokens, MaxMonths
VARIABLES tiktok, valid, issued, state, renewal, crossed, report, month, mails, back
ASSUME MonthsAssumption == MaxMonths \in Nat \ {0}
Links == INSTANCE SocialAccounts WITH account <- tiktok, job <- renewal

CONSTANTS Numbers, Valid, NoNumber, Purposes, Languages, Own, Ids, NoId, Carousels, MaxReviews
VARIABLES whatsapp, doubt, submitted, templates, question, approved, moved, reviews
\* Every purpose has its template; the merchant's own have names.
ASSUME PurposesAssumption == Purposes \in Seq({Purposes[k] : k \in DOMAIN Purposes}) /\ Purposes # <<>>
ASSUME OwnAssumption == <<>> \notin Own
Texts == INSTANCE Templates WITH Accounts <- Numbers, NoAccount <- NoNumber, settings <- whatsapp, meta <- submitted,
                                 rows <- templates, job <- question, events <- reviews, MaxEvents <- MaxReviews

talk   == <<clock, today, account, meta, rows, session, talkJob, shown, passed, spoke, overtaken, talkedOver, answered, again>>
rules == <<rule, hits, count, reply, got, edits>>
boosts == <<token, ad, campaign, boost, lost, mixed, doubtful, events>>
links  == <<tiktok, valid, issued, state, renewal, crossed, report, month, mails, back>>
texts  == <<whatsapp, doubt, submitted, templates, question, approved, moved, reviews>>

InboxInit == Talk!Init /\ Rule!Init /\ Boosts!Init /\ Links!Init /\ Texts!Init
TalkStep  == Talk!Next   /\ UNCHANGED <<rules, boosts, links, texts>>
RuleStep  == Rule!Next   /\ UNCHANGED <<talk, boosts, links, texts>>
BoostStep == Boosts!Next /\ UNCHANGED <<talk, rules, links, texts>>
LinkStep  == Links!Next  /\ UNCHANGED <<talk, rules, boosts, texts>>
TextStep  == Texts!Next  /\ UNCHANGED <<talk, rules, boosts, links>>
InboxNext == TalkStep \/ RuleStep \/ BoostStep \/ LinkStep \/ TextStep
InboxSpec == InboxInit /\ [][InboxNext]_<<talk, rules, boosts, links, texts>>

\* What the inbox promises.
FlowAnswersOnce == Talk!FlowAnswersOnce
QuietAfterStaff == Talk!QuietAfterStaff
ReadWasShown    == Talk!ReadWasShown
\* What the rules of comments promise.
OneMessagePerRule == Rule!OneMessagePerRule
\* What Meta runs the panel knows of, and the panel tells what Meta does.
AdsFollowMeta == Boosts!RunningIsKnown /\ Boosts!AdTellsMeta
\* An account keeps a token that works, and a month is reported once.
AccountsStayUsable == Links!TokensFollow /\ Links!ReportOnce
\* The panel says of WhatsApp what Meta says: of the account, and of the
\* templates messages are sent by.
WhatsappFollowsMeta == Texts!ConnectedIsVerified /\ Texts!TemplatesFollowMeta
=============================================================================
