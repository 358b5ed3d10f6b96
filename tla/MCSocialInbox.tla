---------------------------- MODULE MCSocialInbox ----------------------------
(* A behaviour is one of the components' and the others stand still, so    *)
(* that their states add up.  Customers write to two threads, or one       *)
(* customer has a message more, one request runs at a time and the account *)
(* stays as it is.  WhatsApp's account is one of two that work, or one of  *)
(* them Meta refuses.                                                      *)
EXTENDS SocialInbox, FiniteSets, TLC

CONSTANTS one, two, wrong, LessClock
OneAuthor   == [c \in Comments |-> "someone"]
EachComment == Rules \X Comments
MCPurposes  == <<"confirmation">>
MCOwn       == {<<"offer">>}
MCCarousels == {<<>>, <<{"URL"}>>, <<{"URL"}, {"URL"}>>}

VARIABLE part
MCInit == part \in {"talk", "alone", "rules", "boosts", "links", "report", "account", "templates"} /\ InboxInit
MCNext == UNCHANGED part /\
  \/ part = "talk"  /\ TalkStep /\ clock' <= LessClock
  \/ /\ part = "alone" /\ TalkStep
     /\ Cardinality({q \in Requests : talkJob'[q] # Talk!Idle}) <= 1 /\ account' = account /\ \A m \in meta' : m.t \in Private
  \/ part = "rules"   /\ RuleStep
  \/ part = "boosts" /\ BoostStep
  \/ part = "links"  /\ LinkStep /\ UNCHANGED <<report, month, mails, back>>
  \/ part = "report" /\ LinkStep /\ UNCHANGED <<tiktok, valid, issued, state, crossed>>
  \/ part = "account" /\ TextStep /\ \A q \in Requests : question'[q].what \in {"none", "create"}
  \/ /\ part = "templates" /\ TextStep
     /\ whatsapp'.account # wrong /\ ~doubt' /\ reviews' < MaxReviews /\ \A q \in Requests : question'[q].name \notin Own
MCSpec == MCInit /\ [][MCNext]_<<part, talk, rules, boosts, links, texts>>

\* Comments, ads, accounts and ids have the same two names, so that one
\* permutation serves whichever component moves.
Sym == Permutations(Requests) \cup Permutations(Ads)
=============================================================================
