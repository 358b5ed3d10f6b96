---------------------------- MODULE CommentRules ----------------------------
(***************************************************************************)
(* A comment with one of a rule's words gets its author a private message, *)
(* and a public answer when the rule has one: the first rule that matches, *)
(* once per author.  Each message is claimed by a row before it is sent,   *)
(* so that deliveries at once, again or after a stop do not repeat it.     *)
(***************************************************************************)
EXTENDS Integers, FiniteSets

CONSTANTS
  Comments, AuthorOf,  \* the comments and who wrote each
  Rules,               \* naturals: in the order they were made
  Matches,             \* the pairs of a rule and a comment with a word of it
  Requests, MaxEdits

VARIABLES
  rule,    \* social_comment_rules: none, on, off or deleted
  hits,    \* social_comment_rule_hits
  count,   \* sentCount of each rule
  job,
  got,     \* what was sent: the rule, the comment, how many times
  edits    \* changes of the merchant

vars == <<rule, hits, count, job, got, edits>>
Hit(r, c) == [rule |-> r, comment |-> c, author |-> AuthorOf[c], ok |-> TRUE]
Idle == [at |-> "idle"]

Init ==
  /\ rule = [r \in Rules |-> "none"] /\ hits = {} /\ count = [r \in Rules |-> 0]
  /\ job = [q \in Requests |-> Idle] /\ got = [r \in Rules |-> [c \in Comments |-> 0]] /\ edits = 0

-----------------------------------------------------------------------------
(* The merchant's rules.                                                   *)

Edits(r, s) == edits < MaxEdits /\ edits' = edits + 1 /\ rule' = [rule EXCEPT ![r] = s]
create(r) ==
  /\ rule[r] = "none" /\ \A s \in Rules : s < r => rule[s] # "none"
  /\ Edits(r, "on") /\ UNCHANGED <<hits, count, job, got>>
update(r) ==
  /\ rule[r] \in {"on", "off"} /\ Edits(r, IF rule[r] = "on" THEN "off" ELSE "on")
  /\ UNCHANGED <<hits, count, job, got>>
remove(r) ==   \* its hits go with it
  /\ rule[r] \in {"on", "off"} /\ Edits(r, "gone")
  /\ hits' = {h \in hits : h.rule # r} /\ UNCHANGED <<count, job, got>>

-----------------------------------------------------------------------------
(* A delivery: the rules are read once, and the first that matches is       *)
(* claimed, sent and told how it went.                                      *)

active == {r \in Rules : rule[r] = "on"}
FirstFor(c) == {r \in active : <<r, c>> \in Matches /\ \A s \in active : <<s, c>> \in Matches => r <= s}
run(q, c) ==
  /\ job[q] = Idle
  /\ \E r \in FirstFor(c) : job' = [job EXCEPT ![q] = [at |-> "claim", c |-> c, r |-> r]]
  /\ UNCHANGED <<rule, hits, count, got, edits>>
\* A rule and an author, and a rule and a comment, have one hit.
ClaimedComment(r, c) == \E h \in hits : h.rule = r /\ h.comment = c   \* mutant: the author may come again
Claimed(r, c) == \E h \in hits : h.rule = r /\ (h.comment = c \/ h.author = AuthorOf[c])
claimHit(q) ==
  /\ job[q].at = "claim"
  /\ LET r == job[q].r c == job[q].c IN
     IF Claimed(r, c) \/ rule[r] = "gone"
     THEN job' = [job EXCEPT ![q] = Idle] /\ UNCHANGED hits
     ELSE /\ job' = [job EXCEPT ![q] = [at |-> "send", c |-> c, r |-> r]]
          /\ hits' = hits \cup {Hit(r, c)}
  /\ UNCHANGED <<rule, count, got, edits>>
privateReply(q) ==
  /\ job[q].at = "send"
  /\ LET r == job[q].r c == job[q].c IN
     \E ok \in BOOLEAN :
       /\ got' = IF ok THEN [got EXCEPT ![r][c] = @ + 1] ELSE got
       /\ job' = [job EXCEPT ![q] = [at |-> "finish", c |-> c, r |-> r, ok |-> ok]]
  /\ UNCHANGED <<rule, hits, count, edits>>
finishHit(q) ==
  /\ job[q].at = "finish"
  /\ LET j == job[q] IN
     /\ hits' = {IF h.rule = j.r /\ h.comment = j.c THEN [h EXCEPT !.ok = j.ok] ELSE h : h \in hits}
     /\ count' = IF j.ok /\ rule[j.r] # "gone" THEN [count EXCEPT ![j.r] = @ + 1] ELSE count
  /\ job' = [job EXCEPT ![q] = Idle] /\ UNCHANGED <<rule, got, edits>>
Restart == job' = [q \in Requests |-> Idle] /\ UNCHANGED <<rule, hits, count, got, edits>>

Next ==
  \/ Restart
  \/ \E r \in Rules : create(r) \/ update(r) \/ remove(r)
  \/ \E q \in Requests : claimHit(q) \/ privateReply(q) \/ finishHit(q) \/ \E c \in Comments : run(q, c)
Spec == Init /\ [][Next]_vars

-----------------------------------------------------------------------------
\* A rule sends an author one message, whichever of his comments are
\* delivered, however often and however many at once.
OneMessagePerRule ==
  \A r \in Rules, c, d \in Comments :
    /\ got[r][c] <= 1
    /\ c # d /\ AuthorOf[c] = AuthorOf[d] => got[r][c] + got[r][d] <= 1

-----------------------------------------------------------------------------
(* Why: a message is sent on a claim, and a claim stays while its rule does. *)

Job ==
  {Idle} \cup [at : {"claim", "send"}, c : Comments, r : Rules]
         \cup [at : {"finish"}, c : Comments, r : Rules, ok : BOOLEAN]
TypeOK ==
  /\ rule \in [Rules -> {"none", "on", "off", "gone"}] /\ count \in [Rules -> Nat] /\ edits \in Nat
  /\ \A h \in hits : h \in [rule : Rules, comment : Comments, author : {AuthorOf[c] : c \in Comments}, ok : BOOLEAN]
  /\ job \in [Requests -> Job] /\ got \in [Rules -> [Comments -> Nat]]
Same(c, d) == AuthorOf[c] = AuthorOf[d]
Sends(q, r, c) == job[q].at = "send" /\ job[q].r = r /\ job[q].c = c
HasClaim(r, c) == rule[r] = "gone" \/ \E h \in hits : h.rule = r /\ h.author = AuthorOf[c]
ClaimsInv ==
  \A r \in Rules, c \in Comments :
    /\ got[r][c] > 0 => HasClaim(r, c)
    /\ \A q \in Requests : Sends(q, r, c) =>
         /\ HasClaim(r, c)
         /\ \A d \in Comments : Same(c, d) => got[r][d] = 0 /\ \A p \in Requests \ {q} : ~Sends(p, r, d)
RulesInv == TypeOK /\ ClaimsInv /\ OneMessagePerRule
=============================================================================
