------------------------------- MODULE Webhooks -------------------------------
(***************************************************************************)
(* A company's keys for the public API, and the links its events are sent  *)
(* to.  A delivery carries the link as it was when the event happened; it  *)
(* is tried again later when the link gave no answer or failed, and each   *)
(* try is recorded with the link, which is switched off after too many     *)
(* failures in a row.                                                      *)
(*                                                                         *)
(* Tries wait in timers of the process.  A record counts the failure in    *)
(* one statement and switches the link off in another.                     *)
(***************************************************************************)
EXTENDS Integers, FiniteSets, Sequences

CONSTANTS Links, Keys, Events, Requests,
          Retries,       \* how many times a try is repeated
          DisableAfter,  \* failures in a row
          MaxKeys, MaxLinks,
          RateMax,       \* requests a key may make in a minute
          MaxSteps

VARIABLES
  key,      \* api_keys: none, live or revoked, its use within the minute
  minute,   \* the window of the rate: the requests each key made in it
  link,     \* webhook_endpoints
  tries,    \* deliveries under way: their event, the link's secret, the tries so far
  answers,  \* what a link answered to an event, try by try
  sent,     \* events that happened
  tested,   \* those of them sent as a test
  lost,     \* deliveries a restart dropped
  job,      \* job[r]: a request that has counted the keys or the links
  steps

vars == <<key, minute, link, tries, answers, sent, tested, lost, job, steps>>

NoLink == [live |-> FALSE, on |-> FALSE, fails |-> 0, secret |-> 0]
Init ==
  /\ key = [k \in Keys |-> "none"] /\ minute = [k \in Keys |-> 0]
  /\ link = [w \in Links |-> NoLink] /\ tries = {} /\ sent = {} /\ tested = {} /\ lost = {}
  /\ answers = [w \in Links |-> [e \in Events |-> <<>>]]
  /\ job = [r \in Requests |-> "idle"] /\ steps = 0

Spend == steps < MaxSteps /\ steps' = steps + 1
Live == {w \in Links : link[w].live}

-----------------------------------------------------------------------------
(* Keys and links.  Their number is counted, then the row is made.         *)

countKeys == Cardinality({k \in Keys : key[k] = "live"})
Count(r, what, n, max) ==
  /\ job[r] = "idle" /\ n < max /\ Spend /\ job' = [job EXCEPT ![r] = what]
Made(r) == job' = [job EXCEPT ![r] = "idle"] /\ UNCHANGED steps

CountKeys(r) ==
  Count(r, "key", countKeys, MaxKeys) /\ UNCHANGED <<key, minute, link, tries, answers, sent, tested, lost>>
createKey(r) ==
  /\ job[r] = "key" /\ Made(r)
  /\ \E k \in Keys : key[k] = "none" /\ key' = [key EXCEPT ![k] = "live"]
  /\ UNCHANGED <<minute, link, tries, answers, sent, tested, lost>>
revokeKey(k) ==
  /\ key[k] = "live" /\ key' = [key EXCEPT ![k] = "revoked"] /\ Spend
  /\ UNCHANGED <<minute, link, tries, answers, sent, tested, lost, job>>
\* A request from outside: its key is looked up, and it may go up to RateMax
\* times in the window; the request after a minute opens another.
authenticate(k) == key[k] = "live"
requireApiKey(k) ==
  /\ authenticate(k) /\ Spend
  /\ minute' \in {[minute EXCEPT ![k] = n] : n \in {1, IF minute[k] < RateMax THEN minute[k] + 1 ELSE minute[k]}}
  /\ UNCHANGED <<key, link, tries, answers, sent, tested, lost, job>>

CountLinks(r) ==
  Count(r, "link", Cardinality(Live), MaxLinks) /\ UNCHANGED <<key, minute, link, tries, answers, sent, tested, lost>>
\* Ids are given once: nothing was ever sent to the new link.
Unused(w) == (\A e \in Events : answers[w][e] = <<>> /\ <<w, e>> \notin lost) /\ \A d \in tries : d.w # w
createWebhook(r) ==
  /\ job[r] = "link" /\ Made(r)
  /\ \E w \in Links \ Live : Unused(w) /\ link' = [link EXCEPT ![w] = [NoLink EXCEPT !.live = TRUE, !.on = TRUE]]
  /\ UNCHANGED <<key, minute, tries, answers, sent, tested, lost>>

\* Switched on, a link's failures are counted from the start.
Counting(w) == {d \in tries : d.w = w /\ d.at = "off"}
Afresh(w) == [link EXCEPT ![w].on = TRUE, ![w].fails = 0]
SwitchedOn(w) == Afresh(w)
updateWebhook(w) ==
  /\ w \in Live /\ Spend
  /\ link' \in {SwitchedOn(w), [link EXCEPT ![w].on = FALSE]} /\ link' # link
  /\ UNCHANGED <<key, minute, tries, answers, sent, tested, lost, job>>
rotateSecret(w) ==
  /\ w \in Live /\ Spend /\ link' = [link EXCEPT ![w].secret = 1 - @]
  /\ UNCHANGED <<key, minute, tries, answers, sent, tested, lost, job>>
deleteWebhook(w) ==
  /\ w \in Live /\ Spend /\ link' = [link EXCEPT ![w] = NoLink]
  /\ UNCHANGED <<key, minute, tries, answers, sent, tested, lost, job>>

-----------------------------------------------------------------------------
(* Deliveries.                                                             *)

Delivery(w, e) == [w |-> w, e |-> e, secret |-> link[w].secret, attempt |-> 0, at |-> "post", ok |-> FALSE, again |-> FALSE]
subscribers == {w \in Live : link[w].on}
dispatch(e) ==
  /\ e \notin sent /\ sent' = sent \cup {e} /\ Spend
  /\ tries' = tries \cup {Delivery(w, e) : w \in subscribers}
  /\ UNCHANGED <<key, minute, link, answers, tested, lost, job>>
\* "Send a test" is a delivery of its own, never tried again.
testWebhook(w, e) ==
  /\ w \in Live /\ e \notin sent /\ sent' = sent \cup {e} /\ tested' = tested \cup {e} /\ Spend
  /\ tries' = tries \cup {[Delivery(w, e) EXCEPT !.attempt = Retries]}
  /\ UNCHANGED <<key, minute, link, answers, lost, job>>
Become(d, new) == tries' = (tries \ {d}) \cup new

\* The link accepts, refuses (4xx) or fails (5xx, 408, 429, or no answer).
post(d) ==
  /\ d.at = "post"
  /\ \E answer \in {"ok", "refused", "failed"} :
       /\ Become(d, {[d EXCEPT !.at = "count", !.ok = (answer = "ok"), !.again = (answer = "failed")]})
       /\ answers' = [answers EXCEPT ![d.w][d.e] = Append(@, answer)]
  /\ UNCHANGED <<key, minute, link, sent, tested, lost, job, steps>>

\* recordDelivery's first statement: the row of a deleted link is gone.
CountAnswer(d) ==
  /\ d.at = "count"
  /\ link' = IF d.w \notin Live THEN link
             ELSE [link EXCEPT ![d.w].fails = IF d.ok THEN 0 ELSE @ + 1]
  /\ Become(d, {[d EXCEPT !.at = IF ~d.ok /\ d.w \in Live /\ link[d.w].fails + 1 >= DisableAfter THEN "off" ELSE "next"]})
  /\ UNCHANGED <<key, minute, answers, sent, tested, lost, job, steps>>
SwitchOff(d) ==
  /\ d.at = "off" /\ Become(d, {[d EXCEPT !.at = "next"]})
  /\ link' = [link EXCEPT ![d.w].on = FALSE]
  /\ UNCHANGED <<key, minute, answers, sent, tested, lost, job, steps>>

\* After a delay the same link, with the secret it had, gets the event again.
MoreTries(d) == d.again /\ d.attempt < Retries
OnAnyFailure(d) == ~d.ok /\ d.attempt < Retries   \* mutant: a refusal is repeated
TriesAgain(d) == MoreTries(d)
deliverWithRetry(d) ==
  /\ d.at = "next"
  /\ IF TriesAgain(d)
     THEN Become(d, {[d EXCEPT !.at = "post", !.attempt = @ + 1, !.ok = FALSE, !.again = FALSE]})
     ELSE Become(d, {})
  /\ UNCHANGED <<key, minute, link, answers, sent, tested, lost, job, steps>>
\* The timers and the answers awaited go with the process.
Restart ==
  /\ tries # {} /\ Spend /\ tries' = {}
  /\ lost' = lost \cup {<<d.w, d.e>> : d \in tries} /\ job' = [r \in Requests |-> "idle"]
  /\ UNCHANGED <<key, minute, link, answers, sent, tested>>

Next ==
  \/ \E r \in Requests : CountKeys(r) \/ createKey(r) \/ CountLinks(r) \/ createWebhook(r)
  \/ \E k \in Keys : revokeKey(k) \/ requireApiKey(k)
  \/ \E w \in Links : updateWebhook(w) \/ rotateSecret(w) \/ deleteWebhook(w) \/ (\E e \in Events : testWebhook(w, e))
  \/ \E e \in Events : dispatch(e)
  \/ \E d \in tries : post(d) \/ CountAnswer(d) \/ SwitchOff(d) \/ deliverWithRetry(d)
  \/ Restart
Spec == Init /\ [][Next]_vars

-----------------------------------------------------------------------------
(* What the links are promised.                                            *)

\* A link that is on has failed fewer times in a row than switches it off,
\* once no record is half made, however many deliveries fail at once: only a
\* restart between the count and the switch leaves it on.
OnMeansHealthy ==
  \A w \in Live : (link[w].on /\ Counting(w) = {} /\ \A e \in Events : <<w, e>> \notin lost) =>
    link[w].fails < DisableAfter

\* A link is asked again only after a failure, at most Retries times, and an
\* event is over for it only when it accepted or refused the event or the
\* tries were used up: a restart and a test are the only other ends.
OneOutcome ==
  \A w \in Links, e \in Events :
    LET a == answers[w][e]  n == Len(a) IN
    /\ n <= Retries + 1 /\ \A k \in 1..(n - 1) : a[k] = "failed"
    /\ (n > 0 /\ e \notin tested /\ <<w, e>> \notin lost /\ \A d \in tries : d.w # w \/ d.e # e)
         => a[n] # "failed" \/ n = Retries + 1
-----------------------------------------------------------------------------
(* Why: an event is under way to a link once, and its delivery knows how   *)
(* often the link has answered, and what the last time.                    *)

Try == [w : Links, e : Events, secret : {0, 1}, attempt : 0..Retries, at : {"post", "count", "off", "next"},
        ok : BOOLEAN, again : BOOLEAN]
Link == [live : BOOLEAN, on : BOOLEAN, fails : Nat, secret : {0, 1}]
TypeOK ==
  /\ key \in [Keys -> {"none", "live", "revoked"}] /\ minute \in [Keys -> Nat]
  /\ link \in [Links -> Link]
  /\ tries \subseteq Try /\ answers \in [Links -> [Events -> Seq({"ok", "refused", "failed"})]]
  /\ sent \subseteq Events /\ tested \subseteq sent /\ lost \subseteq Links \X Events
  /\ job \in [Requests -> {"idle", "key", "link"}] /\ steps \in Nat

Before(d) == IF d.e \in tested THEN 0 ELSE d.attempt   \* answers of the tries before this one
Last(d)   == IF d.again THEN "failed" ELSE IF d.ok THEN "ok" ELSE "refused"
TryInv(d) ==
  LET a == answers[d.w][d.e] IN
  /\ d.e \in sent /\ (d.e \in tested => d.attempt = Retries)
  /\ Len(a) = IF d.at = "post" THEN Before(d) ELSE Before(d) + 1
  /\ \A k \in 1..Before(d) : a[k] = "failed"
  /\ d.at # "post" => a[Len(a)] = Last(d)
TriesInv ==
  /\ \A d, c \in tries : d.w = c.w /\ d.e = c.e => d = c
  /\ \A d \in tries : TryInv(d)
  /\ \A w \in Links, e \in Events \ sent : answers[w][e] = <<>>
HooksInv == TypeOK /\ OnMeansHealthy /\ OneOutcome /\ TriesInv
=============================================================================
