-------------------------------- MODULE Wallet --------------------------------
(***************************************************************************)
(* A company's loyalty cards: members collect stamps, stamps become gifts, *)
(* staff adjust balances by hand, and Google holds a copy of each card.    *)
(*                                                                         *)
(* A stamp and a gift's handing over lock the member's row; an adjustment  *)
(* reads the balance, writes an absolute one and locks nothing.  After     *)
(* each change the card at Google is brought up to date in the background, *)
(* where two updates may overtake each other.                              *)
(***************************************************************************)
EXTENDS Integers, Sequences, FiniteSets

CONSTANTS Requests, Members,
          Numbers, Forms,  \* a phone number, and the ways it is written (with the country's code or not)
          Targets, Usual,  \* stamps a gift takes, as the merchant may set it and before he does
          Deltas,          \* of adjustments by hand
          MaxChanges,
          None

VARIABLES
  settings,  \* wallet_settings: the type of the program and the stamps a gift takes
  member,    \* wallet_customers and their wallet_rewards, oldest first
  events,    \* wallet_events, summed up by type
  spent,     \* stamps that became gifts (not stored by the code)
  card,      \* the object at Google
  syncs,     \* background updates of cards
  job,       \* job[r]: what request r has read
  changes,   \* requests so far
  overtaken, \* members with an adjustment computed from a balance that had moved
  doubtful   \* members whose last updates overlapped, or whose last update failed

vars == <<settings, member, events, spent, card, syncs, job, changes, overtaken, doubtful>>

Nobody == [phone |-> None, balance |-> 0, rewards |-> <<>>]
NoEvents == [stamps |-> 0, adjusted |-> 0, earned |-> 0, redeemed |-> 0]
NoCard == [made |-> FALSE, balance |-> 0, gifts |-> 0]
Idle == [at |-> "idle", m |-> None, phone |-> None, balance |-> 0, target |-> 0, delta |-> 0]
DefaultSettings == [engine |-> "stamp", stampCount |-> Usual]
Phones == Numbers \X Forms

Init ==
  /\ settings = DefaultSettings
  /\ member = [m \in Members |-> Nobody] /\ events = [m \in Members |-> NoEvents]
  /\ spent = [m \in Members |-> 0] /\ card = [m \in Members |-> NoCard] /\ syncs = {}
  /\ job = [r \in Requests |-> Idle] /\ changes = 0
  /\ overtaken = {} /\ doubtful = {}

Joined == {m \in Members : member[m].phone # None}
Waiting(list) == {k \in DOMAIN list : list[k] = "AVAILABLE"}
Gifts(m) == Cardinality(Waiting(member[m].rewards))
At(r, place) == job[r].at = place
Start(r, j) == job[r] = Idle /\ changes < MaxChanges /\ changes' = changes + 1 /\ job' = [job EXCEPT ![r] = j]
End(r) == job' = [job EXCEPT ![r] = Idle] /\ UNCHANGED changes

-----------------------------------------------------------------------------
(* The card at Google.                                                     *)

Syncing(m) == {s \in syncs : s.m = m}
FreeId == CHOOSE k \in 0..Cardinality(syncs) : \A s \in syncs : s.id # k
Unsynced(m) == UNCHANGED <<syncs, doubtful>>   \* mutant: a gift handed over is not sent
\* Put in the background; whether it overlaps another is remembered.
queuePassSync(m) ==
  /\ syncs' = syncs \cup {[id |-> FreeId, m |-> m, at |-> "read", balance |-> 0, gifts |-> 0]}
  /\ doubtful' = IF Syncing(m) = {} THEN doubtful \ {m} ELSE doubtful \cup {m}

\* The member's row is read, then the gifts are counted, then the card is sent.
ReadBalance(s) ==
  /\ s.at = "read" /\ syncs' = (syncs \ {s}) \cup {[s EXCEPT !.at = "count", !.balance = member[s.m].balance]}
  /\ UNCHANGED <<settings, member, events, spent, card, job, changes, overtaken, doubtful>>
CountGifts(s) ==
  /\ s.at = "count" /\ syncs' = (syncs \ {s}) \cup {[s EXCEPT !.at = "send", !.gifts = Gifts(s.m)]}
  /\ UNCHANGED <<settings, member, events, spent, card, job, changes, overtaken, doubtful>>

\* Made, or patched where it is already made.
upsertLoyaltyObject(s) == card' = [card EXCEPT ![s.m] = [made |-> TRUE, balance |-> s.balance, gifts |-> s.gifts]]
\* A card that is not there (404) is no failure.
patchLoyaltyObjectState(s) == IF card[s.m].made THEN upsertLoyaltyObject(s) ELSE UNCHANGED card
SendCard(s) ==
  /\ s.at = "send" /\ syncs' = syncs \ {s}
  /\ patchLoyaltyObjectState(s)
  /\ UNCHANGED <<settings, member, events, spent, job, changes, overtaken, doubtful>>
\* The failure is logged, and nothing tries again.
SyncFails(s) ==
  /\ syncs' = syncs \ {s} /\ doubtful' = doubtful \cup {s.m}
  /\ UNCHANGED <<settings, member, events, spent, card, job, changes, overtaken>>

-----------------------------------------------------------------------------
(* Members.                                                                *)

walletPhoneMatch(phone) == {m \in Joined : member[m].phone[1] = phone[1]}
\* The unique index on the company and the phone as it is written.
Taken(phone) == \E m \in Joined : member[m].phone = phone
NewMember(m, phone) == m \notin Joined /\ member' = [member EXCEPT ![m].phone = phone]

\* The public page looks for the number in any form, then creates.
CheckJoin(r, phone) ==
  /\ walletPhoneMatch(phone) = {} /\ Start(r, [Idle EXCEPT !.at = "join", !.phone = phone])
  /\ UNCHANGED <<settings, member, events, spent, card, syncs, overtaken, doubtful>>
Join(r) ==
  LET phone == job[r].phone IN
  /\ At(r, "join")
  /\ IF Taken(phone)
     THEN End(r) /\ UNCHANGED <<member, syncs, doubtful>>
     ELSE \E m \in Members :
            /\ NewMember(m, phone)
            /\ job' = [job EXCEPT ![r] = [Idle EXCEPT !.at = "link", !.m = m]] /\ UNCHANGED changes
            /\ UNCHANGED <<syncs, doubtful>>
  /\ UNCHANGED <<settings, events, spent, card, overtaken>>
\* The card is made of the row as it was created, with the gifts of now; a
\* failure leaves the member without one.
createGooglePassLink(r) ==
  LET m == job[r].m IN
  /\ At(r, "link") /\ End(r)
  /\ \/ card' = [card EXCEPT ![m] = [made |-> TRUE, balance |-> 0, gifts |-> Gifts(m)]]
        /\ doubtful' = IF member[m].balance = 0 /\ Syncing(m) = {} THEN doubtful ELSE doubtful \cup {m}
     \/ UNCHANGED <<card, doubtful>>
  /\ UNCHANGED <<settings, member, events, spent, syncs, overtaken>>

CreateCustomer(m, phone) ==
  /\ ~Taken(phone) /\ changes < MaxChanges /\ changes' = changes + 1
  /\ NewMember(m, phone)
  /\ UNCHANGED <<settings, events, spent, card, syncs, job, overtaken, doubtful>>

updateWalletSettings(engine, target) ==
  /\ changes < MaxChanges /\ changes' = changes + 1
  /\ settings' = [engine |-> engine, stampCount |-> target] /\ settings' # settings
  /\ UNCHANGED <<member, events, spent, card, syncs, job, overtaken, doubtful>>

-----------------------------------------------------------------------------
(* Stamps, gifts and adjustments.                                          *)

computeStamp(balance, target) == LET total == balance + 1 IN [balance |-> total % target, rewards |-> total \div target]

\* The settings and the row's id are read before the row is locked.
ScanToStamp(r, m) ==
  /\ m \in Joined /\ settings.engine = "stamp"
  /\ Start(r, [Idle EXCEPT !.at = "stamp", !.m = m, !.target = settings.stampCount, !.balance = member[m].balance])
  /\ UNCHANGED <<settings, member, events, spent, card, syncs, overtaken, doubtful>>
Locked(r) == member[job[r].m].balance   \* the row is read again under the lock
BalanceToStamp(r) == Locked(r)
addStampByCode(r) ==
  LET m == job[r].m  c == computeStamp(BalanceToStamp(r), job[r].target) IN
  /\ At(r, "stamp") /\ End(r)
  /\ member' = [member EXCEPT ![m].balance = c.balance,
                  ![m].rewards = @ \o [k \in 1..c.rewards |-> "AVAILABLE"]]
  /\ events' = [events EXCEPT ![m].stamps = @ + 1, ![m].earned = @ + c.rewards]
  /\ spent' = [spent EXCEPT ![m] = @ + c.rewards * job[r].target]
  /\ queuePassSync(m)
  /\ UNCHANGED <<settings, card, overtaken>>

\* Under the lock, the oldest gift that waits.
Oldest(m) == LET gifts == Waiting(member[m].rewards) IN CHOOSE k \in gifts : \A j \in gifts : k <= j
SyncAfterRedeem(m) == queuePassSync(m)
redeemRewardByCode(m) ==
  /\ Gifts(m) > 0 /\ changes < MaxChanges /\ changes' = changes + 1
  /\ member' = [member EXCEPT ![m].rewards[Oldest(m)] = "REDEEMED"]
  /\ events' = [events EXCEPT ![m].redeemed = @ + 1]
  /\ SyncAfterRedeem(m)
  /\ UNCHANGED <<settings, spent, card, job, overtaken>>

ReadToAdjust(r, m, delta) ==
  /\ m \in Joined /\ Start(r, [Idle EXCEPT !.at = "adjust", !.m = m, !.delta = delta, !.balance = member[m].balance])
  /\ UNCHANGED <<settings, member, events, spent, card, syncs, overtaken, doubtful>>
NextBalance(balance, delta) == IF balance + delta < 0 THEN 0 ELSE balance + delta
adjustCustomerBalance(r) ==
  LET m == job[r].m  next == NextBalance(job[r].balance, job[r].delta) IN
  /\ At(r, "adjust") /\ End(r)
  /\ member' = [member EXCEPT ![m].balance = next]
  /\ events' = [events EXCEPT ![m].adjusted = @ + next - job[r].balance]
  /\ overtaken' = IF member[m].balance # job[r].balance THEN overtaken \cup {m} ELSE overtaken
  /\ queuePassSync(m)
  /\ UNCHANGED <<settings, spent, card>>

Next ==
  \/ \E r \in Requests : Join(r) \/ createGooglePassLink(r) \/ addStampByCode(r) \/ adjustCustomerBalance(r)
  \/ \E r \in Requests, m \in Members : ScanToStamp(r, m) \/ (\E d \in Deltas : ReadToAdjust(r, m, d))
  \/ \E r \in Requests, phone \in Phones : CheckJoin(r, phone)
  \/ \E m \in Members, phone \in Phones : CreateCustomer(m, phone)
  \/ \E m \in Members : redeemRewardByCode(m)
  \/ \E e \in {"stamp", "points"}, t \in Targets : updateWalletSettings(e, t)
  \/ \E s \in syncs : ReadBalance(s) \/ CountGifts(s) \/ SendCard(s) \/ SyncFails(s)
Spec == Init /\ [][Next]_vars

-----------------------------------------------------------------------------
(* What the loyalty program promises.                                      *)

\* The log explains the card: the stamps given and the adjustments recorded
\* are the balance and what the gifts took, and each gift handed over was
\* earned.  Only an adjustment computed from a balance that a stamp or
\* another adjustment has moved since breaks it (adjustCustomerBalance locks
\* nothing).
LogExplainsCard ==
  \A m \in Members \ overtaken :
    /\ member[m].balance + spent[m] = events[m].stamps + events[m].adjusted
    /\ events[m].earned - events[m].redeemed = Gifts(m)

\* When no update is under way, the card at Google shows the member's balance
\* and gifts, whatever the updates read and when, as long as the last ones
\* did not overlap or fail (queuePassSync neither orders nor repeats them).
CardShowsMember ==
  \A m \in Members : (card[m].made /\ Syncing(m) = {} /\ m \notin doubtful) =>
    card[m].balance = member[m].balance /\ card[m].gifts = Gifts(m)
-----------------------------------------------------------------------------
(* Why: while the last update of a card is alone, what it has read so far  *)
(* is still so.                                                            *)

Member == [phone : Phones \cup {None}, balance : Nat, rewards : Seq({"AVAILABLE", "REDEEMED"})]
Sync(id) == [id : {id}, m : Members, at : {"read", "count", "send"}, balance : Nat, gifts : Nat]
Job == [at : {"idle", "join", "link", "stamp", "adjust"}, m : Members \cup {None}, phone : Phones \cup {None},
        balance : Nat, target : Targets \cup {0}, delta : Deltas \cup {0}]
TypeOK ==
  /\ settings \in [engine : {"stamp", "points"}, stampCount : Targets]
  /\ member \in [Members -> Member]
  /\ events \in [Members -> [stamps : Nat, adjusted : Int, earned : Nat, redeemed : Nat]] /\ spent \in [Members -> Nat]
  /\ card \in [Members -> [made : BOOLEAN, balance : Nat, gifts : Nat]]
  /\ \A s \in syncs : s \in Sync(s.id)
  /\ job \in [Requests -> Job] /\ changes \in Nat
  /\ overtaken \subseteq Members /\ doubtful \subseteq Members
JobInv(j) == /\ j.at \in {"link", "stamp", "adjust"} => j.m \in Members
             /\ j.at = "stamp" => j.target \in Targets
             /\ j.at = "join" => j.phone \in Phones
\* What an update has read, and the card once it is sent.
UpToDate(s) ==
  /\ s.at \in {"count", "send"} => s.balance = member[s.m].balance
  /\ s.at = "send" => s.gifts = Gifts(s.m)
SyncInv(m) ==
  /\ \A s, u \in Syncing(m) : s = u
  /\ \A s \in Syncing(m) : UpToDate(s)
WalletInv ==
  /\ TypeOK /\ LogExplainsCard /\ CardShowsMember
  /\ \A r \in Requests : JobInv(job[r])
  /\ \A m \in Members \ doubtful : SyncInv(m)
=============================================================================
