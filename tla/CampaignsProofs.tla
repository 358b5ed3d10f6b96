---------------------------- MODULE CampaignsProofs ----------------------------
(***************************************************************************)
(* Proofs about the WhatsApp messages a company sends: Campaigns, for any   *)
(* number of servers, requests, schedulers, people, recipient lists and    *)
(* restarts, and Conversation, for any number of webhook requests,         *)
(* messages, numbers, flows, deliveries and errors.                        *)
(***************************************************************************)
EXTENDS Campaigns, Conversation, TLAPS

\* What an attempt that is over, or broke the lock, leaves is of its type.
LocalTypes ==
  /\ pc \in [Attempts -> Places] /\ was \in [Attempts -> Statuses]
  /\ todo \in [Attempts -> SUBSET People] /\ ok \in [Attempts -> BOOLEAN]
  /\ outdated \subseteq Attempts
LEMMA LeaveType == ASSUME TypeOK, NEW S, Leave(S) PROVE LocalTypes'
  BY DEF TypeOK, Leave, LocalTypes, Places, Statuses, Claimable
LEMMA FailType == ASSUME TypeOK, NEW a \in Attempts, Fail(a) PROVE LocalTypes'
<1>1. CASE a \in Jobs
  BY <1>1 DEF TypeOK, Fail, Goto, LocalTypes, Places
<1>2. CASE a \notin Jobs
  BY <1>2, LeaveType DEF Fail
<1>3. QED BY <1>1, <1>2
HistoryTypes ==
  /\ lifted \subseteq Attempts /\ lost \in BOOLEAN
  /\ got \subseteq People /\ twice \subseteq People /\ unsure \subseteq People
LEMMA LiftType ==
  ASSUME TypeOK, NEW S \in SUBSET Attempts, NEW over \in SUBSET Attempts, Lift(S, over)
  PROVE HistoryTypes'
<1>1. lost' \in BOOLEAN
  BY DEF Lift, Break
<1>2. got' \subseteq People /\ twice' \subseteq People /\ unsure' \subseteq People
  BY DEF TypeOK, Lift, Break, received
<1>3. QED BY <1>1, <1>2 DEF TypeOK, Lift, HistoryTypes

\* Every action keeps the variables in their types.
LEMMA TypeStep == ASSUME TypeOK, [Next]_vars PROVE TypeOK'
<1> USE AttemptsAssumption, PeopleAssumption, CrashesAssumption
    DEF TypeOK, Places, Statuses, Claimable, campaign, local, received, history
<1>1. ASSUME NEW a \in Attempts, Start(a) PROVE TypeOK'
  BY <1>1 DEF Start, Goto
<1>2. ASSUME NEW a \in Attempts, Load(a) PROVE TypeOK'
  <2>1. CASE Fail(a)
    BY <1>2, <2>1, FailType DEF Load, LocalTypes
  <2>2. CASE ~Fail(a)
    BY <1>2, <2>2 DEF Load, Goto
  <2>3. QED BY <2>1, <2>2
<1>3. ASSUME NEW a \in Attempts, Filter(a) PROVE TypeOK'
  <2>1. CASE Fail(a)
    BY <1>3, <2>1, FailType DEF Filter, LocalTypes
  <2>2. CASE ~Fail(a)
    BY <1>3, <2>2 DEF Filter, Goto
  <2>3. QED BY <2>1, <2>2
<1>4. ASSUME NEW a \in Attempts, Claim(a) PROVE TypeOK'
  <2>1. CASE MayClaim
    BY <1>4, <2>1 DEF Claim, Goto
  <2>2. CASE ~MayClaim
    BY <1>4, <2>2, ZenonT(30) DEF Claim, Leave
  <2>3. QED BY <2>1, <2>2
<1>5. ASSUME NEW a \in Attempts, Prepare(a) PROVE TypeOK'
  BY <1>5 DEF Prepare, Goto
<1>6. ASSUME NEW a \in Attempts, Release(a) PROVE TypeOK'
  <2>1. LocalTypes'
    BY <1>6, FailType DEF Release
  <2>2. CASE status = "SENDING"
    <3>1. Lift(Holders \ {a}, {a})
      BY <1>6, <2>2 DEF Release
    <3>2. HistoryTypes'
      BY <3>1, LiftType DEF Holders
    <3>3. QED BY <1>6, <2>1, <2>2, <3>2 DEF Release, LocalTypes, HistoryTypes
  <2>3. CASE status # "SENDING"
    BY <1>6, <2>1, <2>3 DEF Release, LocalTypes
  <2>4. QED BY <2>2, <2>3
<1>7. ASSUME NEW a \in Attempts, MarkFailed(a) PROVE TypeOK'
  <2>1. LocalTypes'
    BY <1>7, LeaveType DEF MarkFailed
  <2>2. CASE MayFail
    <3>1. Lift(Holders, {})
      BY <1>7, <2>2 DEF MarkFailed
    <3>2. HistoryTypes'
      BY <3>1, LiftType DEF Holders
    <3>3. QED BY <1>7, <2>1, <2>2, <3>2 DEF MarkFailed, LocalTypes, HistoryTypes
  <2>3. CASE ~MayFail
    BY <1>7, <2>1, <2>3 DEF MarkFailed, LocalTypes
  <2>4. QED BY <2>2, <2>3
<1>8. ASSUME NEW a \in Attempts, NEW p \in People, Send(a, p) PROVE TypeOK'
  BY <1>8 DEF Send, Arrive
<1>9. ASSUME NEW a \in Attempts, Finish(a) PROVE TypeOK'
  <2>1. LocalTypes'
    BY <1>9, LeaveType DEF Finish
  <2>2. Lift(Holders \ {a}, {a})
    BY <1>9 DEF Finish
  <2>3. HistoryTypes'
    BY <2>2, LiftType DEF Holders
  <2>4. QED BY <1>9, <2>1, <2>3 DEF Finish, FinalStatus, LocalTypes, HistoryTypes
<1>10. ASSUME NEW a \in Attempts, FinishFails(a) PROVE TypeOK'
  BY <1>10 DEF FinishFails, Leave, Break
<1>11. ASSUME NEW l \in Lists, SetAudience(l) PROVE TypeOK'
  BY <1>11 DEF SetAudience, MayEdit
<1>12. ASSUME Schedule PROVE TypeOK'
  BY <1>12 DEF Schedule, Schedulable
<1>13. ASSUME Unschedule PROVE TypeOK'
  BY <1>13 DEF Unschedule
<1>14. ASSUME ComesDue PROVE TypeOK'
  BY <1>14 DEF ComesDue
<1>15. ASSUME Age PROVE TypeOK'
  BY <1>15 DEF Age
<1>16. ASSUME NEW s \in Servers, Expire(s) PROVE TypeOK'
  <2>1. Lift(Holders, {})
    BY <1>16 DEF Expire
  <2>2. HistoryTypes'
    BY <2>1, LiftType DEF Holders
  <2>3. QED BY <1>16, <2>2 DEF Expire, HistoryTypes
<1>17. ASSUME NEW s \in Servers, Crash(s) PROVE TypeOK'
  BY <1>17 DEF Crash, Leave, Break
<1>18. CASE UNCHANGED vars
  BY <1>18 DEF vars
<1>19. QED
  BY <1>1, <1>2, <1>3, <1>4, <1>5, <1>6, <1>7, <1>8, <1>9, <1>10, <1>11, <1>12, <1>13, <1>14, <1>15, <1>16, <1>17, <1>18 DEF Next, Work

\* Who holds the lock after a step, and that the inductive invariant is kept.
LEMMA CampaignInvStep == ASSUME CampaignInv, TypeOK', [Next]_vars PROVE CampaignInv'
<1> USE AttemptsAssumption, PeopleAssumption, CrashesAssumption
    DEF CampaignInv, LockInv, FreshInv, TypeOK, campaign, local, received, history
<1>1. ASSUME NEW a \in Attempts, Start(a) PROVE CampaignInv'
  <2>1. Holders' = (Holders)
    BY <1>1 DEF Start, Goto, Holders
  <2>2. SenderSending'
    BY <1>1, <2>1 DEF Start, Goto, SenderSending, LiftedInv, Holders
  <2>3. OneSender'
    BY <1>1, <2>1 DEF Start, Goto, OneSender, SenderSending, LiftedInv, Holders
  <2>4. LiftedInv'
    BY <1>1, <2>1 DEF Start, Goto, LiftedInv, Holders
  <2>5. ListInv'
    BY <1>1, <2>1 DEF Start, Goto, ListInv, Bound, SenderSending, LiftedInv, Holders
  <2>6. SentOnce'
    BY <1>1, <2>1 DEF Start, Goto, SentOnce, NotAgain, Reached, Delivery, Holders
  <2>7. OkInv'
    BY <1>1, <2>1 DEF Start, Goto, OkInv, Delivery, Holders
  <2>8. ReachedBy'
    BY <1>1, <2>1 DEF Start, Goto, ReachedBy, Reached, Delivery, OkInv, NotYet, LiftedInv, OneSender, SenderSending, Holders
  <2>9. NotYet'
    BY <1>1, <2>1 DEF Start, Goto, NotYet, ReachedBy, Reached, Delivery, OneSender, LiftedInv, SenderSending, Holders
  <2>10. NotAgain'
    BY <1>1, <2>1 DEF Start, Goto, NotAgain, NotYet, Reached, Delivery, OneSender, LiftedInv, Holders
  <2>11. QED BY <2>2, <2>3, <2>4, <2>5, <2>6, <2>7, <2>8, <2>9, <2>10
<1>2. ASSUME NEW a \in Attempts, Load(a) PROVE CampaignInv'
  <2>1. Holders' = (Holders)
    BY <1>2 DEF Load, Goto, Fail, Leave, Holders
  <2>2. SenderSending'
    BY <1>2, <2>1 DEF Load, Goto, Fail, Leave, SenderSending, LiftedInv, Holders
  <2>3. OneSender'
    BY <1>2, <2>1 DEF Load, Goto, Fail, Leave, OneSender, SenderSending, LiftedInv, Holders
  <2>4. LiftedInv'
    BY <1>2, <2>1 DEF Load, Goto, Fail, Leave, LiftedInv, Holders
  <2>5. ListInv'
    BY <1>2, <2>1 DEF Load, Goto, Fail, Leave, ListInv, Bound, SenderSending, LiftedInv, Holders
  <2>6. SentOnce'
    BY <1>2, <2>1 DEF Load, Goto, Fail, Leave, SentOnce, NotAgain, Reached, Delivery, Holders
  <2>7. OkInv'
    BY <1>2, <2>1 DEF Load, Goto, Fail, Leave, OkInv, Delivery, Holders
  <2>8. ReachedBy'
    BY <1>2, <2>1 DEF Load, Goto, Fail, Leave, ReachedBy, Reached, Delivery, OkInv, NotYet, LiftedInv, OneSender, SenderSending, Holders
  <2>9. NotYet'
    BY <1>2, <2>1 DEF Load, Goto, Fail, Leave, NotYet, ReachedBy, Reached, Delivery, OneSender, LiftedInv, SenderSending, Holders
  <2>10. NotAgain'
    BY <1>2, <2>1 DEF Load, Goto, Fail, Leave, NotAgain, NotYet, Reached, Delivery, OneSender, LiftedInv, Holders
  <2>11. QED BY <2>2, <2>3, <2>4, <2>5, <2>6, <2>7, <2>8, <2>9, <2>10
<1>3. ASSUME NEW a \in Attempts, Filter(a) PROVE CampaignInv'
  <2>1. Holders' = (Holders)
    BY <1>3 DEF Filter, Goto, Fail, Leave, Holders
  <2>2. SenderSending'
    BY <1>3, <2>1 DEF Filter, Goto, Fail, Leave, SenderSending, LiftedInv, Holders
  <2>3. OneSender'
    BY <1>3, <2>1 DEF Filter, Goto, Fail, Leave, OneSender, SenderSending, LiftedInv, Holders
  <2>4. LiftedInv'
    BY <1>3, <2>1 DEF Filter, Goto, Fail, Leave, LiftedInv, Holders
  <2>5. ListInv'
    BY <1>3, <2>1 DEF Filter, Goto, Fail, Leave, ListInv, Bound, SenderSending, LiftedInv, Holders
  <2>6. SentOnce'
    BY <1>3, <2>1 DEF Filter, Goto, Fail, Leave, SentOnce, NotAgain, Reached, Delivery, Holders
  <2>7. OkInv'
    BY <1>3, <2>1 DEF Filter, Goto, Fail, Leave, OkInv, Delivery, Holders
  <2>8. ReachedBy'
    BY <1>3, <2>1 DEF Filter, Goto, Fail, Leave, ReachedBy, Reached, Delivery, OkInv, NotYet, LiftedInv, OneSender, SenderSending, Holders
  <2>9. NotYet'
    BY <1>3, <2>1 DEF Filter, Goto, Fail, Leave, NotYet, ReachedBy, Reached, Delivery, OneSender, LiftedInv, SenderSending, Holders
  <2>10. NotAgain'
    BY <1>3, <2>1 DEF Filter, Goto, Fail, Leave, NotAgain, NotYet, Reached, Delivery, OneSender, LiftedInv, Holders
  <2>11. QED BY <2>2, <2>3, <2>4, <2>5, <2>6, <2>7, <2>8, <2>9, <2>10
<1>4. ASSUME NEW a \in Attempts, Claim(a) PROVE CampaignInv'
  <2>1. Holders' = (IF MayClaim THEN Holders \cup {a} ELSE Holders)
    BY <1>4 DEF Claim, Goto, Leave, MayClaim, Claimable, Holders
  <2>2. SenderSending'
    BY <1>4, <2>1 DEF Claim, Goto, Leave, MayClaim, Claimable, SenderSending, LiftedInv, Holders
  <2>3. OneSender'
    BY <1>4, <2>1 DEF Claim, Goto, Leave, MayClaim, Claimable, OneSender, SenderSending, LiftedInv, Holders
  <2>4. LiftedInv'
    BY <1>4, <2>1 DEF Claim, Goto, Leave, MayClaim, Claimable, LiftedInv, Holders
  <2>5. ListInv'
    BY <1>4, <2>1 DEF Claim, Goto, Leave, MayClaim, Claimable, ListInv, Bound, SenderSending, LiftedInv, Holders
  <2>6. SentOnce'
    BY <1>4, <2>1 DEF Claim, Goto, Leave, MayClaim, Claimable, SentOnce, NotAgain, Reached, Delivery, Holders
  <2>7. OkInv'
    BY <1>4, <2>1 DEF Claim, Goto, Leave, MayClaim, Claimable, OkInv, Delivery, Holders
  <2>8. ReachedBy'
    BY <1>4, <2>1 DEF Claim, Goto, Leave, MayClaim, Claimable, ReachedBy, Reached, Delivery, OkInv, NotYet, LiftedInv, OneSender, SenderSending, Holders
  <2>9. NotYet'
    BY <1>4, <2>1 DEF Claim, Goto, Leave, MayClaim, Claimable, NotYet, ReachedBy, Reached, Delivery, OneSender, LiftedInv, SenderSending, Holders
  <2>10. NotAgain'
    BY <1>4, <2>1 DEF Claim, Goto, Leave, MayClaim, Claimable, NotAgain, NotYet, Reached, Delivery, OneSender, LiftedInv, Holders
  <2>11. QED BY <2>2, <2>3, <2>4, <2>5, <2>6, <2>7, <2>8, <2>9, <2>10
<1>5. ASSUME NEW a \in Attempts, Prepare(a) PROVE CampaignInv'
  <2>1. Holders' = (Holders)
    BY <1>5 DEF Prepare, Goto, Holders
  <2>2. SenderSending'
    BY <1>5, <2>1 DEF Prepare, Goto, SenderSending, LiftedInv, Holders
  <2>3. OneSender'
    BY <1>5, <2>1 DEF Prepare, Goto, OneSender, SenderSending, LiftedInv, Holders
  <2>4. LiftedInv'
    BY <1>5, <2>1 DEF Prepare, Goto, LiftedInv, Holders
  <2>5. ListInv'
    BY <1>5, <2>1 DEF Prepare, Goto, ListInv, Bound, SenderSending, LiftedInv, Holders
  <2>6. SentOnce'
    BY <1>5, <2>1 DEF Prepare, Goto, SentOnce, NotAgain, Reached, Delivery, Holders
  <2>7. OkInv'
    BY <1>5, <2>1 DEF Prepare, Goto, OkInv, Delivery, Holders
  <2>8. ReachedBy'
    BY <1>5, <2>1 DEF Prepare, Goto, ReachedBy, Reached, Delivery, OkInv, NotYet, LiftedInv, OneSender, SenderSending, Holders
  <2>9. NotYet'
    BY <1>5, <2>1 DEF Prepare, Goto, NotYet, ReachedBy, Reached, Delivery, OneSender, LiftedInv, SenderSending, Holders
  <2>10. NotAgain'
    BY <1>5, <2>1 DEF Prepare, Goto, NotAgain, NotYet, Reached, Delivery, OneSender, LiftedInv, Holders
  <2>11. QED BY <2>2, <2>3, <2>4, <2>5, <2>6, <2>7, <2>8, <2>9, <2>10
<1>6. ASSUME NEW a \in Attempts, Release(a) PROVE CampaignInv'
  <2>1. Holders' = (Holders \ {a})
    BY <1>6 DEF Release, Goto, Fail, Leave, Lift, Break, Holders
  <2>2. SenderSending'
    BY <1>6, <2>1 DEF Release, Goto, Fail, Leave, Lift, Break, SenderSending, LiftedInv, Holders
  <2>3. OneSender'
    BY <1>6, <2>1 DEF Release, Goto, Fail, Leave, Lift, Break, OneSender, SenderSending, LiftedInv, Holders
  <2>4. LiftedInv'
    BY <1>6, <2>1 DEF Release, Goto, Fail, Leave, Lift, Break, LiftedInv, Holders
  <2>5. ListInv'
    BY <1>6, <2>1 DEF Release, Goto, Fail, Leave, Lift, Break, ListInv, Bound, SenderSending, LiftedInv, Holders
  <2>6. SentOnce'
    BY <1>6, <2>1 DEF Release, Goto, Fail, Leave, Lift, Break, SentOnce, NotAgain, Reached, Delivery, Holders
  <2>7. OkInv'
    BY <1>6, <2>1 DEF Release, Goto, Fail, Leave, Lift, Break, OkInv, Delivery, Holders
  <2>8. ReachedBy'
    BY <1>6, <2>1 DEF Release, Goto, Fail, Leave, Lift, Break, ReachedBy, Reached, Delivery, OkInv, NotYet, LiftedInv, OneSender, SenderSending, Holders
  <2>9. NotYet'
    BY <1>6, <2>1 DEF Release, Goto, Fail, Leave, Lift, Break, NotYet, ReachedBy, Reached, Delivery, OneSender, LiftedInv, SenderSending, Holders
  <2>10. NotAgain'
    BY <1>6, <2>1 DEF Release, Goto, Fail, Leave, Lift, Break, NotAgain, NotYet, Reached, Delivery, OneSender, LiftedInv, Holders
  <2>11. QED BY <2>2, <2>3, <2>4, <2>5, <2>6, <2>7, <2>8, <2>9, <2>10
<1>7. ASSUME NEW a \in Attempts, MarkFailed(a) PROVE CampaignInv'
  <2>1. Holders' = (Holders)
    BY <1>7 DEF MarkFailed, MayFail, Leave, Lift, Break, Holders
  <2>2. SenderSending'
    BY <1>7, <2>1 DEF MarkFailed, MayFail, Leave, Lift, Break, SenderSending, LiftedInv, Holders
  <2>3. OneSender'
    BY <1>7, <2>1 DEF MarkFailed, MayFail, Leave, Lift, Break, OneSender, SenderSending, LiftedInv, Holders
  <2>4. LiftedInv'
    BY <1>7, <2>1 DEF MarkFailed, MayFail, Leave, Lift, Break, LiftedInv, Holders
  <2>5. ListInv'
    BY <1>7, <2>1 DEF MarkFailed, MayFail, Leave, Lift, Break, ListInv, Bound, SenderSending, LiftedInv, Holders
  <2>6. SentOnce'
    BY <1>7, <2>1 DEF MarkFailed, MayFail, Leave, Lift, Break, SentOnce, NotAgain, Reached, Delivery, Holders
  <2>7. OkInv'
    BY <1>7, <2>1 DEF MarkFailed, MayFail, Leave, Lift, Break, OkInv, Delivery, Holders
  <2>8. ReachedBy'
    BY <1>7, <2>1 DEF MarkFailed, MayFail, Leave, Lift, Break, ReachedBy, Reached, Delivery, OkInv, NotYet, LiftedInv, OneSender, SenderSending, Holders
  <2>9. NotYet'
    BY <1>7, <2>1 DEF MarkFailed, MayFail, Leave, Lift, Break, NotYet, ReachedBy, Reached, Delivery, OneSender, LiftedInv, SenderSending, Holders
  <2>10. NotAgain'
    BY <1>7, <2>1 DEF MarkFailed, MayFail, Leave, Lift, Break, NotAgain, NotYet, Reached, Delivery, OneSender, LiftedInv, Holders
  <2>11. QED BY <2>2, <2>3, <2>4, <2>5, <2>6, <2>7, <2>8, <2>9, <2>10
<1>8. ASSUME NEW a \in Attempts, NEW p \in People, Send(a, p) PROVE CampaignInv'
  <2>1. Holders' = (Holders)
    BY <1>8 DEF Send, Arrive, Holders
  <2>2. SenderSending'
    BY <1>8, <2>1 DEF Send, Arrive, SenderSending, LiftedInv, Holders
  <2>3. OneSender'
    BY <1>8, <2>1 DEF Send, Arrive, OneSender, SenderSending, LiftedInv, Holders
  <2>4. LiftedInv'
    BY <1>8, <2>1 DEF Send, Arrive, LiftedInv, Holders
  <2>5. ListInv'
    BY <1>8, <2>1 DEF Send, Arrive, ListInv, Bound, SenderSending, LiftedInv, Holders
  <2>6. SentOnce'
    BY <1>8, <2>1 DEF Send, Arrive, SentOnce, NotAgain, Reached, Delivery, Holders
  <2>7. OkInv'
    BY <1>8, <2>1 DEF Send, Arrive, OkInv, Delivery, Holders
  <2>8. ReachedBy'
    BY <1>8, <2>1 DEF Send, Arrive, ReachedBy, Reached, Delivery, OkInv, NotYet, LiftedInv, OneSender, SenderSending, Holders
  <2>9. NotYet'
    BY <1>8, <2>1 DEF Send, Arrive, NotYet, ReachedBy, Reached, Delivery, OneSender, LiftedInv, SenderSending, Holders
  <2>10. NotAgain'
    BY <1>8, <2>1 DEF Send, Arrive, NotAgain, NotYet, Reached, Delivery, OneSender, LiftedInv, Holders
  <2>11. QED BY <2>2, <2>3, <2>4, <2>5, <2>6, <2>7, <2>8, <2>9, <2>10
<1>9. ASSUME NEW a \in Attempts, Finish(a) PROVE CampaignInv'
  <2>1. Holders' = (Holders \ {a})
    BY <1>9 DEF Finish, FinalStatus, Leave, Lift, Break, Holders
  <2>2. SenderSending'
    BY <1>9, <2>1 DEF Finish, FinalStatus, Leave, Lift, Break, SenderSending, LiftedInv, Holders
  <2>3. OneSender'
    BY <1>9, <2>1 DEF Finish, FinalStatus, Leave, Lift, Break, OneSender, SenderSending, LiftedInv, Holders
  <2>4. LiftedInv'
    BY <1>9, <2>1 DEF Finish, FinalStatus, Leave, Lift, Break, LiftedInv, Holders
  <2>5. ListInv'
    BY <1>9, <2>1 DEF Finish, FinalStatus, Leave, Lift, Break, ListInv, Bound, SenderSending, LiftedInv, Holders
  <2>6. SentOnce'
    BY <1>9, <2>1 DEF Finish, FinalStatus, Leave, Lift, Break, SentOnce, NotAgain, Reached, Delivery, Holders
  <2>7. OkInv'
    BY <1>9, <2>1 DEF Finish, FinalStatus, Leave, Lift, Break, OkInv, Delivery, Holders
  <2>8. ReachedBy'
    BY <1>9, <2>1 DEF Finish, FinalStatus, Leave, Lift, Break, ReachedBy, Reached, Delivery, OkInv, NotYet, LiftedInv, OneSender, SenderSending, Holders
  <2>9. NotYet'
    BY <1>9, <2>1 DEF Finish, FinalStatus, Leave, Lift, Break, NotYet, ReachedBy, Reached, Delivery, OneSender, LiftedInv, SenderSending, Holders
  <2>10. NotAgain'
    BY <1>9, <2>1 DEF Finish, FinalStatus, Leave, Lift, Break, NotAgain, NotYet, Reached, Delivery, OneSender, LiftedInv, Holders
  <2>11. QED BY <2>2, <2>3, <2>4, <2>5, <2>6, <2>7, <2>8, <2>9, <2>10
<1>10. ASSUME NEW a \in Attempts, FinishFails(a) PROVE CampaignInv'
  <2>1. Holders' = (Holders \ {a})
    BY <1>10 DEF FinishFails, Leave, Break, Holders
  <2>2. SenderSending'
    BY <1>10, <2>1 DEF FinishFails, Leave, Break, SenderSending, LiftedInv, Holders
  <2>3. OneSender'
    BY <1>10, <2>1 DEF FinishFails, Leave, Break, OneSender, SenderSending, LiftedInv, Holders
  <2>4. LiftedInv'
    BY <1>10, <2>1 DEF FinishFails, Leave, Break, LiftedInv, Holders
  <2>5. ListInv'
    BY <1>10, <2>1 DEF FinishFails, Leave, Break, ListInv, Bound, SenderSending, LiftedInv, Holders
  <2>6. SentOnce'
    BY <1>10, <2>1 DEF FinishFails, Leave, Break, SentOnce, NotAgain, Reached, Delivery, Holders
  <2>7. OkInv'
    BY <1>10, <2>1 DEF FinishFails, Leave, Break, OkInv, Delivery, Holders
  <2>8. ReachedBy'
    BY <1>10, <2>1 DEF FinishFails, Leave, Break, ReachedBy, Reached, Delivery, OkInv, NotYet, LiftedInv, OneSender, SenderSending, Holders
  <2>9. NotYet'
    BY <1>10, <2>1 DEF FinishFails, Leave, Break, NotYet, ReachedBy, Reached, Delivery, OneSender, LiftedInv, SenderSending, Holders
  <2>10. NotAgain'
    BY <1>10, <2>1 DEF FinishFails, Leave, Break, NotAgain, NotYet, Reached, Delivery, OneSender, LiftedInv, Holders
  <2>11. QED BY <2>2, <2>3, <2>4, <2>5, <2>6, <2>7, <2>8, <2>9, <2>10
<1>11. ASSUME NEW l \in Lists, SetAudience(l) PROVE CampaignInv'
  <2>1. Holders' = (Holders)
    BY <1>11 DEF SetAudience, MayEdit, Holders
  <2>2. SenderSending'
    BY <1>11, <2>1 DEF SetAudience, MayEdit, SenderSending, LiftedInv, Holders
  <2>3. OneSender'
    BY <1>11, <2>1 DEF SetAudience, MayEdit, OneSender, SenderSending, LiftedInv, Holders
  <2>4. LiftedInv'
    BY <1>11, <2>1 DEF SetAudience, MayEdit, LiftedInv, Holders
  <2>5. ListInv'
    BY <1>11, <2>1 DEF SetAudience, MayEdit, ListInv, Bound, SenderSending, LiftedInv, Holders
  <2>6. SentOnce'
    BY <1>11, <2>1 DEF SetAudience, MayEdit, SentOnce, NotAgain, Reached, Delivery, Holders
  <2>7. OkInv'
    BY <1>11, <2>1 DEF SetAudience, MayEdit, OkInv, Delivery, Holders
  <2>8. ReachedBy'
    BY <1>11, <2>1 DEF SetAudience, MayEdit, ReachedBy, Reached, Delivery, OkInv, NotYet, LiftedInv, OneSender, SenderSending, Holders
  <2>9. NotYet'
    BY <1>11, <2>1 DEF SetAudience, MayEdit, NotYet, ReachedBy, Reached, Delivery, OneSender, LiftedInv, SenderSending, Holders
  <2>10. NotAgain'
    BY <1>11, <2>1 DEF SetAudience, MayEdit, NotAgain, NotYet, Reached, Delivery, OneSender, LiftedInv, Holders
  <2>11. QED BY <2>2, <2>3, <2>4, <2>5, <2>6, <2>7, <2>8, <2>9, <2>10
<1>12. ASSUME Schedule PROVE CampaignInv'
  <2>1. Holders' = (Holders)
    BY <1>12 DEF Schedule, Schedulable, Holders
  <2>2. SenderSending'
    BY <1>12, <2>1 DEF Schedule, Schedulable, SenderSending, LiftedInv, Holders
  <2>3. OneSender'
    BY <1>12, <2>1 DEF Schedule, Schedulable, OneSender, SenderSending, LiftedInv, Holders
  <2>4. LiftedInv'
    BY <1>12, <2>1 DEF Schedule, Schedulable, LiftedInv, Holders
  <2>5. ListInv'
    BY <1>12, <2>1 DEF Schedule, Schedulable, ListInv, Bound, SenderSending, LiftedInv, Holders
  <2>6. SentOnce'
    BY <1>12, <2>1 DEF Schedule, Schedulable, SentOnce, NotAgain, Reached, Delivery, Holders
  <2>7. OkInv'
    BY <1>12, <2>1 DEF Schedule, Schedulable, OkInv, Delivery, Holders
  <2>8. ReachedBy'
    BY <1>12, <2>1 DEF Schedule, Schedulable, ReachedBy, Reached, Delivery, OkInv, NotYet, LiftedInv, OneSender, SenderSending, Holders
  <2>9. NotYet'
    BY <1>12, <2>1 DEF Schedule, Schedulable, NotYet, ReachedBy, Reached, Delivery, OneSender, LiftedInv, SenderSending, Holders
  <2>10. NotAgain'
    BY <1>12, <2>1 DEF Schedule, Schedulable, NotAgain, NotYet, Reached, Delivery, OneSender, LiftedInv, Holders
  <2>11. QED BY <2>2, <2>3, <2>4, <2>5, <2>6, <2>7, <2>8, <2>9, <2>10
<1>13. ASSUME Unschedule PROVE CampaignInv'
  <2>1. Holders' = (Holders)
    BY <1>13 DEF Unschedule, Holders
  <2>2. SenderSending'
    BY <1>13, <2>1 DEF Unschedule, SenderSending, LiftedInv, Holders
  <2>3. OneSender'
    BY <1>13, <2>1 DEF Unschedule, OneSender, SenderSending, LiftedInv, Holders
  <2>4. LiftedInv'
    BY <1>13, <2>1 DEF Unschedule, LiftedInv, Holders
  <2>5. ListInv'
    BY <1>13, <2>1 DEF Unschedule, ListInv, Bound, SenderSending, LiftedInv, Holders
  <2>6. SentOnce'
    BY <1>13, <2>1 DEF Unschedule, SentOnce, NotAgain, Reached, Delivery, Holders
  <2>7. OkInv'
    BY <1>13, <2>1 DEF Unschedule, OkInv, Delivery, Holders
  <2>8. ReachedBy'
    BY <1>13, <2>1 DEF Unschedule, ReachedBy, Reached, Delivery, OkInv, NotYet, LiftedInv, OneSender, SenderSending, Holders
  <2>9. NotYet'
    BY <1>13, <2>1 DEF Unschedule, NotYet, ReachedBy, Reached, Delivery, OneSender, LiftedInv, SenderSending, Holders
  <2>10. NotAgain'
    BY <1>13, <2>1 DEF Unschedule, NotAgain, NotYet, Reached, Delivery, OneSender, LiftedInv, Holders
  <2>11. QED BY <2>2, <2>3, <2>4, <2>5, <2>6, <2>7, <2>8, <2>9, <2>10
<1>14. ASSUME ComesDue PROVE CampaignInv'
  <2>1. Holders' = (Holders)
    BY <1>14 DEF ComesDue, Holders
  <2>2. SenderSending'
    BY <1>14, <2>1 DEF ComesDue, SenderSending, LiftedInv, Holders
  <2>3. OneSender'
    BY <1>14, <2>1 DEF ComesDue, OneSender, SenderSending, LiftedInv, Holders
  <2>4. LiftedInv'
    BY <1>14, <2>1 DEF ComesDue, LiftedInv, Holders
  <2>5. ListInv'
    BY <1>14, <2>1 DEF ComesDue, ListInv, Bound, SenderSending, LiftedInv, Holders
  <2>6. SentOnce'
    BY <1>14, <2>1 DEF ComesDue, SentOnce, NotAgain, Reached, Delivery, Holders
  <2>7. OkInv'
    BY <1>14, <2>1 DEF ComesDue, OkInv, Delivery, Holders
  <2>8. ReachedBy'
    BY <1>14, <2>1 DEF ComesDue, ReachedBy, Reached, Delivery, OkInv, NotYet, LiftedInv, OneSender, SenderSending, Holders
  <2>9. NotYet'
    BY <1>14, <2>1 DEF ComesDue, NotYet, ReachedBy, Reached, Delivery, OneSender, LiftedInv, SenderSending, Holders
  <2>10. NotAgain'
    BY <1>14, <2>1 DEF ComesDue, NotAgain, NotYet, Reached, Delivery, OneSender, LiftedInv, Holders
  <2>11. QED BY <2>2, <2>3, <2>4, <2>5, <2>6, <2>7, <2>8, <2>9, <2>10
<1>15. ASSUME Age PROVE CampaignInv'
  <2>1. Holders' = (Holders)
    BY <1>15 DEF Age, Holders
  <2>2. SenderSending'
    BY <1>15, <2>1 DEF Age, SenderSending, LiftedInv, Holders
  <2>3. OneSender'
    BY <1>15, <2>1 DEF Age, OneSender, SenderSending, LiftedInv, Holders
  <2>4. LiftedInv'
    BY <1>15, <2>1 DEF Age, LiftedInv, Holders
  <2>5. ListInv'
    BY <1>15, <2>1 DEF Age, ListInv, Bound, SenderSending, LiftedInv, Holders
  <2>6. SentOnce'
    BY <1>15, <2>1 DEF Age, SentOnce, NotAgain, Reached, Delivery, Holders
  <2>7. OkInv'
    BY <1>15, <2>1 DEF Age, OkInv, Delivery, Holders
  <2>8. ReachedBy'
    BY <1>15, <2>1 DEF Age, ReachedBy, Reached, Delivery, OkInv, NotYet, LiftedInv, OneSender, SenderSending, Holders
  <2>9. NotYet'
    BY <1>15, <2>1 DEF Age, NotYet, ReachedBy, Reached, Delivery, OneSender, LiftedInv, SenderSending, Holders
  <2>10. NotAgain'
    BY <1>15, <2>1 DEF Age, NotAgain, NotYet, Reached, Delivery, OneSender, LiftedInv, Holders
  <2>11. QED BY <2>2, <2>3, <2>4, <2>5, <2>6, <2>7, <2>8, <2>9, <2>10
<1>16. ASSUME NEW s \in Servers, Expire(s) PROVE CampaignInv'
  <2>1. Holders' = (Holders)
    BY <1>16 DEF Expire, MayExpire, Lift, Break, Holders
  <2>2. SenderSending'
    BY <1>16, <2>1 DEF Expire, MayExpire, Lift, Break, SenderSending, LiftedInv, Holders
  <2>3. OneSender'
    BY <1>16, <2>1 DEF Expire, MayExpire, Lift, Break, OneSender, SenderSending, LiftedInv, Holders
  <2>4. LiftedInv'
    BY <1>16, <2>1 DEF Expire, MayExpire, Lift, Break, LiftedInv, Holders
  <2>5. ListInv'
    BY <1>16, <2>1 DEF Expire, MayExpire, Lift, Break, ListInv, Bound, SenderSending, LiftedInv, Holders
  <2>6. SentOnce'
    BY <1>16, <2>1 DEF Expire, MayExpire, Lift, Break, SentOnce, NotAgain, Reached, Delivery, Holders
  <2>7. OkInv'
    BY <1>16, <2>1 DEF Expire, MayExpire, Lift, Break, OkInv, Delivery, Holders
  <2>8. ReachedBy'
    BY <1>16, <2>1 DEF Expire, MayExpire, Lift, Break, ReachedBy, Reached, Delivery, OkInv, NotYet, LiftedInv, OneSender, SenderSending, Holders
  <2>9. NotYet'
    BY <1>16, <2>1 DEF Expire, MayExpire, Lift, Break, NotYet, ReachedBy, Reached, Delivery, OneSender, LiftedInv, SenderSending, Holders
  <2>10. NotAgain'
    BY <1>16, <2>1 DEF Expire, MayExpire, Lift, Break, NotAgain, NotYet, Reached, Delivery, OneSender, LiftedInv, Holders
  <2>11. QED BY <2>2, <2>3, <2>4, <2>5, <2>6, <2>7, <2>8, <2>9, <2>10
<1>17. ASSUME NEW s \in Servers, Crash(s) PROVE CampaignInv'
  <2>1. Holders' = ({a \in Holders : On[a] # s})
    BY <1>17 DEF Crash, Leave, Break, Holders
  <2>2. SenderSending'
    BY <1>17, <2>1 DEF Crash, Leave, Break, SenderSending, LiftedInv, Holders
  <2>3. OneSender'
    BY <1>17, <2>1 DEF Crash, Leave, Break, OneSender, SenderSending, LiftedInv, Holders
  <2>4. LiftedInv'
    BY <1>17, <2>1 DEF Crash, Leave, Break, LiftedInv, Holders
  <2>5. ListInv'
    BY <1>17, <2>1 DEF Crash, Leave, Break, ListInv, Bound, SenderSending, LiftedInv, Holders
  <2>6. SentOnce'
    BY <1>17, <2>1 DEF Crash, Leave, Break, SentOnce, NotAgain, Reached, Delivery, Holders
  <2>7. OkInv'
    BY <1>17, <2>1 DEF Crash, Leave, Break, OkInv, Delivery, Holders
  <2>8. ReachedBy'
    BY <1>17, <2>1 DEF Crash, Leave, Break, ReachedBy, Reached, Delivery, OkInv, NotYet, LiftedInv, OneSender, SenderSending, Holders
  <2>9. NotYet'
    BY <1>17, <2>1 DEF Crash, Leave, Break, NotYet, ReachedBy, Reached, Delivery, OneSender, LiftedInv, SenderSending, Holders
  <2>10. NotAgain'
    BY <1>17, <2>1 DEF Crash, Leave, Break, NotAgain, NotYet, Reached, Delivery, OneSender, LiftedInv, Holders
  <2>11. QED BY <2>2, <2>3, <2>4, <2>5, <2>6, <2>7, <2>8, <2>9, <2>10
<1>18. CASE UNCHANGED vars
  BY <1>18 DEF vars, Holders, Bound, SenderSending, OneSender, LiftedInv, ListInv, SentOnce, OkInv, ReachedBy, NotYet, NotAgain, Reached, Delivery
<1>19. QED
  BY <1>1, <1>2, <1>3, <1>4, <1>5, <1>6, <1>7, <1>8, <1>9, <1>10, <1>11, <1>12, <1>13, <1>14, <1>15, <1>16, <1>17, <1>18 DEF Next, Work

\* The inductive invariant holds in every reachable state.
THEOREM CampaignInvHolds == Spec => []CampaignInv
<1>1. Init => CampaignInv
  <2> SUFFICES ASSUME Init PROVE CampaignInv
    OBVIOUS
  <2>1. TypeOK
    BY DEF Init, TypeOK, Places, Statuses, Claimable
  <2>2. Holders = {} /\ Bound = {}
    BY DEF Init, Holders, Bound
  <2>3. LockInv /\ ListInv
    BY <2>2 DEF Init, LockInv, ListInv, SenderSending, OneSender, LiftedInv
  <2>4. FreshInv
    BY <2>2 DEF Init, FreshInv, SentOnce, OkInv, ReachedBy, NotYet, NotAgain, Reached, Delivery
  <2>5. QED BY <2>1, <2>3, <2>4 DEF CampaignInv
<1>2. CampaignInv /\ [Next]_vars => CampaignInv'
  BY TypeStep, CampaignInvStep DEF CampaignInv
<1>3. QED
  BY <1>1, <1>2, PTL DEF Spec

\* The variables keep their types.
THEOREM TypeCorrect == Spec => []TypeOK
  BY CampaignInvHolds, PTL DEF CampaignInv

\* The lock of a campaign has one holder it was not lifted from.
THEOREM OneSenderHolds == Spec => []OneSender
  BY CampaignInvHolds, PTL DEF CampaignInv, LockInv

\* Nobody gets a campaign twice unless a delivery broke off, lost its lock or its answer.
THEOREM SentOnceHolds == Spec => []SentOnce
  BY CampaignInvHolds, PTL DEF CampaignInv, FreshInv

\* No list is put under a campaign that is being sent.
THEOREM SendsToTheListHolds == Spec => []SendsToTheList
<1>1. CampaignInv => SendsToTheList
  BY DEF CampaignInv, ListInv, SendsToTheList, Bound
<1>2. QED
  BY <1>1, CampaignInvHolds, PTL

-----------------------------------------------------------------------------
(* The conversation.                                                       *)

\* A handler's job by its fields.
Job(place, m, kind, step, more, out, good, spoke, handoff, human, blind) ==
  [at |-> place, m |-> m, kind |-> kind, step |-> step, todo |-> more, out |-> out, ok |-> good,
   spoke |-> spoke, handoff |-> handoff, human |-> human, blind |-> blind]
Whole(j) == j = Job(j.at, j.m, j.kind, j.step, j.todo, j.out, j.ok, j.spoke, j.handoff, j.human, j.blind)

\* What a changed field leaves of a job.
LEMMA JobFields ==
  ASSUME NEW j, Whole(j), NEW x
  PROVE  /\ [j EXCEPT !.at = x] = Job(x, j.m, j.kind, j.step, j.todo, j.out, j.ok, j.spoke, j.handoff, j.human, j.blind)
         /\ [j EXCEPT !.m = x] = Job(j.at, x, j.kind, j.step, j.todo, j.out, j.ok, j.spoke, j.handoff, j.human, j.blind)
         /\ [j EXCEPT !.todo = x] = Job(j.at, j.m, j.kind, j.step, x, j.out, j.ok, j.spoke, j.handoff, j.human, j.blind)
         /\ [j EXCEPT !.out = x] = Job(j.at, j.m, j.kind, j.step, j.todo, x, j.ok, j.spoke, j.handoff, j.human, j.blind)
         /\ [j EXCEPT !.ok = x] = Job(j.at, j.m, j.kind, j.step, j.todo, j.out, x, j.spoke, j.handoff, j.human, j.blind)
         /\ [j EXCEPT !.spoke = x] = Job(j.at, j.m, j.kind, j.step, j.todo, j.out, j.ok, x, j.handoff, j.human, j.blind)
         /\ [j EXCEPT !.human = x] = Job(j.at, j.m, j.kind, j.step, j.todo, j.out, j.ok, j.spoke, j.handoff, x, j.blind)
<1>1. [j EXCEPT !.at = x] = Job(x, j.m, j.kind, j.step, j.todo, j.out, j.ok, j.spoke, j.handoff, j.human, j.blind)
  BY DEF Whole, Job
<1>2. [j EXCEPT !.m = x] = Job(j.at, x, j.kind, j.step, j.todo, j.out, j.ok, j.spoke, j.handoff, j.human, j.blind)
  BY DEF Whole, Job
<1>3. [j EXCEPT !.todo = x] = Job(j.at, j.m, j.kind, j.step, x, j.out, j.ok, j.spoke, j.handoff, j.human, j.blind)
  BY DEF Whole, Job
<1>4. [j EXCEPT !.out = x] = Job(j.at, j.m, j.kind, j.step, j.todo, x, j.ok, j.spoke, j.handoff, j.human, j.blind)
  BY DEF Whole, Job
<1>5. [j EXCEPT !.ok = x] = Job(j.at, j.m, j.kind, j.step, j.todo, j.out, x, j.spoke, j.handoff, j.human, j.blind)
  BY DEF Whole, Job
<1>6. [j EXCEPT !.spoke = x] = Job(j.at, j.m, j.kind, j.step, j.todo, j.out, j.ok, x, j.handoff, j.human, j.blind)
  BY DEF Whole, Job
<1>7. [j EXCEPT !.human = x] = Job(j.at, j.m, j.kind, j.step, j.todo, j.out, j.ok, j.spoke, j.handoff, x, j.blind)
  BY DEF Whole, Job
<1>8. QED BY <1>1, <1>2, <1>3, <1>4, <1>5, <1>6, <1>7

\* A job that takes a message, one whose message was sent, and one whose message was logged.
LEMMA NewFields ==
  ASSUME NEW j, Whole(j), NEW x, NEW y
  PROVE  [j EXCEPT !.at = "record", !.m = x, !.human = y]
           = Job("record", x, j.kind, j.step, j.todo, j.out, j.ok, j.spoke, j.handoff, y, j.blind)
<1> DEFINE a == [j EXCEPT !.at = "record"]
           b == [a EXCEPT !.m = x]
           c == [b EXCEPT !.human = y]
<1>0. [j EXCEPT !.at = "record", !.m = x, !.human = y] = c
  OBVIOUS
<1>1. a = Job("record", j.m, j.kind, j.step, j.todo, j.out, j.ok, j.spoke, j.handoff, j.human, j.blind) /\ Whole(a)
  <2>0. Whole(j)
    OBVIOUS
  <2>1. a = Job("record", j.m, j.kind, j.step, j.todo, j.out, j.ok, j.spoke, j.handoff, j.human, j.blind)
    BY <2>0, JobFields
  <2> HIDE DEF a
  <2>2. a = Job("record", j.m, j.kind, j.step, j.todo, j.out, j.ok, j.spoke, j.handoff, j.human, j.blind)
    BY <2>1 DEF Job
  <2>3. QED BY <2>2 DEF Whole, Job
<1> HIDE DEF a
<1>2. b = Job("record", x, j.kind, j.step, j.todo, j.out, j.ok, j.spoke, j.handoff, j.human, j.blind) /\ Whole(b)
  <2>0. Whole(a)
    BY <1>1
  <2>1. b = Job(a.at, x, a.kind, a.step, a.todo, a.out, a.ok, a.spoke, a.handoff, a.human, a.blind)
    BY <2>0, JobFields
  <2> HIDE DEF b
  <2>2. b = Job("record", x, j.kind, j.step, j.todo, j.out, j.ok, j.spoke, j.handoff, j.human, j.blind)
    BY <1>1, <2>1 DEF Job
  <2>3. QED BY <2>2 DEF Whole, Job
<1> HIDE DEF b
<1>3. c = Job("record", x, j.kind, j.step, j.todo, j.out, j.ok, j.spoke, j.handoff, y, j.blind) /\ Whole(c)
  <2>0. Whole(b)
    BY <1>2
  <2>1. c = Job(b.at, b.m, b.kind, b.step, b.todo, b.out, b.ok, b.spoke, b.handoff, y, b.blind)
    BY <2>0, JobFields
  <2> HIDE DEF c
  <2>2. c = Job("record", x, j.kind, j.step, j.todo, j.out, j.ok, j.spoke, j.handoff, y, j.blind)
    BY <1>2, <2>1 DEF Job
  <2>3. QED BY <2>2 DEF Whole, Job
<1> HIDE DEF c
<1>4. QED BY <1>0, <1>3

LEMMA SentFields ==
  ASSUME NEW j, Whole(j), NEW x, NEW y, NEW z
  PROVE  [j EXCEPT !.at = "log", !.ok = x, !.out = y, !.spoke = z]
           = Job("log", j.m, j.kind, j.step, j.todo, y, x, z, j.handoff, j.human, j.blind)
<1> DEFINE a == [j EXCEPT !.at = "log"]
           b == [a EXCEPT !.ok = x]
           c == [b EXCEPT !.out = y]
           d == [c EXCEPT !.spoke = z]
<1>0. [j EXCEPT !.at = "log", !.ok = x, !.out = y, !.spoke = z] = d
  OBVIOUS
<1>1. a = Job("log", j.m, j.kind, j.step, j.todo, j.out, j.ok, j.spoke, j.handoff, j.human, j.blind) /\ Whole(a)
  <2>0. Whole(j)
    OBVIOUS
  <2>1. a = Job("log", j.m, j.kind, j.step, j.todo, j.out, j.ok, j.spoke, j.handoff, j.human, j.blind)
    BY <2>0, JobFields
  <2> HIDE DEF a
  <2>2. a = Job("log", j.m, j.kind, j.step, j.todo, j.out, j.ok, j.spoke, j.handoff, j.human, j.blind)
    BY <2>1 DEF Job
  <2>3. QED BY <2>2 DEF Whole, Job
<1> HIDE DEF a
<1>2. b = Job("log", j.m, j.kind, j.step, j.todo, j.out, x, j.spoke, j.handoff, j.human, j.blind) /\ Whole(b)
  <2>0. Whole(a)
    BY <1>1
  <2>1. b = Job(a.at, a.m, a.kind, a.step, a.todo, a.out, x, a.spoke, a.handoff, a.human, a.blind)
    BY <2>0, JobFields
  <2> HIDE DEF b
  <2>2. b = Job("log", j.m, j.kind, j.step, j.todo, j.out, x, j.spoke, j.handoff, j.human, j.blind)
    BY <1>1, <2>1 DEF Job
  <2>3. QED BY <2>2 DEF Whole, Job
<1> HIDE DEF b
<1>3. c = Job("log", j.m, j.kind, j.step, j.todo, y, x, j.spoke, j.handoff, j.human, j.blind) /\ Whole(c)
  <2>0. Whole(b)
    BY <1>2
  <2>1. c = Job(b.at, b.m, b.kind, b.step, b.todo, y, b.ok, b.spoke, b.handoff, b.human, b.blind)
    BY <2>0, JobFields
  <2> HIDE DEF c
  <2>2. c = Job("log", j.m, j.kind, j.step, j.todo, y, x, j.spoke, j.handoff, j.human, j.blind)
    BY <1>2, <2>1 DEF Job
  <2>3. QED BY <2>2 DEF Whole, Job
<1> HIDE DEF c
<1>4. d = Job("log", j.m, j.kind, j.step, j.todo, y, x, z, j.handoff, j.human, j.blind) /\ Whole(d)
  <2>0. Whole(c)
    BY <1>3
  <2>1. d = Job(c.at, c.m, c.kind, c.step, c.todo, c.out, c.ok, z, c.handoff, c.human, c.blind)
    BY <2>0, JobFields
  <2> HIDE DEF d
  <2>2. d = Job("log", j.m, j.kind, j.step, j.todo, y, x, z, j.handoff, j.human, j.blind)
    BY <1>3, <2>1 DEF Job
  <2>3. QED BY <2>2 DEF Whole, Job
<1> HIDE DEF d
<1>5. QED BY <1>0, <1>4

LEMMA LoggedFields ==
  ASSUME NEW j, Whole(j), NEW x, NEW y, NEW z
  PROVE  [j EXCEPT !.out = x, !.ok = y, !.todo = z]
           = Job(j.at, j.m, j.kind, j.step, z, x, y, j.spoke, j.handoff, j.human, j.blind)
<1> DEFINE a == [j EXCEPT !.out = x]
           b == [a EXCEPT !.ok = y]
           c == [b EXCEPT !.todo = z]
<1>0. [j EXCEPT !.out = x, !.ok = y, !.todo = z] = c
  OBVIOUS
<1>1. a = Job(j.at, j.m, j.kind, j.step, j.todo, x, j.ok, j.spoke, j.handoff, j.human, j.blind) /\ Whole(a)
  <2>0. Whole(j)
    OBVIOUS
  <2>1. a = Job(j.at, j.m, j.kind, j.step, j.todo, x, j.ok, j.spoke, j.handoff, j.human, j.blind)
    BY <2>0, JobFields
  <2> HIDE DEF a
  <2>2. a = Job(j.at, j.m, j.kind, j.step, j.todo, x, j.ok, j.spoke, j.handoff, j.human, j.blind)
    BY <2>1 DEF Job
  <2>3. QED BY <2>2 DEF Whole, Job
<1> HIDE DEF a
<1>2. b = Job(j.at, j.m, j.kind, j.step, j.todo, x, y, j.spoke, j.handoff, j.human, j.blind) /\ Whole(b)
  <2>0. Whole(a)
    BY <1>1
  <2>1. b = Job(a.at, a.m, a.kind, a.step, a.todo, a.out, y, a.spoke, a.handoff, a.human, a.blind)
    BY <2>0, JobFields
  <2> HIDE DEF b
  <2>2. b = Job(j.at, j.m, j.kind, j.step, j.todo, x, y, j.spoke, j.handoff, j.human, j.blind)
    BY <1>1, <2>1 DEF Job
  <2>3. QED BY <2>2 DEF Whole, Job
<1> HIDE DEF b
<1>3. c = Job(j.at, j.m, j.kind, j.step, z, x, y, j.spoke, j.handoff, j.human, j.blind) /\ Whole(c)
  <2>0. Whole(b)
    BY <1>2
  <2>1. c = Job(b.at, b.m, b.kind, b.step, z, b.out, b.ok, b.spoke, b.handoff, b.human, b.blind)
    BY <2>0, JobFields
  <2> HIDE DEF c
  <2>2. c = Job(j.at, j.m, j.kind, j.step, z, x, y, j.spoke, j.handoff, j.human, j.blind)
    BY <1>2, <2>1 DEF Job
  <2>3. QED BY <2>2 DEF Whole, Job
<1> HIDE DEF c
<1>4. QED BY <1>0, <1>3

\* A job after a step of its handler, or of another: it keeps its message, and
\* whether it spoke, unless it is over or met an error.
Goes(j, i) ==
  /\ JobOK(i) /\ (i.out = j.out \/ i.out = Nowhere)
  /\ \/ i.m = NoMessage
     \/ i.m = j.m /\ j.m \in broken'
     \/ i.m = j.m /\ i.spoke = j.spoke /\ (i.at = j.at \/ j.at # "record")

\* A handler that does nothing, and one that stops, goes on as it may.
LEMMA StaysJob == ASSUME NEW j, JobOK(j) PROVE Goes(j, j)
  BY DEF Goes
LEMMA IdleJob == ASSUME NEW j PROVE Goes(j, Idle)
  BY DEF Goes, Idle, JobOK

\* What the jobs may do leaves every message one handler and one answer ...
LEMMA VoicesStay ==
  ASSUME TalkInv, \A g \in Handlers : Goes(job[g], job'[g]),
         UNCHANGED <<kept, voices>>, overlapped \subseteq overlapped', broken \subseteq broken'
  PROVE  \A m \in Messages \ (overlapped' \cup broken') : VoiceInv(m)'
<1> TAKE m \in Messages \ (overlapped' \cup broken')
<1>1. VoiceInv(m)
  BY DEF TalkInv
<1>2. \A g \in Handlers : job'[g].m = m =>
        job[g].m = m /\ job'[g].spoke = job[g].spoke /\ (job'[g].at = job[g].at \/ job[g].at # "record")
  BY NothingAssumption DEF Goes
<1>3. QED BY <1>1, <1>2 DEF VoiceInv

\* ... and the types, if the conversation keeps its own ...
LEMMA TypesStay ==
  ASSUME TalkInv, \A g \in Handlers : Goes(job[g], job'[g]), job' = [g \in Handlers |-> job'[g]],
         conv' \in [status : {"open", "handoff", "closed"}, paused : BOOLEAN],
         UNCHANGED <<kept, voices, overlapped, rows, news>>, broken' \subseteq Messages
  PROVE  TalkOK'
<1>1. \A h \in Handlers : JobOK(job'[h])
  BY DEF Goes
<1>2. \A h \in Handlers : JobOK(job[h])'
  BY <1>1 DEF JobOK
<1>3. QED BY <1>2 DEF TalkInv, TalkOK

\* ... and what is known of the sent messages.
LEMMA SentStay ==
  ASSUME TalkInv, \A g \in Handlers : Goes(job[g], job'[g]), UNCHANGED <<rows, news>>
  PROVE  SentInv' /\ StatusIsOrderFree'
<1>1. SentInv'
  BY DEF TalkInv, SentInv, Goes
<1>2. StatusIsOrderFree'
  BY DEF TalkInv, StatusIsOrderFree
<1>3. QED BY <1>1, <1>2

\* A step of jobs, of the conversation and of errors.
LEMMA JobsGo ==
  ASSUME TalkInv, \A g \in Handlers : Goes(job[g], job'[g]), job' = [g \in Handlers |-> job'[g]],
         conv' \in [status : {"open", "handoff", "closed"}, paused : BOOLEAN],
         HumanInv',
         UNCHANGED <<kept, voices, overlapped, rows, news>>, broken \subseteq broken', broken' \subseteq Messages
  PROVE  TalkInv'
<1>1. SentInv' /\ StatusIsOrderFree'
  BY SentStay
<1>2. TalkOK'
  BY TypesStay
<1>3. \A m \in Messages \ (overlapped' \cup broken') : VoiceInv(m)'
  BY VoicesStay
<1>4. QED BY <1>1, <1>2, <1>3 DEF TalkInv

\* When one handler steps, the others keep their jobs.
LEMMA OneGoes ==
  ASSUME TalkInv, NEW h \in Handlers, NEW j, Become(h, j)
  PROVE  /\ job' = [g \in Handlers |-> job'[g]] /\ job'[h] = j
         /\ \A g \in Handlers : g # h => job'[g] = job[g]
         /\ \A g \in Handlers : JobOK(job[g]) /\ Whole(job[g])
<1>1. job = [g \in Handlers |-> job[g]]
  BY DEF TalkInv, TalkOK
<1>2. \A g \in Handlers : JobOK(job[g]) /\ Whole(job[g])
  BY DEF TalkInv, TalkOK, JobOK, Whole, Job
<1>3. QED BY <1>1, <1>2 DEF Become

\* One handler steps: the conversation may pass to a person, errors may be met.
LEMMA OneJobGoes ==
  ASSUME TalkInv, NEW h \in Handlers, NEW j, Become(h, j), Goes(job[h], j), j.human => job[h].human,
         conv' \in [status : {"open", "handoff", "closed"}, paused : BOOLEAN], WithHuman(conv) => WithHuman(conv'),
         UNCHANGED <<kept, voices, overlapped, rows, news>>, broken \subseteq broken', broken' \subseteq Messages
  PROVE  TalkInv'
<1>1. job' = [g \in Handlers |-> job'[g]] /\ job'[h] = j /\ \A g \in Handlers : g # h => job'[g] = job[g]
  BY OneGoes
<1>2. \A g \in Handlers : Goes(job[g], job'[g])
  BY <1>1, OneGoes, StaysJob
<1>3. HumanInv'
  BY <1>1 DEF TalkInv, HumanInv
<1>4. QED BY <1>1, <1>2, <1>3, JobsGo

\* The handlers' steps, one by one.
LEMMA ContactStep == ASSUME TalkInv, NEW h \in Handlers, Contact(h) PROVE TalkInv'
<1>1. PICK to \in {"confirm", "flow"} : Become(h, [job[h] EXCEPT !.at = to])
  BY DEF Contact, MoveOn
<1>2. job[h].at = "contact" /\ JobOK(job[h]) /\ Whole(job[h])
  BY <1>1, OneGoes DEF Contact
<1>3. Goes(job[h], [job[h] EXCEPT !.at = to]) /\ [job[h] EXCEPT !.at = to].human = job[h].human
  BY <1>2, JobFields DEF Goes, JobOK
<1>4. broken \subseteq broken' /\ broken' \subseteq Messages
  BY <1>2 DEF Contact, TalkInv, TalkOK, JobOK
<1>5. conv' = conv /\ conv \in [status : {"open", "handoff", "closed"}, paused : BOOLEAN] /\ UNCHANGED <<kept, voices, overlapped, rows, news>>
  BY DEF Contact, TalkInv, TalkOK, book
<1>6. QED BY <1>1, <1>3, <1>4, <1>5, OneJobGoes

\* Nothing but the jobs, and what no invariant speaks of.
Rest == UNCHANGED <<conv, kept, voices, overlapped, rows, news, broken>>
LEMMA OneJobOnly ==
  ASSUME TalkInv, NEW h \in Handlers, NEW j, Become(h, j), Goes(job[h], j), j.human => job[h].human, Rest
  PROVE  TalkInv'
<1>1. conv' \in [status : {"open", "handoff", "closed"}, paused : BOOLEAN] /\ (WithHuman(conv) => WithHuman(conv'))
      /\ broken \subseteq broken' /\ broken' \subseteq Messages
  BY DEF TalkInv, TalkOK, Rest
<1>2. QED BY <1>1, OneJobGoes DEF Rest

LEMMA ConfirmStep == ASSUME TalkInv, NEW h \in Handlers, Confirm(h) PROVE TalkInv'
<1> DEFINE j == IF Sender = Nowhere THEN Idle ELSE [job[h] EXCEPT !.at = "send", !.kind = "opt"]
<1>1. Become(h, j) /\ Rest /\ job[h].at = "confirm"
  BY DEF Confirm, Rest, book, traces
<1>2. JobOK(job[h]) /\ Whole(job[h])
  BY <1>1, OneGoes
<1>3. Goes(job[h], j) /\ (j.human => job[h].human)
  <2>1. CASE Sender = Nowhere
    BY <2>1, IdleJob DEF Idle
  <2>2. CASE Sender # Nowhere
    BY <1>1, <1>2, <2>2 DEF Goes, JobOK, Whole, Job
  <2>3. QED BY <2>1, <2>2
<1>4. QED BY <1>1, <1>3, OneJobOnly

LEMMA FlowStep == ASSUME TalkInv, NEW h \in Handlers, Flow(h) PROVE TalkInv'
<1>1. Rest /\ job[h].at = "flow"
  BY DEF Flow, Rest, book, traces
<1> DEFINE d == DecideFlow(Flows, EnabledFlows, session, What[job[h].m])
           place == IF d.send = <<>> THEN "save" ELSE "send"
           step == [job[h] EXCEPT !.at = place, !.kind = "flow", !.step = d, !.todo = d.send]
<1>a. Become(h, [job[h] EXCEPT !.at = "agent"]) \/ (~WithHuman(conv) /\ Become(h, step))
  BY DEF Flow, MoveOn
<1> HIDE DEF d
<1>b. place \in {"save", "send"}
  OBVIOUS
<1>2. PICK j : Become(h, j) /\ (j = [job[h] EXCEPT !.at = "agent"] \/ (~WithHuman(conv) /\ j = step))
  BY <1>a
<1>3. JobOK(job[h]) /\ Whole(job[h])
  BY <1>2, OneGoes
<1>4. Goes(job[h], j) /\ (j.human => job[h].human)
  <2>1. CASE j = [job[h] EXCEPT !.at = "agent"]
    BY <1>1, <1>3, <2>1 DEF Goes, JobOK, Whole, Job
  <2>2. CASE ~WithHuman(conv) /\ j = step
    <3>1. ~job[h].human
      BY <2>2 DEF TalkInv, HumanInv
    <3> HIDE DEF place
    <3>2. QED BY <1>1, <1>3, <1>b, <2>2, <3>1 DEF Goes, JobOK, Whole, Job
  <2>3. QED BY <1>2, <2>1, <2>2
<1>5. QED BY <1>1, <1>2, <1>4, OneJobOnly

\* The conversation changes hands: no handler goes on believing otherwise.
LEMMA HumanGoes ==
  ASSUME TalkInv, NEW jobs, NEW c \in [status : {"open", "handoff", "closed"}, paused : BOOLEAN],
         \A g \in Handlers : jobs[g] = job[g] \/ jobs[g] = Idle,
         conv' = c, job' = HumanLeaves(jobs, c), UNCHANGED <<kept, voices, overlapped, rows, news, broken>>
  PROVE  TalkInv'
<1>1. job' = [g \in Handlers |-> job'[g]] /\ \A g \in Handlers : job'[g] = [jobs[g] EXCEPT !.human = @ /\ WithHuman(c)]
  BY DEF HumanLeaves
<1>2. ASSUME NEW g \in Handlers PROVE Goes(job[g], job'[g]) /\ (job'[g].human => WithHuman(c))
  <2>1. JobOK(job[g]) /\ Whole(job[g]) /\ JobOK(Idle) /\ Whole(Idle)
    BY DEF TalkInv, TalkOK, JobOK, Whole, Job, Idle
  <2>2. PICK b \in BOOLEAN : b = WithHuman(c)
    BY DEF WithHuman
  <2>3. CASE jobs[g] = job[g]
    <3>1. job'[g] = [job[g] EXCEPT !.human = job[g].human /\ b]
      BY <1>1, <2>2, <2>3
    <3>2. job[g].human \in BOOLEAN
      BY <2>1 DEF JobOK
    <3>3. QED BY <2>1, <2>2, <3>1, <3>2, JobFields DEF Goes, JobOK
  <2>4. CASE jobs[g] = Idle
    <3>1. job'[g] = Idle
      <4>0. Idle.human = FALSE
        BY DEF Idle
      <4>1. Idle.human = FALSE /\ Idle = [Idle EXCEPT !.human = FALSE]
        BY <4>0, <2>1, JobFields DEF Whole, Job
      <4>2. job'[g] = [Idle EXCEPT !.human = Idle.human /\ b]
        BY <1>1, <2>2, <2>4
      <4>3. (Idle.human /\ b) = FALSE
        BY <4>1
      <4>4. QED BY <4>1, <4>2, <4>3
    <3>2. ~job'[g].human
      BY <3>1 DEF Idle
    <3>3. Goes(job[g], Idle)
      BY IdleJob
    <3>4. QED BY <3>1, <3>2, <3>3
  <2>5. QED BY <2>3, <2>4
<1>3. HumanInv'
  BY <1>2 DEF HumanInv
<1>4. broken \subseteq broken' /\ broken' \subseteq Messages
  BY DEF TalkInv, TalkOK
<1>5. QED BY <1>1, <1>2, <1>3, <1>4, JobsGo

LEMMA AgentStep == ASSUME TalkInv, NEW h \in Handlers, Agent(h) PROVE TalkInv'
<1> DEFINE opened == [conv EXCEPT !.status = IF @ = "closed" THEN "open" ELSE @]
<1>1. job[h].at = "agent" /\ UNCHANGED <<kept, voices, overlapped, rows, news, broken>>
  BY DEF Agent, book, traces
<1>2. broken \subseteq broken' /\ broken' \subseteq Messages
  BY <1>1 DEF TalkInv, TalkOK
<1>3. opened \in [status : {"open", "handoff", "closed"}, paused : BOOLEAN] /\ WithHuman(opened) = WithHuman(conv)
      /\ [opened EXCEPT !.status = "handoff"] \in [status : {"open", "handoff", "closed"}, paused : BOOLEAN]
      /\ WithHuman([opened EXCEPT !.status = "handoff"])
  BY DEF TalkInv, TalkOK, WithHuman
<1>4. CASE LeaveToHuman(conv)
  <2>1. conv' = opened /\ job' = HumanLeaves([job EXCEPT ![h] = Idle], opened)
    BY <1>4 DEF Agent, SetConv
  <2>2. \A g \in Handlers : [job EXCEPT ![h] = Idle][g] = job[g] \/ [job EXCEPT ![h] = Idle][g] = Idle
    BY DEF TalkInv, TalkOK
  <2>3. QED BY <1>1, <1>3, <2>1, <2>2, HumanGoes
<1>5. CASE ~LeaveToHuman(conv)
  <2>1. PICK j : Become(h, j) /\ (j = Idle \/ \E place \in {"bot", "think"} : j = [job[h] EXCEPT !.at = place])
    BY <1>5 DEF Agent, MoveOn
  <2>2. conv' \in [status : {"open", "handoff", "closed"}, paused : BOOLEAN] /\ (WithHuman(conv) => WithHuman(conv'))
    BY <1>3, <1>5 DEF Agent, SetConv
  <2>3. JobOK(job[h]) /\ Whole(job[h]) /\ ~job[h].human
    BY <2>1, <1>5, OneGoes DEF TalkInv, HumanInv, LeaveToHuman
  <2>4. Goes(job[h], j) /\ (j.human => job[h].human)
    BY <1>1, <2>1, <2>3, IdleJob, JobFields DEF Goes, JobOK, Idle
  <2>5. QED BY <1>1, <1>2, <2>1, <2>2, <2>4, OneJobGoes
<1>6. QED BY <1>4, <1>5

LEMMA ThinkStep == ASSUME TalkInv, NEW h \in Handlers, Think(h) PROVE TalkInv'
<1>1. Rest /\ job[h].at = "think"
  BY DEF Think, Rest, book, traces
<1>2. PICK j : Become(h, j) /\ \/ j = [job[h] EXCEPT !.at = "bot"]
                               \/ \E f \in BOOLEAN, place \in {"end", "send"} : j = [job[h] EXCEPT !.kind = "ai", !.handoff = f, !.at = place]
  <2>1. CASE MoveOn(h, "bot")
    BY <2>1 DEF MoveOn
  <2>2. ASSUME NEW f \in BOOLEAN, NEW silent \in BOOLEAN,
               Become(h, [job[h] EXCEPT !.kind = "ai", !.handoff = f, !.at = IF silent THEN "end" ELSE "send"])
        PROVE  \E place \in {"end", "send"} : Become(h, [job[h] EXCEPT !.kind = "ai", !.handoff = f, !.at = place])
    BY <2>2
  <2>3. QED BY <2>1, <2>2 DEF Think
<1>3. JobOK(job[h]) /\ Whole(job[h])
  BY <1>2, OneGoes
<1>4. Goes(job[h], j) /\ (j.human => job[h].human)
  <2>1. CASE j = [job[h] EXCEPT !.at = "bot"]
    BY <1>1, <1>3, <2>1 DEF Goes, JobOK, Whole, Job
  <2>2. ASSUME NEW f \in BOOLEAN, NEW place \in {"end", "send"}, j = [job[h] EXCEPT !.kind = "ai", !.handoff = f, !.at = place]
        PROVE  Goes(job[h], j) /\ (j.human => job[h].human)
    BY <1>1, <1>3, <2>2 DEF Goes, JobOK, Whole, Job
  <2>3. QED BY <1>2, <2>1, <2>2
<1>5. QED BY <1>1, <1>2, <1>4, OneJobOnly

LEMMA BotStep == ASSUME TalkInv, NEW h \in Handlers, Bot(h) PROVE TalkInv'
<1>1. Rest /\ job[h].at = "bot"
  BY DEF Bot, Rest, book, traces
<1>2. PICK j : Become(h, j) /\ (j = Idle \/ \E kind \in {"bot", "bot-fallback"} : j = [job[h] EXCEPT !.at = "send", !.kind = kind])
  BY DEF Bot
<1>3. JobOK(job[h]) /\ Whole(job[h])
  BY <1>2, OneGoes
<1>4. Goes(job[h], j) /\ (j.human => job[h].human)
  <2>1. CASE j = Idle
    BY <2>1, IdleJob DEF Idle
  <2>2. CASE j # Idle
    BY <1>1, <1>2, <1>3, <2>2 DEF Goes, JobOK, Whole, Job
  <2>3. QED BY <2>1, <2>2
<1>5. QED BY <1>1, <1>2, <1>4, OneJobOnly

LEMMA FlowSaveStep == ASSUME TalkInv, NEW h \in Handlers, FlowSave(h) PROVE TalkInv'
<1>1. Rest /\ job[h].at = "save" /\ Become(h, [job[h] EXCEPT !.at = "end"])
  BY DEF FlowSave, Rest, book, traces, MoveOn
<1>2. JobOK(job[h]) /\ Whole(job[h])
  BY <1>1, OneGoes
<1>3. Goes(job[h], [job[h] EXCEPT !.at = "end"]) /\ [job[h] EXCEPT !.at = "end"].human = job[h].human
  BY <1>1, <1>2, JobFields DEF Goes, JobOK
<1>4. QED BY <1>1, <1>3, OneJobOnly

\* The flow's last step and the agent's set the status.
LEMMA FlowEndStep == ASSUME TalkInv, NEW h \in Handlers, FlowEnd(h) PROVE TalkInv'
<1> DEFINE c == [conv EXCEPT !.status = IF job[h].step.handoff THEN "handoff" ELSE IF @ = "closed" THEN "open" ELSE @]
<1>1. conv' = c /\ job' = HumanLeaves([job EXCEPT ![h] = Idle], c) /\ UNCHANGED <<kept, voices, overlapped, rows, news, broken>>
  BY DEF FlowEnd, SetConv, book, traces
<1>2. \A g \in Handlers : [job EXCEPT ![h] = Idle][g] = job[g] \/ [job EXCEPT ![h] = Idle][g] = Idle
  BY DEF TalkInv, TalkOK
<1>3. c \in [status : {"open", "handoff", "closed"}, paused : BOOLEAN]
  BY DEF TalkInv, TalkOK
<1>4. QED BY <1>1, <1>2, <1>3, HumanGoes

LEMMA AgentEndStep == ASSUME TalkInv, NEW h \in Handlers, AgentEnd(h) PROVE TalkInv'
<1>1. conv' \in [status : {"open", "handoff", "closed"}, paused : BOOLEAN] /\ (WithHuman(conv) => WithHuman(conv'))
  BY DEF AgentEnd, SetConv, TalkInv, TalkOK, WithHuman
<1>2. Become(h, Idle) /\ UNCHANGED <<kept, voices, overlapped, rows, news, broken>>
  BY DEF AgentEnd, book, traces
<1>3. Goes(job[h], Idle)
  BY IdleJob
<1>4. broken \subseteq broken' /\ broken' \subseteq Messages /\ ~Idle.human
  BY <1>2 DEF TalkInv, TalkOK, Idle
<1>5. QED BY <1>1, <1>2, <1>3, <1>4, OneJobGoes

\* An error marks the message; a restart marks those of all handlers.
LEMMA FailsStep == ASSUME TalkInv, NEW h \in Handlers, Fails(h) PROVE TalkInv'
<1> DEFINE toAgent == [Idle EXCEPT !.at = "agent", !.m = job[h].m, !.human = job[h].human]
           toBot == [Idle EXCEPT !.at = "bot", !.m = job[h].m, !.human = job[h].human, !.blind = TRUE]
<1>1. UNCHANGED <<conv, kept, voices, overlapped, rows, news>> /\ broken' = broken \cup {job[h].m}
  BY DEF Fails, book
<1>2. PICK j : Become(h, j) /\ (j = toAgent \/ j = toBot \/ j = Idle)
  BY DEF Fails
<1>3. JobOK(job[h]) /\ Whole(job[h]) /\ job[h].at # "idle"
  BY <1>2, OneGoes DEF Fails, TalkInv, TalkOK
<1>4. broken \subseteq broken' /\ broken' \subseteq Messages
  BY <1>1, <1>3 DEF TalkInv, TalkOK, JobOK
<1>5. Goes(job[h], j) /\ (j.human => job[h].human)
  <2>1. CASE j = Idle
    BY <2>1, IdleJob DEF Idle
  <2>2. CASE j = toAgent
    BY <1>1, <1>3, <2>2 DEF Goes, JobOK, Whole, Job, Idle
  <2>3. CASE j = toBot
    BY <1>1, <1>3, <2>3 DEF Goes, JobOK, Whole, Job, Idle
  <2>4. QED BY <1>2, <2>1, <2>2, <2>3
<1>6. conv' \in [status : {"open", "handoff", "closed"}, paused : BOOLEAN] /\ (WithHuman(conv) => WithHuman(conv'))
  BY <1>1 DEF TalkInv, TalkOK
<1>7. QED BY <1>1, <1>2, <1>4, <1>5, <1>6, OneJobGoes

LEMMA RestartStep == ASSUME TalkInv, Restart PROVE TalkInv'
<1>1. UNCHANGED <<conv, kept, voices, overlapped, rows, news>> /\ job' = [g \in Handlers |-> Idle]
  BY DEF Restart, book
<1>2. broken \subseteq broken' /\ broken' \subseteq Messages
  BY DEF Restart, TalkInv, TalkOK, JobOK
<1>3. \A g \in Handlers : Goes(job[g], job'[g])
  BY <1>1, IdleJob
<1>4. HumanInv'
  BY <1>1 DEF HumanInv, Idle
<1>5. conv' \in [status : {"open", "handoff", "closed"}, paused : BOOLEAN] /\ job' = [g \in Handlers |-> job'[g]]
  BY <1>1 DEF TalkInv, TalkOK
<1>6. QED BY <1>1, <1>2, <1>3, <1>4, <1>5, JobsGo

\* A message that is taken twice before it is recorded is overlapped; any other has no handler yet.
LEMMA ReceiveStep == ASSUME TalkInv, NEW h \in Handlers, NEW m \in Messages, Receive(h, m) PROVE TalkInv'
<1> DEFINE new == [Idle EXCEPT !.at = "record", !.m = m, !.human = WithHuman(conv)]
<1>1. UNCHANGED <<conv, kept, voices, rows, news, broken>> /\ job[h].at = "idle" /\ m \notin kept
  BY DEF Receive, book, Fresh
<1>2. job' = [g \in Handlers |-> job'[g]] /\ job'[h] = new /\ \A g \in Handlers : g # h => job'[g] = job[g]
  BY OneGoes DEF Receive
<1>3. \A g \in Handlers : JobOK(job[g])
  BY DEF TalkInv, TalkOK
<1>4. WithHuman(conv) \in BOOLEAN
  BY DEF WithHuman
<1>5. JobOK(new) /\ new.m = m /\ new.at = "record" /\ new.out = Nowhere /\ ~new.spoke /\ new.human = WithHuman(conv)
  <2>1. PICK b \in BOOLEAN : b = WithHuman(conv)
    BY <1>4
  <2>2. new = [Idle EXCEPT !.at = "record", !.m = m, !.human = b]
    BY <2>1
  <2>3. new = Job("record", m, Idle.kind, Idle.step, Idle.todo, Idle.out, Idle.ok, Idle.spoke, Idle.handoff, b, Idle.blind)
    <3>1. Whole(Idle)
      BY DEF Whole, Job, Idle
    <3>2. QED BY <2>2, <3>1, NewFields
  <2>4. /\ Idle.kind = "none" /\ Idle.out = Nowhere
        /\ ~Idle.spoke /\ Idle.spoke \in BOOLEAN /\ Idle.blind \in BOOLEAN
    BY DEF Idle
  <2>5. JobOK(new)
    BY <2>3, <2>4 DEF JobOK, Job
  <2>6. QED BY <2>1, <2>3, <2>4, <2>5 DEF Job
<1> HIDE DEF new
<1>6. overlapped \subseteq overlapped' /\ overlapped' \subseteq Messages
      /\ (m \notin overlapped' => \A g \in Handlers : ~(job[g].at = "record" /\ job[g].m = m))
  BY DEF Receive, TalkInv, TalkOK
<1>7. TalkOK'
  <2>1. \A g \in Handlers : JobOK(job'[g])
    BY <1>2, <1>3, <1>5
  <2>2. \A g \in Handlers : JobOK(job[g])'
    BY <2>1 DEF JobOK
  <2>3. QED BY <1>1, <1>2, <1>6, <2>2 DEF TalkInv, TalkOK
<1>8. HumanInv'
  BY <1>1, <1>2, <1>5 DEF TalkInv, HumanInv
<1>9. SentInv' /\ StatusIsOrderFree'
  BY <1>1, <1>2, <1>5 DEF TalkInv, SentInv, StatusIsOrderFree
<1>10. ASSUME NEW n \in Messages \ (overlapped' \cup broken') PROVE VoiceInv(n)'
  <2>1. VoiceInv(n)
    BY <1>1, <1>6 DEF TalkInv
  <2>2. CASE n # m
    BY <1>1, <1>2, <1>5, <2>1, <2>2 DEF VoiceInv
  <2>3. CASE n = m
    <3>1. voices[m] = 0 /\ \A g \in Handlers : job[g].m # m
      BY <1>1, <1>6, <2>1, <2>3 DEF VoiceInv
    <3>2. QED BY <1>1, <1>2, <1>5, <2>3, <3>1 DEF VoiceInv
  <2>4. QED BY <2>2, <2>3
<1>11. QED BY <1>7, <1>8, <1>9, <1>10 DEF TalkInv

\* Once recorded, a message is not taken again.
LEMMA RecordStep == ASSUME TalkInv, NEW h \in Handlers, Record(h) PROVE TalkInv'
<1> DEFINE j == [job[h] EXCEPT !.at = "contact"]
<1>1. Become(h, j) /\ job[h].at = "record" /\ UNCHANGED <<conv, rows, news, voices, overlapped>>
  BY DEF Record, MoveOn
<1>2. job' = [g \in Handlers |-> job'[g]] /\ job'[h] = j /\ \A g \in Handlers : g # h => job'[g] = job[g]
  BY <1>1, OneGoes
<1>3. \A g \in Handlers : JobOK(job[g]) /\ Whole(job[g])
  BY <1>1, OneGoes
<1>4. JobOK(j) /\ j.at = "contact" /\ j.m = job[h].m /\ j.out = Nowhere /\ job[h].out = Nowhere /\ j.spoke = job[h].spoke /\ j.human = job[h].human
  <2>1. JobOK(job[h]) /\ Whole(job[h])
    BY <1>3
  <2>2. job[h].out = Nowhere
    BY <1>1, <2>1 DEF JobOK
  <2>3. QED BY <1>1, <2>1, <2>2, JobFields DEF JobOK
<1>5. job[h].m \in Messages
  BY <1>1, <1>3 DEF JobOK
<1> HIDE DEF j
<1>6. CASE broken' = broken \cup {job[h].m} /\ kept' = kept
  <2>1. Goes(job[h], j)
    BY <1>4, <1>6 DEF Goes
  <2>2. broken \subseteq broken' /\ broken' \subseteq Messages /\ conv' \in [status : {"open", "handoff", "closed"}, paused : BOOLEAN] /\ (WithHuman(conv) => WithHuman(conv'))
    BY <1>1, <1>5, <1>6 DEF TalkInv, TalkOK
  <2>3. QED BY <1>1, <1>4, <1>6, <2>1, <2>2, OneJobGoes
<1>7. CASE broken' = broken /\ kept' = kept \cup {job[h].m}
  <2>1. TalkOK'
    <3>1. \A g \in Handlers : JobOK(job'[g])
      BY <1>2, <1>3, <1>4
    <3>2. \A g \in Handlers : JobOK(job[g])'
      BY <3>1 DEF JobOK
    <3>3. QED BY <1>1, <1>2, <1>5, <1>7, <3>2 DEF TalkInv, TalkOK
  <2>2. HumanInv'
    BY <1>1, <1>2, <1>4 DEF TalkInv, HumanInv
  <2>3. SentInv' /\ StatusIsOrderFree'
    BY <1>1, <1>2, <1>4 DEF TalkInv, SentInv, StatusIsOrderFree
  <2>4. ASSUME NEW n \in Messages \ (overlapped' \cup broken') PROVE VoiceInv(n)'
    <3>1. VoiceInv(n)
      BY <1>1, <1>7 DEF TalkInv
    <3>2. QED BY <1>1, <1>2, <1>4, <1>7, <3>1 DEF VoiceInv
  <2>5. QED BY <2>1, <2>2, <2>3, <2>4 DEF TalkInv
<1>8. QED BY <1>6, <1>7 DEF Record

\* The only handler of the message speaks, for the first time or again for the same layer.
LEMMA SendAnswerStep == ASSUME TalkInv, NEW h \in Handlers, SendAnswer(h) PROVE TalkInv'
<1>1. job[h].at = "send" /\ UNCHANGED <<conv, kept, rows, news, overlapped, broken>>
      /\ voices' = IF job[h].spoke \/ job[h].kind = "opt" THEN voices ELSE [voices EXCEPT ![job[h].m] = @ + 1]
  BY DEF SendAnswer, book
<1>2. PICK good \in BOOLEAN, o \in OutIds \cup {Nowhere} :
        /\ o # Nowhere => rows[o] = "none" /\ \A g \in Handlers : job[g].out # o
        /\ Become(h, [job[h] EXCEPT !.at = "log", !.ok = good, !.out = o, !.spoke = TRUE])
  BY DEF SendAnswer
<1> DEFINE j == [job[h] EXCEPT !.at = "log", !.ok = good, !.out = o, !.spoke = TRUE]
<1>3. job' = [g \in Handlers |-> job'[g]] /\ job'[h] = j /\ \A g \in Handlers : g # h => job'[g] = job[g]
  BY <1>2, OneGoes
<1>4. \A g \in Handlers : JobOK(job[g]) /\ Whole(job[g])
  BY <1>2, OneGoes
<1>5. JobOK(j) /\ j.at = "log" /\ j.m = job[h].m /\ j.out = o /\ j.spoke /\ j.human = job[h].human
  <2>1. JobOK(job[h]) /\ Whole(job[h])
    BY <1>4
  <2>2. j = Job("log", job[h].m, job[h].kind, job[h].step, job[h].todo, o, good, TRUE, job[h].handoff, job[h].human, job[h].blind)
    BY <2>1, SentFields
  <2>3. QED BY <1>1, <2>1, <2>2 DEF JobOK, Job
<1>6. job[h].m \in Messages /\ job[h].out = Nowhere
  BY <1>1, <1>4 DEF JobOK
<1> HIDE DEF j
<1>7. TalkOK'
  <2>1. \A g \in Handlers : JobOK(job'[g])
    BY <1>3, <1>4, <1>5
  <2>2. \A g \in Handlers : JobOK(job[g])'
    BY <2>1 DEF JobOK
  <2>3. voices' \in [Messages -> Nat]
    BY <1>1, <1>6 DEF TalkInv, TalkOK
  <2>4. QED BY <1>1, <1>3, <2>2, <2>3 DEF TalkInv, TalkOK
<1>8. HumanInv'
  BY <1>1, <1>3, <1>5 DEF TalkInv, HumanInv
<1>9. SentInv' /\ StatusIsOrderFree'
  <2>1. SentInv'
    BY <1>1, <1>2, <1>3, <1>5, <1>6 DEF TalkInv, SentInv
  <2>2. StatusIsOrderFree'
    BY <1>1 DEF TalkInv, StatusIsOrderFree
  <2>3. QED BY <2>1, <2>2
<1>10. ASSUME NEW n \in Messages \ (overlapped' \cup broken') PROVE VoiceInv(n)'
  <2>1. VoiceInv(n)
    BY <1>1 DEF TalkInv
  <2>2. CASE n # job[h].m
    <3>1. voices'[n] = voices[n]
      BY <1>1, <2>2 DEF TalkInv, TalkOK
    <3>2. QED BY <1>1, <1>3, <1>5, <2>1, <2>2, <3>1 DEF VoiceInv
  <2>3. CASE n = job[h].m
    <3>1. n \in kept /\ \A g \in Handlers : job[g].m = n => g = h
      BY <1>1, <2>1, <2>3 DEF VoiceInv
    <3>2. voices'[n] <= 1
      BY <1>1, <2>1, <2>3 DEF TalkInv, TalkOK, VoiceInv
    <3>3. QED BY <1>1, <1>3, <1>5, <2>3, <3>1, <3>2 DEF VoiceInv
  <2>4. QED BY <2>2, <2>3
<1>11. QED BY <1>7, <1>8, <1>9, <1>10 DEF TalkInv

\* The row is written: Meta has not reported on it yet.
LEMMA LogStep == ASSUME TalkInv, NEW h \in Handlers, Log(h) PROVE TalkInv'
<1> DEFINE j == AfterLog(job[h])
<1>1. Become(h, j) /\ job[h].at = "log" /\ UNCHANGED <<conv, kept, news, voices, overlapped, broken>>
      /\ rows' \in {rows, IF job[h].out = Nowhere THEN rows ELSE [rows EXCEPT ![job[h].out] = "sent"]}
  BY DEF Log, traces
<1>2. job' = [g \in Handlers |-> job'[g]] /\ job'[h] = j /\ \A g \in Handlers : g # h => job'[g] = job[g]
  BY <1>1, OneGoes
<1>3. \A g \in Handlers : JobOK(job[g]) /\ Whole(job[g])
  BY <1>1, OneGoes
<1>4. Goes(job[h], j) /\ (j.human => job[h].human) /\ j.out = Nowhere
  <2>1. CASE j = Idle
    <3>1. Goes(job[h], j)
      BY <2>1, IdleJob
    <3>2. QED BY <2>1, <3>1 DEF Idle
  <2>2. CASE j # Idle
    <3> DEFINE rest == IF job[h].todo = <<>> THEN <<>> ELSE Tail(job[h].todo)
               next == [job[h] EXCEPT !.out = Nowhere, !.ok = FALSE, !.todo = rest]
    <3>1. \/ job[h].kind = "flow" /\ (j = [next EXCEPT !.at = "send"] \/ j = [next EXCEPT !.at = "save", !.todo = <<>>])
          \/ job[h].kind = "ai" /\ j = [next EXCEPT !.at = "end"]
      BY <2>2 DEF AfterLog
    <3> HIDE DEF j, rest
    <3>2. JobOK(job[h]) /\ Whole(job[h])
      BY <1>3
    <3>3. next = Job(job[h].at, job[h].m, job[h].kind, job[h].step, rest, Nowhere, FALSE, job[h].spoke, job[h].handoff, job[h].human, job[h].blind)
      <4>1. Whole(job[h])
        BY <3>2
      <4>2. \A x, y, z : [job[h] EXCEPT !.out = x, !.ok = y, !.todo = z]
                = Job(job[h].at, job[h].m, job[h].kind, job[h].step, z, x, y, job[h].spoke, job[h].handoff, job[h].human, job[h].blind)
        <5> DEFINE k == job[h]
        <5>1. Whole(k)
          BY <4>1
        <5> HIDE DEF k
        <5>2. \A x, y, z : [k EXCEPT !.out = x, !.ok = y, !.todo = z]
                = Job(k.at, k.m, k.kind, k.step, z, x, y, k.spoke, k.handoff, k.human, k.blind)
          BY ONLY <5>1, LoggedFields
        <5> QED BY <5>2 DEF k
      <4>3. QED BY ONLY <4>2, ZenonT(30)
    <3> HIDE DEF next
    <3>a. Whole(next)
      BY <3>3 DEF Whole, Job
    <3>b. \E place \in {"send", "save", "end"} : \E more :
            j = Job(place, next.m, next.kind, next.step, more, next.out, next.ok, next.spoke, next.handoff, next.human, next.blind)
      <4>1. CASE j = [next EXCEPT !.at = "send"] \/ j = [next EXCEPT !.at = "end"]
        <5>1. PICK place \in {"send", "end"} : j = [next EXCEPT !.at = place]
          BY <4>1
        <5>2. j = Job(place, next.m, next.kind, next.step, next.todo, next.out, next.ok, next.spoke, next.handoff, next.human, next.blind)
          BY <3>a, <5>1, JobFields
        <5>3. QED BY <5>2
      <4>2. CASE j = [next EXCEPT !.at = "save", !.todo = <<>>]
        <5> DEFINE saved == [next EXCEPT !.at = "save"]
        <5>1. saved = Job("save", next.m, next.kind, next.step, next.todo, next.out, next.ok, next.spoke, next.handoff, next.human, next.blind)
          BY <3>a, JobFields
        <5>2. j = [saved EXCEPT !.todo = <<>>]
          BY <4>2
        <5> HIDE DEF saved
        <5>3. Whole(saved)
          BY <5>1 DEF Whole, Job
        <5>4. j = Job(saved.at, saved.m, saved.kind, saved.step, <<>>, saved.out, saved.ok, saved.spoke, saved.handoff, saved.human, saved.blind)
          BY <5>2, <5>3, JobFields
        <5>5. QED BY <5>1, <5>4 DEF Job
      <4>3. QED BY <3>1, <4>1, <4>2
    <3>c. PICK place \in {"send", "save", "end"} : \E more :
            j = Job(place, next.m, next.kind, next.step, more, next.out, next.ok, next.spoke, next.handoff, next.human, next.blind)
      BY <3>b
    <3>4. PICK more :
            j = Job(place, next.m, next.kind, next.step, more, next.out, next.ok, next.spoke, next.handoff, next.human, next.blind)
      BY <3>c
    <3>5. j = Job(place, job[h].m, job[h].kind, job[h].step, more, Nowhere, FALSE, job[h].spoke, job[h].handoff, job[h].human, job[h].blind)
      BY <3>3, <3>4 DEF Job
    <3>6. job[h].kind \in {"flow", "ai"}
      BY <3>1
    <3>7. QED BY <1>1, <3>2, <3>5, <3>6 DEF Goes, JobOK, Job
  <2>3. QED BY <2>1, <2>2
<1> HIDE DEF j
<1>5. \A g \in Handlers : Goes(job[g], job'[g])
  BY <1>2, <1>3, <1>4, StaysJob
<1>6. job[h].out = Nowhere \/ (job[h].out \in OutIds /\ rows[job[h].out] = "none" /\ news[job[h].out] = {})
  BY <1>3 DEF TalkInv, SentInv, JobOK
<1>7. TalkOK'
  <2>1. \A g \in Handlers : JobOK(job'[g])
    BY <1>5 DEF Goes
  <2>2. \A g \in Handlers : JobOK(job[g])'
    BY <2>1 DEF JobOK
  <2>3. rows' \in [OutIds -> SentStatuses]
    BY <1>1 DEF TalkInv, TalkOK, SentStatuses
  <2>4. QED BY <1>1, <1>2, <2>2, <2>3 DEF TalkInv, TalkOK
<1>8. HumanInv'
  BY <1>1, <1>2, <1>4 DEF TalkInv, HumanInv
<1>9. \A m \in Messages \ (overlapped' \cup broken') : VoiceInv(m)'
  BY <1>1, <1>5, VoicesStay
<1>10. CASE rows' = rows
  BY <1>1, <1>5, <1>7, <1>8, <1>9, <1>10, SentStay DEF TalkInv
<1>11. CASE job[h].out # Nowhere /\ rows' = [rows EXCEPT ![job[h].out] = "sent"]
  <2>1. job[h].out \in OutIds /\ rows[job[h].out] = "none" /\ news[job[h].out] = {}
    BY <1>6, <1>11
  <2>2. SentInv'
    BY <1>1, <1>2, <1>4, <1>11, <2>1 DEF TalkInv, SentInv, TalkOK
  <2>3. StatusIsOrderFree'
    BY <1>1, <1>11, <2>1 DEF TalkInv, TalkOK, StatusIsOrderFree, Rank
  <2>4. QED BY <1>7, <1>8, <1>9, <2>2, <2>3 DEF TalkInv
<1>12. QED BY <1>1, <1>10, <1>11

\* News of Meta moves a status forward, or to failed.
LEMMA StatusNewsStep ==
  ASSUME TalkInv, NEW o \in OutIds, NEW s \in SentStatuses \ {"none"}, StatusNews(o, s) PROVE TalkInv'
<1>1. UNCHANGED <<conv, kept, job, voices, overlapped, broken>> /\ rows[o] # "none"
      /\ news' = [news EXCEPT ![o] = @ \cup {s}]
      /\ rows' = IF Moves(rows[o], s) THEN [rows EXCEPT ![o] = s] ELSE rows
  BY DEF StatusNews
<1>2. TalkOK'
  <2>1. \A g \in Handlers : JobOK(job[g])'
    BY <1>1 DEF TalkInv, TalkOK, JobOK
  <2>2. rows' \in [OutIds -> SentStatuses] /\ news' \in [OutIds -> SUBSET SentStatuses]
    BY <1>1 DEF TalkInv, TalkOK
  <2>3. QED BY <1>1, <2>1, <2>2 DEF TalkInv, TalkOK
<1>3. HumanInv' /\ \A m \in Messages \ (overlapped' \cup broken') : VoiceInv(m)'
  BY <1>1 DEF TalkInv, HumanInv, VoiceInv
<1>4. SentInv'
  BY <1>1 DEF TalkInv, TalkOK, SentInv
<1>5. ASSUME NEW p \in OutIds, rows'[p] # "none"
      PROVE  IF "failed" \in news'[p] THEN rows'[p] = "failed"
             ELSE \A t \in news'[p] \cup {"sent"} : Rank(t) <= Rank(rows'[p])
  <2>1. CASE p # o
    BY <1>1, <1>5, <2>1 DEF TalkInv, TalkOK, StatusIsOrderFree
  <2>2. CASE p = o
    <3>1. news'[o] = news[o] \cup {s} /\ rows'[o] = (IF Moves(rows[o], s) THEN s ELSE rows[o]) /\ rows[o] \in SentStatuses /\ news[o] \subseteq SentStatuses
      BY <1>1 DEF TalkInv, TalkOK
    <3>2. IF "failed" \in news[o] THEN rows[o] = "failed" ELSE \A t \in news[o] \cup {"sent"} : Rank(t) <= Rank(rows[o])
      BY <1>1 DEF TalkInv, StatusIsOrderFree
    <3>3. \A t \in SentStatuses : Rank(t) = (IF t = "sent" THEN 1 ELSE IF t = "delivered" THEN 2 ELSE IF t = "read" THEN 3 ELSE 0)
      BY DEF SentStatuses, Rank
    <3>4. CASE "failed" \in news'[o]
      BY <2>2, <3>1, <3>2, <3>4 DEF Moves
    <3>5. CASE "failed" \notin news'[o]
      <4>1. ASSUME NEW t \in news'[o] \cup {"sent"} PROVE Rank(t) <= Rank(rows'[o])
        BY <1>1, <3>1, <3>2, <3>3, <3>5, <4>1 DEF Moves, SentStatuses
      <4>2. QED BY <2>2, <3>5, <4>1
    <3>6. QED BY <3>4, <3>5
  <2>3. QED BY <2>1, <2>2
<1>6. StatusIsOrderFree'
  BY <1>5 DEF StatusIsOrderFree
<1>7. QED BY <1>2, <1>3, <1>4, <1>6 DEF TalkInv

\* What changes neither the jobs nor what was sent, and takes nothing away from a person.
LEMMA TalkSame ==
  ASSUME TalkInv, UNCHANGED <<kept, voices, overlapped, rows, news, broken, job>>,
         conv' \in [status : {"open", "handoff", "closed"}, paused : BOOLEAN], WithHuman(conv) => WithHuman(conv')
  PROVE  TalkInv'
<1>1. \A g \in Handlers : Goes(job[g], job'[g])
  BY StaysJob DEF TalkInv, TalkOK
<1>2. job' = [g \in Handlers |-> job'[g]]
  BY DEF TalkInv, TalkOK
<1>3. HumanInv'
  BY DEF TalkInv, HumanInv
<1>4. broken \subseteq broken' /\ broken' \subseteq Messages
  BY DEF TalkInv, TalkOK
<1>5. QED BY <1>1, <1>2, <1>3, <1>4, JobsGo

\* The team and the clock.
LEMMA PatchStep ==
  ASSUME TalkInv, NEW c \in [status : {"open", "handoff", "closed"}, paused : BOOLEAN], PatchConversation(c)
  PROVE  TalkInv'
  BY HumanGoes DEF PatchConversation, SetConv, MerchantLeaves, book, traces

LEMMA TeamStep == ASSUME TalkInv, Team PROVE TalkInv'
<1>1. CASE HumanReply
  <2>1. conv' \in [status : {"open", "handoff", "closed"}, paused : BOOLEAN] /\ WithHuman(conv')
    BY <1>1 DEF HumanReply, SetConv, TalkInv, TalkOK, WithHuman
  <2>2. UNCHANGED <<kept, voices, overlapped, rows, news, broken, job>>
    BY <1>1 DEF HumanReply, MerchantLeaves, book, traces
  <2>3. QED BY <2>1, <2>2, TalkSame
<1>2. CASE ChangeStatus
  <2>1. PICK s \in {"open", "handoff", "closed"} : PatchConversation([conv EXCEPT !.status = s])
    BY <1>2 DEF ChangeStatus
  <2>2. [conv EXCEPT !.status = s] \in [status : {"open", "handoff", "closed"}, paused : BOOLEAN]
    BY DEF TalkInv, TalkOK
  <2>3. QED BY <2>1, <2>2, PatchStep
<1>3. CASE ResumeAi
  <2>1. [conv EXCEPT !.paused = FALSE, !.status = "open"] \in [status : {"open", "handoff", "closed"}, paused : BOOLEAN]
    BY DEF TalkInv, TalkOK
  <2>2. QED BY <1>3, <2>1, PatchStep DEF ResumeAi
<1>4. CASE AddContact \/ ImportContacts \/ UpdateContact \/ RemoveContact \/ ChangeShop
           \/ \E f \in DOMAIN Flows : ToggleFlow(f) \/ UpdateFlow(f)
  <2>1. UNCHANGED <<kept, voices, overlapped, rows, news, broken, job, conv>>
    BY <1>4 DEF AddContact, ImportContacts, UpdateContact, RemoveContact, ChangeShop, ToggleFlow, UpdateFlow, MerchantLeaves, book, traces
  <2>2. conv' \in [status : {"open", "handoff", "closed"}, paused : BOOLEAN] /\ (WithHuman(conv) => WithHuman(conv'))
    BY <2>1 DEF TalkInv, TalkOK
  <2>3. QED BY <2>1, <2>2, TalkSame
<1>5. QED BY <1>1, <1>2, <1>3, <1>4 DEF Team

LEMMA ClockStep == ASSUME TalkInv, HourPasses \/ HalfDayPasses \/ SessionExpires PROVE TalkInv'
<1>1. CASE HourPasses \/ SessionExpires
  <2>1. UNCHANGED <<kept, voices, overlapped, rows, news, broken, job, conv>>
    BY <1>1 DEF HourPasses, SessionExpires, book, traces
  <2>2. conv' \in [status : {"open", "handoff", "closed"}, paused : BOOLEAN] /\ (WithHuman(conv) => WithHuman(conv'))
    BY <2>1 DEF TalkInv, TalkOK
  <2>3. QED BY <2>1, <2>2, TalkSame
<1>2. CASE HalfDayPasses
  <2>1. conv' \in [status : {"open", "handoff", "closed"}, paused : BOOLEAN]
    BY <1>2 DEF HalfDayPasses, SetConv, TalkInv, TalkOK
  <2>2. UNCHANGED <<kept, voices, overlapped, rows, news, broken>> /\ job' = HumanLeaves(job, conv')
    BY <1>2 DEF HalfDayPasses, traces
  <2>3. QED BY <2>1, <2>2, HumanGoes
<1>3. QED BY <1>1, <1>2

\* Every step keeps the invariant, which the initial states satisfy.
LEMMA TalkStep == ASSUME TalkInv, [TalkNext]_talk PROVE TalkInv'
<1>1. ASSUME NEW h \in Handlers, Webhook(h) PROVE TalkInv'
  BY <1>1, ReceiveStep, RecordStep, ContactStep, ConfirmStep, FlowStep, AgentStep, ThinkStep, BotStep, SendAnswerStep,
     LogStep, FlowSaveStep, FlowEndStep, AgentEndStep, FailsStep DEF Webhook
<1>2. CASE UNCHANGED talk
  <2>1. UNCHANGED <<kept, voices, overlapped, rows, news, broken, job, conv>>
    BY <1>2 DEF talk
  <2>2. conv' \in [status : {"open", "handoff", "closed"}, paused : BOOLEAN] /\ (WithHuman(conv) => WithHuman(conv'))
    BY <2>1 DEF TalkInv, TalkOK
  <2>3. QED BY <2>1, <2>2, TalkSame
<1>3. QED BY <1>1, <1>2, StatusNewsStep, TeamStep, RestartStep, ClockStep DEF TalkNext

LEMMA TalkStart == TalkInit => TalkInv
<1> SUFFICES ASSUME TalkInit PROVE TalkInv
  OBVIOUS
<1> USE DEF TalkInit
<1>1. JobOK(Idle) /\ Idle.m = NoMessage /\ ~Idle.human /\ Idle.out = Nowhere
  BY DEF JobOK, Idle
<1>2. TalkOK
  BY <1>1 DEF TalkOK, OpenTalk, SentStatuses
<1>3. HumanInv /\ SentInv /\ StatusIsOrderFree
  BY <1>1 DEF HumanInv, SentInv, StatusIsOrderFree
<1>4. \A m \in Messages : VoiceInv(m)
  BY <1>1, NothingAssumption DEF VoiceInv
<1>5. QED BY <1>2, <1>3, <1>4 DEF TalkInv

LEMMA TalkHolds == TalkSpec => []TalkInv
<1>1. TalkInit => TalkInv
  BY TalkStart
<1>2. TalkInv /\ [TalkNext]_talk => TalkInv'
  BY TalkStep
<1>3. QED BY <1>1, <1>2, PTL DEF TalkSpec

\* Whatever the order in which Meta's news on a sent message arrives, and however
\* often, its row tells the furthest of them: failed if it failed at all.
THEOREM StatusIsOrderFreeHolds == TalkSpec => []StatusIsOrderFree
<1>1. TalkInv => StatusIsOrderFree
  BY DEF TalkInv
<1>2. QED BY <1>1, TalkHolds, PTL

\* For any number of handlers, messages, flows and numbers: a message that no
\* two requests took at once, and no error met, is answered at most once, by one
\* of the flow, the agent and the bot.
THEOREM AnsweredOnceHolds == TalkSpec => []AnsweredOnce
<1>1. TalkInv => AnsweredOnce
  BY DEF TalkInv, TalkOK, VoiceInv, AnsweredOnce
<1>2. QED BY <1>1, TalkHolds, PTL

\* While a person has the conversation since the message came in, no handler
\* sends an automatic answer to it but the confirmation of STOP and START,
\* unless the agent's own check failed and the bot answers in its place.
THEOREM QuietWithHumanHolds == TalkSpec => []QuietWithHuman
<1>1. TalkInv => QuietWithHuman
  BY DEF TalkInv, TalkOK, JobOK, QuietWithHuman
<1>2. QED BY <1>1, TalkHolds, PTL
=============================================================================
