----------------------------- MODULE SocialProofs -----------------------------
(***************************************************************************)
(* Proofs about what a company has at its social networks.  First the      *)
(* posts, for any servers, jobs and accounts, and any number of edits,     *)
(* retries, refusals and restarts; then the inbox, the rules for comments, *)
(* the boosted posts, the accounts and the WhatsApp templates, each by the *)
(* inductive invariant its module ends with.                               *)
(***************************************************************************)
EXTENDS SocialPosts, SocialInbox, FiniteSetTheorems, SequenceTheorems, TLAPS

\* Every action keeps the variables in their types.
LEMMA TypeStep == ASSUME TypeOK, [Next]_vars PROVE TypeOK'
<1> USE ServersAssumption, AccountsAssumption
    DEF TypeOK, Statuses, Editable, Finished, Places, Publishing, Jobs, row, run, jobs, reached, history
<1>1. ASSUME NEW s \in Servers, Claim(s) PROVE TypeOK'
  <2>1. CASE MayClaim
    BY <1>1, <2>1 DEF Claim, Goto
  <2>2. CASE ~MayClaim
    <3>1. End(s) /\ UNCHANGED <<status, approval, target, jobs, move, agreed, reached, muddled>>
      BY <1>1, <2>2 DEF Claim
    <3>2. todo' \in [Servers -> SUBSET Accounts] /\ cur' \in [Servers -> SUBSET Accounts]
      BY <3>1 DEF End
    <3>3. QED BY <3>1, <3>2 DEF End, Goto
  <2>3. QED BY <2>1, <2>2
<1>2. ASSUME NEW s \in Servers, ReadPost(s) PROVE TypeOK'
  <2>1. Unpublished \in SUBSET Accounts
    BY DEF Unpublished
  <2>2. todo' \in [Servers -> SUBSET Accounts] /\ cur' \in [Servers -> SUBSET Accounts]
    BY <1>2, <2>1 DEF ReadPost, End
  <2>3. ok' \in [Servers -> BOOLEAN] /\ failed' \in [Servers -> BOOLEAN]
    <3>1. (Published # {}) \in BOOLEAN
      OBVIOUS
    <3>2. QED BY <1>2, <3>1 DEF ReadPost, End
  <2>4. pc' \in [Servers -> Places] /\ owner' \subseteq Servers /\ outdated' \subseteq Servers
    BY <1>2 DEF ReadPost, Goto, End
  <2>5. QED BY <1>2, <2>2, <2>3, <2>4 DEF ReadPost, End
<1>3. ASSUME NEW s \in Servers, NEW a \in Accounts, CheckAccount(s, a) PROVE TypeOK'
  <2>1. {a} \in SUBSET Accounts /\ todo[s] \ {a} \in SUBSET Accounts
    OBVIOUS
  <2>2. todo' \in [Servers -> SUBSET Accounts] /\ cur' \in [Servers -> SUBSET Accounts]
    BY <1>3, <2>1 DEF CheckAccount
  <2>3. pc' \in [Servers -> Places] /\ target' \in [Accounts -> {"none", "PENDING", "PUBLISHED", "FAILED"}]
    BY <1>3 DEF CheckAccount, Goto
  <2>4. failed' \in [Servers -> BOOLEAN]
    BY <1>3 DEF CheckAccount
  <2>5. QED BY <1>3, <2>2, <2>3, <2>4 DEF CheckAccount
<1>4. ASSUME NEW s \in Servers, Post(s) PROVE TypeOK'
  BY <1>4, ZenonT(30) DEF Post, Goto, Arrive
<1>5. ASSUME NEW s \in Servers, RecordSent(s) PROVE TypeOK'
  BY <1>5 DEF RecordSent, Goto, SetTargets
<1>6. ASSUME NEW s \in Servers, RecordFailure(s) PROVE TypeOK'
  BY <1>6 DEF RecordFailure, Goto, SetTargets
<1>7. ASSUME NEW s \in Servers, RowGone(s) PROVE TypeOK'
  BY <1>7 DEF RowGone, Goto, End
<1>8. ASSUME NEW s \in Servers, Finish(s) PROVE TypeOK'
  <2>1. status' \in Statuses /\ pc' \in [Servers -> Places]
    BY <1>8 DEF Finish, Goto, End, FinalStatus
  <2>2. muddled' \in BOOLEAN /\ owner' \subseteq Servers /\ outdated' \subseteq Servers
    BY <1>8 DEF Finish, End
  <2>3. todo' \in [Servers -> SUBSET Accounts] /\ cur' \in [Servers -> SUBSET Accounts]
    BY <1>8 DEF Finish, End
  <2>4. ok' \in [Servers -> BOOLEAN] /\ failed' \in [Servers -> BOOLEAN]
    BY <1>8 DEF Finish, End
  <2>5. QED BY <1>8, <2>1, <2>2, <2>3, <2>4 DEF Finish
<1>9. ASSUME NEW s \in Servers, Hook(s) PROVE TypeOK'
  BY <1>9 DEF Hook, Goto, End
<1>10. ASSUME NEW s \in Servers, Break(s) PROVE TypeOK'
  BY <1>10 DEF Break, Stop, Goto, End
<1>11. ASSUME NEW s \in Servers, Crash(s) PROVE TypeOK'
  BY <1>11 DEF Crash, Stop, Goto, End
<1>12. ASSUME NEW s \in Servers, JobLook(s) PROVE TypeOK'
  BY <1>12 DEF JobLook, GotoJob, Published, Unpublished
<1>13. ASSUME NEW s \in Servers, JobTargets(s) PROVE TypeOK'
  BY <1>13 DEF JobTargets, GotoJob, Reset
<1>14. ASSUME NEW s \in Servers, JobPost(s) PROVE TypeOK'
  BY <1>14 DEF JobPost, GotoJob, Published, Unpublished
<1>15. ASSUME NEW s \in Servers, JobFails(s) PROVE TypeOK'
  BY <1>15 DEF JobFails, GotoJob
<1>16. ASSUME NEW s \in Servers, JobList(s) PROVE TypeOK'
  BY <1>16 DEF JobList, GotoJob
<1>17. ASSUME NEW s \in Servers, JobStart(s) PROVE TypeOK'
  BY <1>17 DEF JobStart, GotoJob, StartRun
<1>18. ASSUME NEW s \in Servers, JobDone(s) PROVE TypeOK'
  BY <1>18 DEF JobDone, GotoJob
<1>19. ASSUME NEW s \in Desks, NEW when \in {"draft", "later", "now"}, NEW S \in SUBSET Accounts, Create(s, when, S) PROVE TypeOK'
  BY <1>19 DEF Create, Write, StartRun, Holders
<1>20. ASSUME NEW s \in Desks, NEW when \in {"draft", "later", "now"}, NEW S \in SUBSET Accounts, Update(s, when, S) PROVE TypeOK'
  BY <1>20 DEF Update, Write, StartRun, AskedAgain, Holders
<1>21. ASSUME Remove PROVE TypeOK'
  BY <1>21 DEF Remove, Holders
<1>22. ASSUME NEW s \in Desks, Retry(s) PROVE TypeOK'
  BY <1>22 DEF Retry, RetryFailed, StartRun
<1>23. ASSUME Reschedule PROVE TypeOK'
  BY <1>23 DEF Reschedule
<1>24. ASSUME MoveStatus PROVE TypeOK'
  BY <1>24 DEF MoveStatus
<1>25. ASSUME MoveTargets PROVE TypeOK'
  BY <1>25 DEF MoveTargets, Reset
<1>26. ASSUME NEW value \in {"none", "WAITING"}, SetApproval(value) PROVE TypeOK'
  BY <1>26 DEF SetApproval, Editable
<1>27. ASSUME NEW value \in {"WAITING", "APPROVED"}, Decide(value) PROVE TypeOK'
  BY <1>27 DEF Decide, Editable
<1>28. CASE UNCHANGED vars
  BY <1>28 DEF vars
<1>29. QED
  BY <1>1, <1>2, <1>3, <1>4, <1>5, <1>6, <1>7, <1>8, <1>9, <1>10, <1>11, <1>12, <1>13,
     <1>14, <1>15, <1>16, <1>17, <1>18, <1>19, <1>20, <1>21, <1>22, <1>23, <1>24, <1>25,
     <1>26, <1>27, <1>28 DEF Next, Work, Job, Merchant

\* Every action keeps the inductive invariant.
LEMMA PostInvStep == ASSUME PostInv, TypeOK', [Next]_vars PROVE PostInv'
<1> USE ServersAssumption, AccountsAssumption
    DEF PostInv, TypeOK, Statuses, Editable, Finished, Places, Publishing, Jobs, row, run, jobs, reached, history
<1>1. ASSUME NEW s \in Servers, Claim(s) PROVE PostInv'
  <2>1. Holders' = (IF MayClaim THEN Holders \cup {s} ELSE Holders)
    BY <1>1 DEF Claim, MayClaim, Goto, End, Holders
  <2>2. OwnerInv'
    BY <1>1, <2>1 DEF Claim, MayClaim, Goto, End, OwnerInv
  <2>3. LostInv'
    BY <1>1, <2>1 DEF Claim, MayClaim, Goto, End, LostInv, OwnerInv, Holders
  <2>4. AgreedInv'
    BY <1>1, <2>1 DEF Claim, MayClaim, Goto, End, AgreedInv
  <2>5. ApprovedText'
    BY <1>1, <2>1 DEF Claim, MayClaim, Goto, End, ApprovedText, OwnerInv, AgreedInv,
       MayGoOut
  <2>6. TodoInv'
    BY <1>1, <2>1 DEF Claim, MayClaim, Goto, End, TodoInv, Reads, Sending, LostInv,
       OwnerInv, Published, Unpublished
  <2>7. TellInv'
    BY <1>1, <2>1 DEF Claim, MayClaim, Goto, End, TellInv, TodoInv, Reads, Sending,
       LostInv, OwnerInv, Published, Unpublished
  <2>8. StatusTellsTargets'
    BY <1>1, <2>1 DEF Claim, MayClaim, Goto, End, StatusTellsTargets, TellInv, Reads,
       Sending, LostInv, OwnerInv, Published, Unpublished
  <2>9. OutInv'
    BY <1>1, <2>1 DEF Claim, MayClaim, Goto, End, OutInv, TodoInv, Reads, Sending,
       LostInv, OwnerInv, Unpublished
  <2>10. PublishedOnce'
    BY <1>1, <2>1 DEF Claim, MayClaim, Goto, End, PublishedOnce, OutInv, TodoInv, Reads,
       Sending, LostInv, OwnerInv, Unpublished
  <2>11. QED BY <2>2, <2>3, <2>4, <2>5, <2>6, <2>7, <2>8, <2>9, <2>10
<1>2. ASSUME NEW s \in Servers, ReadPost(s) PROVE PostInv'
  <2>1. Holders' = (IF status = "GONE" THEN Holders \ {s} ELSE Holders)
    BY <1>2 DEF ReadPost, Goto, End, Holders
  <2>2. OwnerInv'
    BY <1>2, <2>1 DEF ReadPost, Goto, End, OwnerInv
  <2>3. LostInv'
    BY <1>2, <2>1 DEF ReadPost, Goto, End, LostInv, OwnerInv, Holders
  <2>4. AgreedInv'
    BY <1>2, <2>1 DEF ReadPost, Goto, End, AgreedInv
  <2>5. ApprovedText'
    BY <1>2, <2>1 DEF ReadPost, Goto, End, ApprovedText, OwnerInv, AgreedInv, MayGoOut
  <2>6. TodoInv'
    BY <1>2, <2>1 DEF ReadPost, Goto, End, TodoInv, Reads, Sending, LostInv, OwnerInv,
       Published, Unpublished
  <2>7. TellInv'
    BY <1>2, <2>1 DEF ReadPost, Goto, End, TellInv, TodoInv, Reads, Sending, LostInv,
       OwnerInv, Published, Unpublished
  <2>8. StatusTellsTargets'
    BY <1>2, <2>1 DEF ReadPost, Goto, End, StatusTellsTargets, TellInv, Reads, Sending,
       LostInv, OwnerInv, Published, Unpublished
  <2>9. OutInv'
    BY <1>2, <2>1 DEF ReadPost, Goto, End, OutInv, TodoInv, Reads, Sending, LostInv,
       OwnerInv, Unpublished
  <2>10. PublishedOnce'
    BY <1>2, <2>1 DEF ReadPost, Goto, End, PublishedOnce, OutInv, TodoInv, Reads,
       Sending, LostInv, OwnerInv, Unpublished
  <2>11. QED BY <2>2, <2>3, <2>4, <2>5, <2>6, <2>7, <2>8, <2>9, <2>10
<1>3. ASSUME NEW s \in Servers, NEW a \in Accounts, CheckAccount(s, a) PROVE PostInv'
  <2>1. Holders' = Holders
    BY <1>3 DEF CheckAccount, Goto, Holders
  <2>2. CASE Goto(s, "send")
    <3>1. Published' = Published /\ Unpublished' = Unpublished
      BY <1>3, <2>2 DEF CheckAccount, Goto, Published, Unpublished
    <3>b. \A b \in Unpublished : target[b] # "PUBLISHED" /\ b \notin Published
      BY DEF Published, Unpublished
    <3>a. ~muddled => owner = {s} /\ status = "PUBLISHING"
      BY <1>3 DEF CheckAccount, OwnerInv, LostInv, Holders
    <3>2. OwnerInv'
      BY <1>3, <2>2, <2>1, <3>b, <3>1, <3>a DEF CheckAccount, Goto, OwnerInv
    <3>3. LostInv'
      BY <1>3, <2>2, <2>1, <3>b, <3>1, <3>a DEF CheckAccount, Goto, LostInv, OwnerInv,
         Holders
    <3>4. AgreedInv'
      BY <1>3, <2>2, <2>1, <3>b, <3>1, <3>a DEF CheckAccount, Goto, AgreedInv
    <3>5. ApprovedText'
      BY <1>3, <2>2, <2>1, <3>b, <3>1, <3>a DEF CheckAccount, Goto, ApprovedText,
         OwnerInv, AgreedInv, MayGoOut
    <3>6. TodoInv'
      BY <1>3, <2>2, <2>1, <3>b, <3>1, <3>a, SMTT(30) DEF CheckAccount, Goto, TodoInv, Reads,
         Sending
    <3>7. TellInv'
      BY <1>3, <2>2, <2>1, <3>b, <3>1, <3>a DEF CheckAccount, Goto, TellInv, TodoInv,
         Reads, Sending
    <3>8. StatusTellsTargets'
      BY <1>3, <2>2, <2>1, <3>b, <3>1, <3>a DEF CheckAccount, Goto, StatusTellsTargets,
         TellInv, Reads, Sending
    <3>9. OutInv'
      BY <1>3, <2>2, <2>1, <3>b, <3>1, <3>a DEF CheckAccount, Goto, OutInv, TodoInv,
         Reads, Sending
    <3>10. PublishedOnce'
      BY <1>3, <2>2, <2>1, <3>b, <3>1, <3>a DEF CheckAccount, Goto, PublishedOnce,
         OutInv, TodoInv, Reads, Sending
    <3>11. QED BY <3>2, <3>3, <3>4, <3>5, <3>6, <3>7, <3>8, <3>9, <3>10
  <2>3. CASE ~Goto(s, "send")
    <3>1. Published' = Published \ {a} /\ Unpublished' = Unpublished \cup {a}
      BY <1>3, <2>3 DEF CheckAccount, Goto, Published, Unpublished
    <3>b. \A b \in Unpublished : target[b] # "PUBLISHED" /\ b \notin Published
      BY DEF Published, Unpublished
    <3>a. ~muddled => owner = {s} /\ status = "PUBLISHING"
      BY <1>3 DEF CheckAccount, OwnerInv, LostInv, Holders
    <3>2. OwnerInv'
      BY <1>3, <2>3, <2>1, <3>b, <3>1, <3>a DEF CheckAccount, Goto, OwnerInv
    <3>3. LostInv'
      BY <1>3, <2>3, <2>1, <3>b, <3>1, <3>a DEF CheckAccount, Goto, LostInv, OwnerInv,
         Holders
    <3>4. AgreedInv'
      BY <1>3, <2>3, <2>1, <3>b, <3>1, <3>a DEF CheckAccount, Goto, AgreedInv
    <3>5. ApprovedText'
      BY <1>3, <2>3, <2>1, <3>b, <3>1, <3>a DEF CheckAccount, Goto, ApprovedText,
         OwnerInv, AgreedInv, MayGoOut
    <3>6. TodoInv'
      BY <1>3, <2>3, <2>1, <3>b, <3>1, <3>a DEF CheckAccount, Goto, TodoInv, Reads,
         Sending
    <3>7. TellInv'
      BY <1>3, <2>3, <2>1, <3>b, <3>1, <3>a DEF CheckAccount, Goto, TellInv, TodoInv,
         Reads, Sending
    <3>8. StatusTellsTargets'
      BY <1>3, <2>3, <2>1, <3>b, <3>1, <3>a DEF CheckAccount, Goto, StatusTellsTargets,
         TellInv, Reads, Sending
    <3>9. OutInv'
      BY <1>3, <2>3, <2>1, <3>b, <3>1, <3>a DEF CheckAccount, Goto, OutInv, TodoInv,
         Reads, Sending
    <3>10. PublishedOnce'
      BY <1>3, <2>3, <2>1, <3>b, <3>1, <3>a DEF CheckAccount, Goto, PublishedOnce,
         OutInv, TodoInv, Reads, Sending
    <3>11. QED BY <3>2, <3>3, <3>4, <3>5, <3>6, <3>7, <3>8, <3>9, <3>10
  <2>4. QED BY <2>2, <2>3
<1>4. ASSUME NEW s \in Servers, Post(s) PROVE PostInv'
  <2>1. Holders' = Holders
    BY <1>4 DEF Post, Goto, Arrive, Holders
  <2>2. CASE Goto(s, "sent")
    <3>1. Published' = Published /\ Unpublished' = Unpublished
      BY <1>4, <2>2 DEF Post, Goto, Arrive, Published, Unpublished
    <3>b. \A b \in Unpublished : target[b] # "PUBLISHED" /\ b \notin Published
      BY DEF Published, Unpublished
    <3>a. ~muddled => owner = {s} /\ status = "PUBLISHING"
      BY <1>4 DEF Post, OwnerInv, LostInv, Holders
    <3>2. OwnerInv'
      BY <1>4, <2>2, <2>1, <3>b, <3>1, <3>a DEF Post, Goto, Arrive, OwnerInv
    <3>3. LostInv'
      BY <1>4, <2>2, <2>1, <3>b, <3>1, <3>a DEF Post, Goto, Arrive, LostInv, OwnerInv,
         Holders
    <3>4. AgreedInv'
      BY <1>4, <2>2, <2>1, <3>b, <3>1, <3>a DEF Post, Goto, Arrive, AgreedInv
    <3>5. ApprovedText'
      BY <1>4, <2>2, <2>1, <3>b, <3>1, <3>a DEF Post, Goto, Arrive, ApprovedText,
         OwnerInv, AgreedInv, MayGoOut
    <3>6. TodoInv'
      BY <1>4, <2>2, <2>1, <3>b, <3>1, <3>a DEF Post, Goto, Arrive, TodoInv, Reads,
         Sending
    <3>7. TellInv'
      BY <1>4, <2>2, <2>1, <3>b, <3>1, <3>a DEF Post, Goto, Arrive, TellInv, TodoInv,
         Reads, Sending
    <3>8. StatusTellsTargets'
      BY <1>4, <2>2, <2>1, <3>b, <3>1, <3>a DEF Post, Goto, Arrive, StatusTellsTargets,
         TellInv, Reads, Sending
    <3>9. OutInv'
      BY <1>4, <2>2, <2>1, <3>b, <3>1, <3>a DEF Post, Goto, Arrive, OutInv, TodoInv,
         Reads, Sending
    <3>10. PublishedOnce'
      BY <1>4, <2>2, <2>1, <3>b, <3>1, <3>a DEF Post, Goto, Arrive, PublishedOnce,
         OutInv, TodoInv, Reads, Sending
    <3>11. QED BY <3>2, <3>3, <3>4, <3>5, <3>6, <3>7, <3>8, <3>9, <3>10
  <2>3. CASE ~Goto(s, "sent")
    <3>1. Published' = Published /\ Unpublished' = Unpublished
      BY <1>4, <2>3 DEF Post, Goto, Arrive, Published, Unpublished
    <3>b. \A b \in Unpublished : target[b] # "PUBLISHED" /\ b \notin Published
      BY DEF Published, Unpublished
    <3>a. ~muddled => owner = {s} /\ status = "PUBLISHING"
      BY <1>4 DEF Post, OwnerInv, LostInv, Holders
    <3>2. OwnerInv'
      BY <1>4, <2>3, <2>1, <3>b, <3>1, <3>a DEF Post, Goto, Arrive, OwnerInv
    <3>3. LostInv'
      BY <1>4, <2>3, <2>1, <3>b, <3>1, <3>a DEF Post, Goto, Arrive, LostInv, OwnerInv,
         Holders
    <3>4. AgreedInv'
      BY <1>4, <2>3, <2>1, <3>b, <3>1, <3>a DEF Post, Goto, Arrive, AgreedInv
    <3>5. ApprovedText'
      BY <1>4, <2>3, <2>1, <3>b, <3>1, <3>a DEF Post, Goto, Arrive, ApprovedText,
         OwnerInv, AgreedInv, MayGoOut
    <3>6. TodoInv'
      BY <1>4, <2>3, <2>1, <3>b, <3>1, <3>a DEF Post, Goto, Arrive, TodoInv, Reads,
         Sending
    <3>7. TellInv'
      BY <1>4, <2>3, <2>1, <3>b, <3>1, <3>a DEF Post, Goto, Arrive, TellInv, TodoInv,
         Reads, Sending
    <3>8. StatusTellsTargets'
      BY <1>4, <2>3, <2>1, <3>b, <3>1, <3>a DEF Post, Goto, Arrive, StatusTellsTargets,
         TellInv, Reads, Sending
    <3>9. OutInv'
      BY <1>4, <2>3, <2>1, <3>b, <3>1, <3>a DEF Post, Goto, Arrive, OutInv, TodoInv,
         Reads, Sending
    <3>10. PublishedOnce'
      BY <1>4, <2>3, <2>1, <3>b, <3>1, <3>a DEF Post, Goto, Arrive, PublishedOnce,
         OutInv, TodoInv, Reads, Sending
    <3>11. QED BY <3>2, <3>3, <3>4, <3>5, <3>6, <3>7, <3>8, <3>9, <3>10
  <2>4. QED BY <2>2, <2>3
<1>5. ASSUME NEW s \in Servers, RecordSent(s) PROVE PostInv'
  <2>1. Holders' = Holders
    BY <1>5 DEF RecordSent, Goto, SetTargets, Holders
  <2>2. CASE Goto(s, "targets")
    <3>1. Published' = Published \cup cur[s] /\ Unpublished' = Unpublished \ cur[s]
      BY <1>5, <2>2 DEF RecordSent, Goto, SetTargets, Published, Unpublished
    <3>b. \A b \in Unpublished : target[b] # "PUBLISHED" /\ b \notin Published
      BY DEF Published, Unpublished
    <3>a. ~muddled => owner = {s} /\ status = "PUBLISHING"
      BY <1>5 DEF RecordSent, OwnerInv, LostInv, Holders
    <3>2. OwnerInv'
      BY <1>5, <2>2, <2>1, <3>b, <3>1, <3>a DEF RecordSent, Goto, SetTargets, OwnerInv
    <3>3. LostInv'
      BY <1>5, <2>2, <2>1, <3>b, <3>1, <3>a DEF RecordSent, Goto, SetTargets, LostInv,
         OwnerInv, Holders
    <3>4. AgreedInv'
      BY <1>5, <2>2, <2>1, <3>b, <3>1, <3>a DEF RecordSent, Goto, SetTargets, AgreedInv
    <3>5. ApprovedText'
      BY <1>5, <2>2, <2>1, <3>b, <3>1, <3>a DEF RecordSent, Goto, SetTargets,
         ApprovedText, OwnerInv, AgreedInv, MayGoOut
    <3>6. TodoInv'
      BY <1>5, <2>2, <2>1, <3>b, <3>1, <3>a DEF RecordSent, Goto, SetTargets, TodoInv,
         Reads, Sending
    <3>7. TellInv'
      BY <1>5, <2>2, <2>1, <3>b, <3>1, <3>a DEF RecordSent, Goto, SetTargets, TellInv,
         TodoInv, Reads, Sending
    <3>8. StatusTellsTargets'
      BY <1>5, <2>2, <2>1, <3>b, <3>1, <3>a DEF RecordSent, Goto, SetTargets,
         StatusTellsTargets, TellInv, Reads, Sending
    <3>9. OutInv'
      BY <1>5, <2>2, <2>1, <3>b, <3>1, <3>a DEF RecordSent, Goto, SetTargets, OutInv,
         TodoInv, Reads, Sending
    <3>10. PublishedOnce'
      BY <1>5, <2>2, <2>1, <3>b, <3>1, <3>a DEF RecordSent, Goto, SetTargets,
         PublishedOnce, OutInv, TodoInv, Reads, Sending
    <3>11. QED BY <3>2, <3>3, <3>4, <3>5, <3>6, <3>7, <3>8, <3>9, <3>10
  <2>3. CASE ~Goto(s, "targets")
    <3>1. Published' = Published /\ Unpublished' = Unpublished
      BY <1>5, <2>3 DEF RecordSent, Goto, SetTargets, Published, Unpublished
    <3>b. \A b \in Unpublished : target[b] # "PUBLISHED" /\ b \notin Published
      BY DEF Published, Unpublished
    <3>a. ~muddled => owner = {s} /\ status = "PUBLISHING"
      BY <1>5 DEF RecordSent, OwnerInv, LostInv, Holders
    <3>2. OwnerInv'
      BY <1>5, <2>3, <2>1, <3>b, <3>1, <3>a DEF RecordSent, Goto, SetTargets, OwnerInv
    <3>3. LostInv'
      BY <1>5, <2>3, <2>1, <3>b, <3>1, <3>a DEF RecordSent, Goto, SetTargets, LostInv,
         OwnerInv, Holders
    <3>4. AgreedInv'
      BY <1>5, <2>3, <2>1, <3>b, <3>1, <3>a DEF RecordSent, Goto, SetTargets, AgreedInv
    <3>5. ApprovedText'
      BY <1>5, <2>3, <2>1, <3>b, <3>1, <3>a DEF RecordSent, Goto, SetTargets,
         ApprovedText, OwnerInv, AgreedInv, MayGoOut
    <3>6. TodoInv'
      BY <1>5, <2>3, <2>1, <3>b, <3>1, <3>a DEF RecordSent, Goto, SetTargets, TodoInv,
         Reads, Sending
    <3>7. TellInv'
      BY <1>5, <2>3, <2>1, <3>b, <3>1, <3>a DEF RecordSent, Goto, SetTargets, TellInv,
         TodoInv, Reads, Sending
    <3>8. StatusTellsTargets'
      BY <1>5, <2>3, <2>1, <3>b, <3>1, <3>a DEF RecordSent, Goto, SetTargets,
         StatusTellsTargets, TellInv, Reads, Sending
    <3>9. OutInv'
      BY <1>5, <2>3, <2>1, <3>b, <3>1, <3>a DEF RecordSent, Goto, SetTargets, OutInv,
         TodoInv, Reads, Sending
    <3>10. PublishedOnce'
      BY <1>5, <2>3, <2>1, <3>b, <3>1, <3>a DEF RecordSent, Goto, SetTargets,
         PublishedOnce, OutInv, TodoInv, Reads, Sending
    <3>11. QED BY <3>2, <3>3, <3>4, <3>5, <3>6, <3>7, <3>8, <3>9, <3>10
  <2>4. QED BY <2>2, <2>3
<1>6. ASSUME NEW s \in Servers, RecordFailure(s) PROVE PostInv'
  <2>1. Holders' = Holders
    BY <1>6 DEF RecordFailure, Goto, SetTargets, Holders
  <2>2. CASE TRUE
    <3>1. Published' = Published \ cur[s] /\ Unpublished' = Unpublished \cup cur[s]
      BY <1>6 DEF RecordFailure, Goto, SetTargets, Published, Unpublished
    <3>b. \A b \in Unpublished : target[b] # "PUBLISHED" /\ b \notin Published
      BY DEF Published, Unpublished
    <3>a. ~muddled => owner = {s} /\ status = "PUBLISHING"
      BY <1>6 DEF RecordFailure, OwnerInv, LostInv, Holders
    <3>2. OwnerInv'
      BY <1>6, <2>1, <3>b, <3>1, <3>a DEF RecordFailure, Goto, SetTargets, OwnerInv
    <3>3. LostInv'
      BY <1>6, <2>1, <3>b, <3>1, <3>a DEF RecordFailure, Goto, SetTargets, LostInv,
         OwnerInv, Holders
    <3>4. AgreedInv'
      BY <1>6, <2>1, <3>b, <3>1, <3>a DEF RecordFailure, Goto, SetTargets, AgreedInv
    <3>5. ApprovedText'
      BY <1>6, <2>1, <3>b, <3>1, <3>a DEF RecordFailure, Goto, SetTargets, ApprovedText,
         OwnerInv, AgreedInv, MayGoOut
    <3>6. TodoInv'
      BY <1>6, <2>1, <3>b, <3>1, <3>a DEF RecordFailure, Goto, SetTargets, TodoInv,
         Reads, Sending
    <3>7. TellInv'
      BY <1>6, <2>1, <3>b, <3>1, <3>a DEF RecordFailure, Goto, SetTargets, TellInv,
         TodoInv, Reads, Sending
    <3>8. StatusTellsTargets'
      BY <1>6, <2>1, <3>b, <3>1, <3>a DEF RecordFailure, Goto, SetTargets,
         StatusTellsTargets, TellInv, Reads, Sending
    <3>9. OutInv'
      BY <1>6, <2>1, <3>b, <3>1, <3>a DEF RecordFailure, Goto, SetTargets, OutInv,
         TodoInv, Reads, Sending
    <3>10. PublishedOnce'
      BY <1>6, <2>1, <3>b, <3>1, <3>a DEF RecordFailure, Goto, SetTargets,
         PublishedOnce, OutInv, TodoInv, Reads, Sending
    <3>11. QED BY <3>2, <3>3, <3>4, <3>5, <3>6, <3>7, <3>8, <3>9, <3>10
  <2>3. QED BY <2>2
<1>7. ASSUME NEW s \in Servers, RowGone(s) PROVE PostInv'
  <2>1. Holders' = Holders \ {s}
    BY <1>7 DEF RowGone, Goto, End, Holders
  <2>2. OwnerInv'
    BY <1>7, <2>1 DEF RowGone, Goto, End, OwnerInv
  <2>3. LostInv'
    BY <1>7, <2>1 DEF RowGone, Goto, End, LostInv, OwnerInv, Holders
  <2>4. AgreedInv'
    BY <1>7, <2>1 DEF RowGone, Goto, End, AgreedInv
  <2>5. ApprovedText'
    BY <1>7, <2>1 DEF RowGone, Goto, End, ApprovedText, OwnerInv, AgreedInv, MayGoOut
  <2>6. TodoInv'
    BY <1>7, <2>1 DEF RowGone, Goto, End, TodoInv, Reads, Sending, LostInv, OwnerInv,
       Published, Unpublished
  <2>7. TellInv'
    BY <1>7, <2>1 DEF RowGone, Goto, End, TellInv, TodoInv, Reads, Sending, LostInv,
       OwnerInv, Published, Unpublished
  <2>8. StatusTellsTargets'
    BY <1>7, <2>1 DEF RowGone, Goto, End, StatusTellsTargets, TellInv, Reads, Sending,
       LostInv, OwnerInv, Published, Unpublished
  <2>9. OutInv'
    BY <1>7, <2>1 DEF RowGone, Goto, End, OutInv, TodoInv, Reads, Sending, LostInv,
       OwnerInv, Unpublished
  <2>10. PublishedOnce'
    BY <1>7, <2>1 DEF RowGone, Goto, End, PublishedOnce, OutInv, TodoInv, Reads,
       Sending, LostInv, OwnerInv, Unpublished
  <2>11. QED BY <2>2, <2>3, <2>4, <2>5, <2>6, <2>7, <2>8, <2>9, <2>10
<1>8. ASSUME NEW s \in Servers, Finish(s) PROVE PostInv'
  <2>1. Holders' = Holders \ {s}
    BY <1>8 DEF Finish, Goto, End, FinalStatus, Holders
  <2>2. OwnerInv'
    BY <1>8, <2>1 DEF Finish, Goto, End, FinalStatus, OwnerInv
  <2>3. LostInv'
    BY <1>8, <2>1 DEF Finish, Goto, End, FinalStatus, LostInv, OwnerInv, Holders
  <2>4. AgreedInv'
    BY <1>8, <2>1 DEF Finish, Goto, End, FinalStatus, AgreedInv
  <2>5. ApprovedText'
    BY <1>8, <2>1 DEF Finish, Goto, End, FinalStatus, ApprovedText, OwnerInv, AgreedInv,
       MayGoOut
  <2>6. TodoInv'
    BY <1>8, <2>1 DEF Finish, Goto, End, FinalStatus, TodoInv, Reads, Sending, LostInv,
       OwnerInv, Published, Unpublished
  <2>7. TellInv'
    BY <1>8, <2>1 DEF Finish, Goto, End, FinalStatus, TellInv, TodoInv, Reads, Sending,
       LostInv, OwnerInv, Published, Unpublished
  <2>8. StatusTellsTargets'
    BY <1>8, <2>1 DEF Finish, Goto, End, FinalStatus, StatusTellsTargets, TellInv,
       Reads, Sending, LostInv, OwnerInv, Published, Unpublished
  <2>9. OutInv'
    BY <1>8, <2>1 DEF Finish, Goto, End, FinalStatus, OutInv, TodoInv, Reads, Sending,
       LostInv, OwnerInv, Unpublished
  <2>10. PublishedOnce'
    BY <1>8, <2>1 DEF Finish, Goto, End, FinalStatus, PublishedOnce, OutInv, TodoInv,
       Reads, Sending, LostInv, OwnerInv, Unpublished
  <2>11. QED BY <2>2, <2>3, <2>4, <2>5, <2>6, <2>7, <2>8, <2>9, <2>10
<1>9. ASSUME NEW s \in Servers, Hook(s) PROVE PostInv'
  <2>1. Holders' = Holders
    BY <1>9 DEF Hook, Goto, End, Holders
  <2>2. OwnerInv'
    BY <1>9, <2>1 DEF Hook, Goto, End, OwnerInv
  <2>3. LostInv'
    BY <1>9, <2>1 DEF Hook, Goto, End, LostInv, OwnerInv, Holders
  <2>4. AgreedInv'
    BY <1>9, <2>1 DEF Hook, Goto, End, AgreedInv
  <2>5. ApprovedText'
    BY <1>9, <2>1 DEF Hook, Goto, End, ApprovedText, OwnerInv, AgreedInv, MayGoOut
  <2>6. TodoInv'
    BY <1>9, <2>1 DEF Hook, Goto, End, TodoInv, Reads, Sending, LostInv, OwnerInv,
       Published, Unpublished
  <2>7. TellInv'
    BY <1>9, <2>1 DEF Hook, Goto, End, TellInv, TodoInv, Reads, Sending, LostInv,
       OwnerInv, Published, Unpublished
  <2>8. StatusTellsTargets'
    BY <1>9, <2>1 DEF Hook, Goto, End, StatusTellsTargets, TellInv, Reads, Sending,
       LostInv, OwnerInv, Published, Unpublished
  <2>9. OutInv'
    BY <1>9, <2>1 DEF Hook, Goto, End, OutInv, TodoInv, Reads, Sending, LostInv,
       OwnerInv, Unpublished
  <2>10. PublishedOnce'
    BY <1>9, <2>1 DEF Hook, Goto, End, PublishedOnce, OutInv, TodoInv, Reads, Sending,
       LostInv, OwnerInv, Unpublished
  <2>11. QED BY <2>2, <2>3, <2>4, <2>5, <2>6, <2>7, <2>8, <2>9, <2>10
<1>10. ASSUME NEW s \in Servers, Break(s) PROVE PostInv'
  <2>1. Holders' = Holders \ {s}
    BY <1>10 DEF Break, Stop, Goto, End, Holders
  <2>2. OwnerInv'
    BY <1>10, <2>1 DEF Break, Stop, Goto, End, OwnerInv
  <2>3. LostInv'
    BY <1>10, <2>1 DEF Break, Stop, Goto, End, LostInv, OwnerInv, Holders
  <2>4. AgreedInv'
    BY <1>10, <2>1 DEF Break, Stop, Goto, End, AgreedInv
  <2>5. ApprovedText'
    BY <1>10, <2>1 DEF Break, Stop, Goto, End, ApprovedText, OwnerInv, AgreedInv,
       MayGoOut
  <2>6. TodoInv'
    BY <1>10, <2>1 DEF Break, Stop, Goto, End, TodoInv, Reads, Sending, LostInv,
       OwnerInv, Published, Unpublished
  <2>7. TellInv'
    BY <1>10, <2>1 DEF Break, Stop, Goto, End, TellInv, TodoInv, Reads, Sending,
       LostInv, OwnerInv, Published, Unpublished
  <2>8. StatusTellsTargets'
    BY <1>10, <2>1 DEF Break, Stop, Goto, End, StatusTellsTargets, TellInv, Reads,
       Sending, LostInv, OwnerInv, Published, Unpublished
  <2>9. OutInv'
    BY <1>10, <2>1 DEF Break, Stop, Goto, End, OutInv, TodoInv, Reads, Sending, LostInv,
       OwnerInv, Unpublished
  <2>10. PublishedOnce'
    BY <1>10, <2>1 DEF Break, Stop, Goto, End, PublishedOnce, OutInv, TodoInv, Reads,
       Sending, LostInv, OwnerInv, Unpublished
  <2>11. QED BY <2>2, <2>3, <2>4, <2>5, <2>6, <2>7, <2>8, <2>9, <2>10
<1>11. ASSUME NEW s \in Servers, Crash(s) PROVE PostInv'
  <2>1. Holders' = Holders \ {s}
    BY <1>11 DEF Crash, Stop, Goto, End, Holders
  <2>2. OwnerInv'
    BY <1>11, <2>1 DEF Crash, Stop, Goto, End, OwnerInv
  <2>3. LostInv'
    BY <1>11, <2>1 DEF Crash, Stop, Goto, End, LostInv, OwnerInv, Holders
  <2>4. AgreedInv'
    BY <1>11, <2>1 DEF Crash, Stop, Goto, End, AgreedInv
  <2>5. ApprovedText'
    BY <1>11, <2>1 DEF Crash, Stop, Goto, End, ApprovedText, OwnerInv, AgreedInv,
       MayGoOut
  <2>6. TodoInv'
    BY <1>11, <2>1 DEF Crash, Stop, Goto, End, TodoInv, Reads, Sending, LostInv,
       OwnerInv, Published, Unpublished
  <2>7. TellInv'
    BY <1>11, <2>1 DEF Crash, Stop, Goto, End, TellInv, TodoInv, Reads, Sending,
       LostInv, OwnerInv, Published, Unpublished
  <2>8. StatusTellsTargets'
    BY <1>11, <2>1 DEF Crash, Stop, Goto, End, StatusTellsTargets, TellInv, Reads,
       Sending, LostInv, OwnerInv, Published, Unpublished
  <2>9. OutInv'
    BY <1>11, <2>1 DEF Crash, Stop, Goto, End, OutInv, TodoInv, Reads, Sending, LostInv,
       OwnerInv, Unpublished
  <2>10. PublishedOnce'
    BY <1>11, <2>1 DEF Crash, Stop, Goto, End, PublishedOnce, OutInv, TodoInv, Reads,
       Sending, LostInv, OwnerInv, Unpublished
  <2>11. QED BY <2>2, <2>3, <2>4, <2>5, <2>6, <2>7, <2>8, <2>9, <2>10
<1>12. ASSUME NEW s \in Servers, JobLook(s) PROVE PostInv'
  <2>1. Holders' = Holders
    BY <1>12 DEF JobLook, GotoJob, Holders
  <2>2. OwnerInv'
    BY <1>12, <2>1 DEF JobLook, GotoJob, OwnerInv
  <2>3. LostInv'
    BY <1>12, <2>1 DEF JobLook, GotoJob, LostInv, OwnerInv, Holders
  <2>4. AgreedInv'
    BY <1>12, <2>1 DEF JobLook, GotoJob, AgreedInv
  <2>5. ApprovedText'
    BY <1>12, <2>1 DEF JobLook, GotoJob, ApprovedText, OwnerInv, AgreedInv, MayGoOut
  <2>6. TodoInv'
    BY <1>12, <2>1 DEF JobLook, GotoJob, TodoInv, Reads, Sending, LostInv, OwnerInv,
       Published, Unpublished
  <2>7. TellInv'
    BY <1>12, <2>1 DEF JobLook, GotoJob, TellInv, TodoInv, Reads, Sending, LostInv,
       OwnerInv, Published, Unpublished
  <2>8. StatusTellsTargets'
    BY <1>12, <2>1 DEF JobLook, GotoJob, StatusTellsTargets, TellInv, Reads, Sending,
       LostInv, OwnerInv, Published, Unpublished
  <2>9. OutInv'
    BY <1>12, <2>1 DEF JobLook, GotoJob, OutInv, TodoInv, Reads, Sending, LostInv,
       OwnerInv, Unpublished
  <2>10. PublishedOnce'
    BY <1>12, <2>1 DEF JobLook, GotoJob, PublishedOnce, OutInv, TodoInv, Reads, Sending,
       LostInv, OwnerInv, Unpublished
  <2>11. QED BY <2>2, <2>3, <2>4, <2>5, <2>6, <2>7, <2>8, <2>9, <2>10
<1>13. ASSUME NEW s \in Servers, JobTargets(s) PROVE PostInv'
  <2>1. Holders' = Holders
    BY <1>13 DEF JobTargets, GotoJob, Reset, Holders
  <2>2. OwnerInv'
    BY <1>13, <2>1 DEF JobTargets, GotoJob, Reset, OwnerInv
  <2>3. LostInv'
    BY <1>13, <2>1 DEF JobTargets, GotoJob, Reset, LostInv, OwnerInv, Holders
  <2>4. AgreedInv'
    BY <1>13, <2>1 DEF JobTargets, GotoJob, Reset, AgreedInv
  <2>5. ApprovedText'
    BY <1>13, <2>1 DEF JobTargets, GotoJob, Reset, ApprovedText, OwnerInv, AgreedInv,
       MayGoOut
  <2>6. TodoInv'
    BY <1>13, <2>1 DEF JobTargets, GotoJob, Reset, TodoInv, Reads, Sending, LostInv,
       OwnerInv, Published, Unpublished
  <2>7. TellInv'
    BY <1>13, <2>1 DEF JobTargets, GotoJob, Reset, TellInv, TodoInv, Reads, Sending,
       LostInv, OwnerInv, Published, Unpublished
  <2>8. StatusTellsTargets'
    BY <1>13, <2>1 DEF JobTargets, GotoJob, Reset, StatusTellsTargets, TellInv, Reads,
       Sending, LostInv, OwnerInv, Published, Unpublished
  <2>9. OutInv'
    BY <1>13, <2>1 DEF JobTargets, GotoJob, Reset, OutInv, TodoInv, Reads, Sending,
       LostInv, OwnerInv, Unpublished
  <2>10. PublishedOnce'
    BY <1>13, <2>1 DEF JobTargets, GotoJob, Reset, PublishedOnce, OutInv, TodoInv,
       Reads, Sending, LostInv, OwnerInv, Unpublished
  <2>11. QED BY <2>2, <2>3, <2>4, <2>5, <2>6, <2>7, <2>8, <2>9, <2>10
<1>14. ASSUME NEW s \in Servers, JobPost(s) PROVE PostInv'
  <2>1. Holders' = Holders
    BY <1>14 DEF JobPost, GotoJob, Holders
  <2>2. OwnerInv'
    BY <1>14, <2>1 DEF JobPost, GotoJob, OwnerInv
  <2>3. LostInv'
    BY <1>14, <2>1 DEF JobPost, GotoJob, LostInv, OwnerInv, Holders
  <2>4. AgreedInv'
    BY <1>14, <2>1 DEF JobPost, GotoJob, AgreedInv
  <2>5. ApprovedText'
    BY <1>14, <2>1 DEF JobPost, GotoJob, ApprovedText, OwnerInv, AgreedInv, MayGoOut
  <2>6. TodoInv'
    BY <1>14, <2>1 DEF JobPost, GotoJob, TodoInv, Reads, Sending, LostInv, OwnerInv,
       Published, Unpublished
  <2>7. TellInv'
    BY <1>14, <2>1 DEF JobPost, GotoJob, TellInv, TodoInv, Reads, Sending, LostInv,
       OwnerInv, Published, Unpublished
  <2>8. StatusTellsTargets'
    BY <1>14, <2>1 DEF JobPost, GotoJob, StatusTellsTargets, TellInv, Reads, Sending,
       LostInv, OwnerInv, Published, Unpublished
  <2>9. OutInv'
    BY <1>14, <2>1 DEF JobPost, GotoJob, OutInv, TodoInv, Reads, Sending, LostInv,
       OwnerInv, Unpublished
  <2>10. PublishedOnce'
    BY <1>14, <2>1 DEF JobPost, GotoJob, PublishedOnce, OutInv, TodoInv, Reads, Sending,
       LostInv, OwnerInv, Unpublished
  <2>11. QED BY <2>2, <2>3, <2>4, <2>5, <2>6, <2>7, <2>8, <2>9, <2>10
<1>15. ASSUME NEW s \in Servers, JobFails(s) PROVE PostInv'
  <2>1. Holders' = Holders
    BY <1>15 DEF JobFails, GotoJob, Holders
  <2>2. OwnerInv'
    BY <1>15, <2>1 DEF JobFails, GotoJob, OwnerInv
  <2>3. LostInv'
    BY <1>15, <2>1 DEF JobFails, GotoJob, LostInv, OwnerInv, Holders
  <2>4. AgreedInv'
    BY <1>15, <2>1 DEF JobFails, GotoJob, AgreedInv
  <2>5. ApprovedText'
    BY <1>15, <2>1 DEF JobFails, GotoJob, ApprovedText, OwnerInv, AgreedInv, MayGoOut
  <2>6. TodoInv'
    BY <1>15, <2>1 DEF JobFails, GotoJob, TodoInv, Reads, Sending, LostInv, OwnerInv,
       Published, Unpublished
  <2>7. TellInv'
    BY <1>15, <2>1 DEF JobFails, GotoJob, TellInv, TodoInv, Reads, Sending, LostInv,
       OwnerInv, Published, Unpublished
  <2>8. StatusTellsTargets'
    BY <1>15, <2>1 DEF JobFails, GotoJob, StatusTellsTargets, TellInv, Reads, Sending,
       LostInv, OwnerInv, Published, Unpublished
  <2>9. OutInv'
    BY <1>15, <2>1 DEF JobFails, GotoJob, OutInv, TodoInv, Reads, Sending, LostInv,
       OwnerInv, Unpublished
  <2>10. PublishedOnce'
    BY <1>15, <2>1 DEF JobFails, GotoJob, PublishedOnce, OutInv, TodoInv, Reads,
       Sending, LostInv, OwnerInv, Unpublished
  <2>11. QED BY <2>2, <2>3, <2>4, <2>5, <2>6, <2>7, <2>8, <2>9, <2>10
<1>16. ASSUME NEW s \in Servers, JobList(s) PROVE PostInv'
  <2>1. Holders' = Holders
    BY <1>16 DEF JobList, GotoJob, Holders
  <2>2. OwnerInv'
    BY <1>16, <2>1 DEF JobList, GotoJob, OwnerInv
  <2>3. LostInv'
    BY <1>16, <2>1 DEF JobList, GotoJob, LostInv, OwnerInv, Holders
  <2>4. AgreedInv'
    BY <1>16, <2>1 DEF JobList, GotoJob, AgreedInv
  <2>5. ApprovedText'
    BY <1>16, <2>1 DEF JobList, GotoJob, ApprovedText, OwnerInv, AgreedInv, MayGoOut
  <2>6. TodoInv'
    BY <1>16, <2>1 DEF JobList, GotoJob, TodoInv, Reads, Sending, LostInv, OwnerInv,
       Published, Unpublished
  <2>7. TellInv'
    BY <1>16, <2>1 DEF JobList, GotoJob, TellInv, TodoInv, Reads, Sending, LostInv,
       OwnerInv, Published, Unpublished
  <2>8. StatusTellsTargets'
    BY <1>16, <2>1 DEF JobList, GotoJob, StatusTellsTargets, TellInv, Reads, Sending,
       LostInv, OwnerInv, Published, Unpublished
  <2>9. OutInv'
    BY <1>16, <2>1 DEF JobList, GotoJob, OutInv, TodoInv, Reads, Sending, LostInv,
       OwnerInv, Unpublished
  <2>10. PublishedOnce'
    BY <1>16, <2>1 DEF JobList, GotoJob, PublishedOnce, OutInv, TodoInv, Reads, Sending,
       LostInv, OwnerInv, Unpublished
  <2>11. QED BY <2>2, <2>3, <2>4, <2>5, <2>6, <2>7, <2>8, <2>9, <2>10
<1>17. ASSUME NEW s \in Servers, JobStart(s) PROVE PostInv'
  <2>1. Holders' = Holders
    BY <1>17 DEF JobStart, GotoJob, StartRun, Holders
  <2>2. OwnerInv'
    BY <1>17, <2>1 DEF JobStart, GotoJob, StartRun, OwnerInv
  <2>3. LostInv'
    BY <1>17, <2>1 DEF JobStart, GotoJob, StartRun, LostInv, OwnerInv, Holders
  <2>4. AgreedInv'
    BY <1>17, <2>1 DEF JobStart, GotoJob, StartRun, AgreedInv
  <2>5. ApprovedText'
    BY <1>17, <2>1 DEF JobStart, GotoJob, StartRun, ApprovedText, OwnerInv, AgreedInv,
       MayGoOut
  <2>6. TodoInv'
    BY <1>17, <2>1 DEF JobStart, GotoJob, StartRun, TodoInv, Reads, Sending, LostInv,
       OwnerInv, Published, Unpublished
  <2>7. TellInv'
    BY <1>17, <2>1 DEF JobStart, GotoJob, StartRun, TellInv, TodoInv, Reads, Sending,
       LostInv, OwnerInv, Published, Unpublished
  <2>8. StatusTellsTargets'
    BY <1>17, <2>1 DEF JobStart, GotoJob, StartRun, StatusTellsTargets, TellInv, Reads,
       Sending, LostInv, OwnerInv, Published, Unpublished
  <2>9. OutInv'
    BY <1>17, <2>1 DEF JobStart, GotoJob, StartRun, OutInv, TodoInv, Reads, Sending,
       LostInv, OwnerInv, Unpublished
  <2>10. PublishedOnce'
    BY <1>17, <2>1 DEF JobStart, GotoJob, StartRun, PublishedOnce, OutInv, TodoInv,
       Reads, Sending, LostInv, OwnerInv, Unpublished
  <2>11. QED BY <2>2, <2>3, <2>4, <2>5, <2>6, <2>7, <2>8, <2>9, <2>10
<1>18. ASSUME NEW s \in Servers, JobDone(s) PROVE PostInv'
  <2>1. Holders' = Holders
    BY <1>18 DEF JobDone, GotoJob, Holders
  <2>2. OwnerInv'
    BY <1>18, <2>1 DEF JobDone, GotoJob, OwnerInv
  <2>3. LostInv'
    BY <1>18, <2>1 DEF JobDone, GotoJob, LostInv, OwnerInv, Holders
  <2>4. AgreedInv'
    BY <1>18, <2>1 DEF JobDone, GotoJob, AgreedInv
  <2>5. ApprovedText'
    BY <1>18, <2>1 DEF JobDone, GotoJob, ApprovedText, OwnerInv, AgreedInv, MayGoOut
  <2>6. TodoInv'
    BY <1>18, <2>1 DEF JobDone, GotoJob, TodoInv, Reads, Sending, LostInv, OwnerInv,
       Published, Unpublished
  <2>7. TellInv'
    BY <1>18, <2>1 DEF JobDone, GotoJob, TellInv, TodoInv, Reads, Sending, LostInv,
       OwnerInv, Published, Unpublished
  <2>8. StatusTellsTargets'
    BY <1>18, <2>1 DEF JobDone, GotoJob, StatusTellsTargets, TellInv, Reads, Sending,
       LostInv, OwnerInv, Published, Unpublished
  <2>9. OutInv'
    BY <1>18, <2>1 DEF JobDone, GotoJob, OutInv, TodoInv, Reads, Sending, LostInv,
       OwnerInv, Unpublished
  <2>10. PublishedOnce'
    BY <1>18, <2>1 DEF JobDone, GotoJob, PublishedOnce, OutInv, TodoInv, Reads, Sending,
       LostInv, OwnerInv, Unpublished
  <2>11. QED BY <2>2, <2>3, <2>4, <2>5, <2>6, <2>7, <2>8, <2>9, <2>10
<1>19. ASSUME NEW s \in Desks, NEW when \in {"draft", "later", "now"}, NEW S \in SUBSET Accounts, Create(s, when, S) PROVE PostInv'
  <2>1. Holders' = Holders
    BY <1>19 DEF Create, Write, StartRun, Holders
  <2>2. OwnerInv'
    BY <1>19, <2>1 DEF Create, Write, StartRun, OwnerInv
  <2>3. LostInv'
    BY <1>19, <2>1 DEF Create, Write, StartRun, LostInv, OwnerInv, Holders
  <2>4. AgreedInv'
    BY <1>19, <2>1 DEF Create, Write, StartRun, AgreedInv
  <2>5. ApprovedText'
    BY <1>19, <2>1 DEF Create, Write, StartRun, ApprovedText, OwnerInv, AgreedInv,
       MayGoOut
  <2>6. TodoInv'
    BY <1>19, <2>1 DEF Create, Write, StartRun, TodoInv, Reads, Sending, LostInv,
       OwnerInv, Published, Unpublished
  <2>7. TellInv'
    BY <1>19, <2>1 DEF Create, Write, StartRun, TellInv, TodoInv, Reads, Sending,
       LostInv, OwnerInv, Published, Unpublished
  <2>8. StatusTellsTargets'
    BY <1>19, <2>1 DEF Create, Write, StartRun, StatusTellsTargets, TellInv, Reads,
       Sending, LostInv, OwnerInv, Published, Unpublished
  <2>9. OutInv'
    BY <1>19, <2>1 DEF Create, Write, StartRun, OutInv, TodoInv, Reads, Sending,
       LostInv, OwnerInv, Unpublished
  <2>10. PublishedOnce'
    BY <1>19, <2>1 DEF Create, Write, StartRun, PublishedOnce, OutInv, TodoInv, Reads,
       Sending, LostInv, OwnerInv, Unpublished
  <2>11. QED BY <2>2, <2>3, <2>4, <2>5, <2>6, <2>7, <2>8, <2>9, <2>10
<1>20. ASSUME NEW s \in Desks, NEW when \in {"draft", "later", "now"}, NEW S \in SUBSET Accounts, Update(s, when, S) PROVE PostInv'
  <2>1. Holders' = Holders
    BY <1>20 DEF Update, Write, StartRun, AskedAgain, Holders
  <2>2. OwnerInv'
    BY <1>20, <2>1 DEF Update, Write, StartRun, AskedAgain, OwnerInv
  <2>3. LostInv'
    BY <1>20, <2>1 DEF Update, Write, StartRun, AskedAgain, LostInv, OwnerInv, Holders
  <2>4. AgreedInv'
    BY <1>20, <2>1 DEF Update, Write, StartRun, AskedAgain, AgreedInv
  <2>5. ApprovedText'
    BY <1>20, <2>1 DEF Update, Write, StartRun, AskedAgain, ApprovedText, OwnerInv,
       AgreedInv, MayGoOut
  <2>6. TodoInv'
    BY <1>20, <2>1 DEF Update, Write, StartRun, AskedAgain, TodoInv, Reads, Sending,
       LostInv, OwnerInv, Published, Unpublished
  <2>7. TellInv'
    BY <1>20, <2>1 DEF Update, Write, StartRun, AskedAgain, TellInv, TodoInv, Reads,
       Sending, LostInv, OwnerInv, Published, Unpublished
  <2>8. StatusTellsTargets'
    BY <1>20, <2>1 DEF Update, Write, StartRun, AskedAgain, StatusTellsTargets, TellInv,
       Reads, Sending, LostInv, OwnerInv, Published, Unpublished
  <2>9. OutInv'
    BY <1>20, <2>1 DEF Update, Write, StartRun, AskedAgain, OutInv, TodoInv, Reads,
       Sending, LostInv, OwnerInv, Unpublished
  <2>10. PublishedOnce'
    BY <1>20, <2>1 DEF Update, Write, StartRun, AskedAgain, PublishedOnce, OutInv,
       TodoInv, Reads, Sending, LostInv, OwnerInv, Unpublished
  <2>11. QED BY <2>2, <2>3, <2>4, <2>5, <2>6, <2>7, <2>8, <2>9, <2>10
<1>21. ASSUME Remove PROVE PostInv'
  <2>1. Holders' = Holders
    BY <1>21 DEF Remove, Holders
  <2>2. OwnerInv'
    BY <1>21, <2>1 DEF Remove, OwnerInv
  <2>3. LostInv'
    BY <1>21, <2>1 DEF Remove, LostInv, OwnerInv, Holders
  <2>4. AgreedInv'
    BY <1>21, <2>1 DEF Remove, AgreedInv
  <2>5. ApprovedText'
    BY <1>21, <2>1 DEF Remove, ApprovedText, OwnerInv, AgreedInv, MayGoOut
  <2>6. TodoInv'
    BY <1>21, <2>1 DEF Remove, TodoInv, Reads, Sending, LostInv, OwnerInv, Published,
       Unpublished
  <2>7. TellInv'
    BY <1>21, <2>1 DEF Remove, TellInv, TodoInv, Reads, Sending, LostInv, OwnerInv,
       Published, Unpublished
  <2>8. StatusTellsTargets'
    BY <1>21, <2>1 DEF Remove, StatusTellsTargets, TellInv, Reads, Sending, LostInv,
       OwnerInv, Published, Unpublished
  <2>9. OutInv'
    BY <1>21, <2>1 DEF Remove, OutInv, TodoInv, Reads, Sending, LostInv, OwnerInv,
       Unpublished
  <2>10. PublishedOnce'
    BY <1>21, <2>1 DEF Remove, PublishedOnce, OutInv, TodoInv, Reads, Sending, LostInv,
       OwnerInv, Unpublished
  <2>11. QED BY <2>2, <2>3, <2>4, <2>5, <2>6, <2>7, <2>8, <2>9, <2>10
<1>22. ASSUME NEW s \in Desks, Retry(s) PROVE PostInv'
  <2>1. Holders' = Holders
    BY <1>22 DEF Retry, RetryFailed, StartRun, Holders
  <2>2. OwnerInv'
    BY <1>22, <2>1 DEF Retry, RetryFailed, StartRun, OwnerInv
  <2>3. LostInv'
    BY <1>22, <2>1 DEF Retry, RetryFailed, StartRun, LostInv, OwnerInv, Holders
  <2>4. AgreedInv'
    BY <1>22, <2>1 DEF Retry, RetryFailed, StartRun, AgreedInv
  <2>5. ApprovedText'
    BY <1>22, <2>1 DEF Retry, RetryFailed, StartRun, ApprovedText, OwnerInv, AgreedInv,
       MayGoOut
  <2>6. TodoInv'
    BY <1>22, <2>1 DEF Retry, RetryFailed, StartRun, TodoInv, Reads, Sending, LostInv,
       OwnerInv, Published, Unpublished
  <2>7. TellInv'
    BY <1>22, <2>1 DEF Retry, RetryFailed, StartRun, TellInv, TodoInv, Reads, Sending,
       LostInv, OwnerInv, Published, Unpublished
  <2>8. StatusTellsTargets'
    BY <1>22, <2>1 DEF Retry, RetryFailed, StartRun, StatusTellsTargets, TellInv, Reads,
       Sending, LostInv, OwnerInv, Published, Unpublished
  <2>9. OutInv'
    BY <1>22, <2>1 DEF Retry, RetryFailed, StartRun, OutInv, TodoInv, Reads, Sending,
       LostInv, OwnerInv, Unpublished
  <2>10. PublishedOnce'
    BY <1>22, <2>1 DEF Retry, RetryFailed, StartRun, PublishedOnce, OutInv, TodoInv,
       Reads, Sending, LostInv, OwnerInv, Unpublished
  <2>11. QED BY <2>2, <2>3, <2>4, <2>5, <2>6, <2>7, <2>8, <2>9, <2>10
<1>23. ASSUME Reschedule PROVE PostInv'
  <2>1. Holders' = Holders
    BY <1>23 DEF Reschedule, Holders
  <2>2. OwnerInv'
    BY <1>23, <2>1 DEF Reschedule, OwnerInv
  <2>3. LostInv'
    BY <1>23, <2>1 DEF Reschedule, LostInv, OwnerInv, Holders
  <2>4. AgreedInv'
    BY <1>23, <2>1 DEF Reschedule, AgreedInv
  <2>5. ApprovedText'
    BY <1>23, <2>1 DEF Reschedule, ApprovedText, OwnerInv, AgreedInv, MayGoOut
  <2>6. TodoInv'
    BY <1>23, <2>1 DEF Reschedule, TodoInv, Reads, Sending, LostInv, OwnerInv,
       Published, Unpublished
  <2>7. TellInv'
    BY <1>23, <2>1 DEF Reschedule, TellInv, TodoInv, Reads, Sending, LostInv, OwnerInv,
       Published, Unpublished
  <2>8. StatusTellsTargets'
    BY <1>23, <2>1 DEF Reschedule, StatusTellsTargets, TellInv, Reads, Sending, LostInv,
       OwnerInv, Published, Unpublished
  <2>9. OutInv'
    BY <1>23, <2>1 DEF Reschedule, OutInv, TodoInv, Reads, Sending, LostInv, OwnerInv,
       Unpublished
  <2>10. PublishedOnce'
    BY <1>23, <2>1 DEF Reschedule, PublishedOnce, OutInv, TodoInv, Reads, Sending,
       LostInv, OwnerInv, Unpublished
  <2>11. QED BY <2>2, <2>3, <2>4, <2>5, <2>6, <2>7, <2>8, <2>9, <2>10
<1>24. ASSUME MoveStatus PROVE PostInv'
  <2>1. Holders' = Holders
    BY <1>24 DEF MoveStatus, Holders
  <2>2. OwnerInv'
    BY <1>24, <2>1 DEF MoveStatus, OwnerInv
  <2>3. LostInv'
    BY <1>24, <2>1 DEF MoveStatus, LostInv, OwnerInv, Holders
  <2>4. AgreedInv'
    BY <1>24, <2>1 DEF MoveStatus, AgreedInv
  <2>5. ApprovedText'
    BY <1>24, <2>1 DEF MoveStatus, ApprovedText, OwnerInv, AgreedInv, MayGoOut
  <2>6. TodoInv'
    BY <1>24, <2>1 DEF MoveStatus, TodoInv, Reads, Sending, LostInv, OwnerInv,
       Published, Unpublished
  <2>7. TellInv'
    BY <1>24, <2>1 DEF MoveStatus, TellInv, TodoInv, Reads, Sending, LostInv, OwnerInv,
       Published, Unpublished
  <2>8. StatusTellsTargets'
    BY <1>24, <2>1 DEF MoveStatus, StatusTellsTargets, TellInv, Reads, Sending, LostInv,
       OwnerInv, Published, Unpublished
  <2>9. OutInv'
    BY <1>24, <2>1 DEF MoveStatus, OutInv, TodoInv, Reads, Sending, LostInv, OwnerInv,
       Unpublished
  <2>10. PublishedOnce'
    BY <1>24, <2>1 DEF MoveStatus, PublishedOnce, OutInv, TodoInv, Reads, Sending,
       LostInv, OwnerInv, Unpublished
  <2>11. QED BY <2>2, <2>3, <2>4, <2>5, <2>6, <2>7, <2>8, <2>9, <2>10
<1>25. ASSUME MoveTargets PROVE PostInv'
  <2>1. Holders' = Holders
    BY <1>25 DEF MoveTargets, Reset, Holders
  <2>2. OwnerInv'
    BY <1>25, <2>1 DEF MoveTargets, Reset, OwnerInv
  <2>3. LostInv'
    BY <1>25, <2>1 DEF MoveTargets, Reset, LostInv, OwnerInv, Holders
  <2>4. AgreedInv'
    BY <1>25, <2>1 DEF MoveTargets, Reset, AgreedInv
  <2>5. ApprovedText'
    BY <1>25, <2>1 DEF MoveTargets, Reset, ApprovedText, OwnerInv, AgreedInv, MayGoOut
  <2>6. TodoInv'
    BY <1>25, <2>1 DEF MoveTargets, Reset, TodoInv, Reads, Sending, LostInv, OwnerInv,
       Published, Unpublished
  <2>7. TellInv'
    BY <1>25, <2>1 DEF MoveTargets, Reset, TellInv, TodoInv, Reads, Sending, LostInv,
       OwnerInv, Published, Unpublished
  <2>8. StatusTellsTargets'
    BY <1>25, <2>1 DEF MoveTargets, Reset, StatusTellsTargets, TellInv, Reads, Sending,
       LostInv, OwnerInv, Published, Unpublished
  <2>9. OutInv'
    BY <1>25, <2>1 DEF MoveTargets, Reset, OutInv, TodoInv, Reads, Sending, LostInv,
       OwnerInv, Unpublished
  <2>10. PublishedOnce'
    BY <1>25, <2>1 DEF MoveTargets, Reset, PublishedOnce, OutInv, TodoInv, Reads,
       Sending, LostInv, OwnerInv, Unpublished
  <2>11. QED BY <2>2, <2>3, <2>4, <2>5, <2>6, <2>7, <2>8, <2>9, <2>10
<1>26. ASSUME NEW value \in {"none", "WAITING"}, SetApproval(value) PROVE PostInv'
  <2>1. Holders' = Holders
    BY <1>26 DEF SetApproval, Editable, Holders
  <2>2. OwnerInv'
    BY <1>26, <2>1 DEF SetApproval, OwnerInv
  <2>3. LostInv'
    BY <1>26, <2>1 DEF SetApproval, LostInv, OwnerInv, Holders
  <2>4. AgreedInv'
    BY <1>26, <2>1 DEF SetApproval, AgreedInv
  <2>5. ApprovedText'
    BY <1>26, <2>1 DEF SetApproval, ApprovedText, OwnerInv, AgreedInv, MayGoOut
  <2>6. TodoInv'
    BY <1>26, <2>1 DEF SetApproval, TodoInv, Reads, Sending, LostInv, OwnerInv,
       Published, Unpublished
  <2>7. TellInv'
    BY <1>26, <2>1 DEF SetApproval, TellInv, TodoInv, Reads, Sending, LostInv, OwnerInv,
       Published, Unpublished
  <2>8. StatusTellsTargets'
    BY <1>26, <2>1 DEF SetApproval, StatusTellsTargets, TellInv, Reads, Sending,
       LostInv, OwnerInv, Published, Unpublished
  <2>9. OutInv'
    BY <1>26, <2>1 DEF SetApproval, OutInv, TodoInv, Reads, Sending, LostInv, OwnerInv,
       Unpublished
  <2>10. PublishedOnce'
    BY <1>26, <2>1 DEF SetApproval, PublishedOnce, OutInv, TodoInv, Reads, Sending,
       LostInv, OwnerInv, Unpublished
  <2>11. QED BY <2>2, <2>3, <2>4, <2>5, <2>6, <2>7, <2>8, <2>9, <2>10
<1>27. ASSUME NEW value \in {"WAITING", "APPROVED"}, Decide(value) PROVE PostInv'
  <2>1. Holders' = Holders
    BY <1>27 DEF Decide, Editable, Holders
  <2>2. OwnerInv'
    BY <1>27, <2>1 DEF Decide, OwnerInv
  <2>3. LostInv'
    BY <1>27, <2>1 DEF Decide, LostInv, OwnerInv, Holders
  <2>4. AgreedInv'
    BY <1>27, <2>1 DEF Decide, AgreedInv
  <2>5. ApprovedText'
    BY <1>27, <2>1 DEF Decide, ApprovedText, OwnerInv, AgreedInv, MayGoOut
  <2>6. TodoInv'
    BY <1>27, <2>1 DEF Decide, TodoInv, Reads, Sending, LostInv, OwnerInv, Published,
       Unpublished
  <2>7. TellInv'
    BY <1>27, <2>1 DEF Decide, TellInv, TodoInv, Reads, Sending, LostInv, OwnerInv,
       Published, Unpublished
  <2>8. StatusTellsTargets'
    BY <1>27, <2>1 DEF Decide, StatusTellsTargets, TellInv, Reads, Sending, LostInv,
       OwnerInv, Published, Unpublished
  <2>9. OutInv'
    BY <1>27, <2>1 DEF Decide, OutInv, TodoInv, Reads, Sending, LostInv, OwnerInv,
       Unpublished
  <2>10. PublishedOnce'
    BY <1>27, <2>1 DEF Decide, PublishedOnce, OutInv, TodoInv, Reads, Sending, LostInv,
       OwnerInv, Unpublished
  <2>11. QED BY <2>2, <2>3, <2>4, <2>5, <2>6, <2>7, <2>8, <2>9, <2>10
<1>28. CASE UNCHANGED vars
  BY <1>28 DEF vars, Holders, OwnerInv, LostInv, Holders, AgreedInv, ApprovedText,
     MayGoOut, TodoInv, Reads, Sending, Published, Unpublished, TellInv,
     StatusTellsTargets, OutInv, PublishedOnce
<1>29. QED
  BY <1>1, <1>2, <1>3, <1>4, <1>5, <1>6, <1>7, <1>8, <1>9, <1>10, <1>11, <1>12, <1>13,
     <1>14, <1>15, <1>16, <1>17, <1>18, <1>19, <1>20, <1>21, <1>22, <1>23, <1>24, <1>25,
     <1>26, <1>27, <1>28, SMTT(30), ZenonT(30) DEF Next, Work, Job, Merchant

\* The inductive invariant holds in every reachable state.
THEOREM PostInvHolds == Spec => []PostInv
<1>1. Init => PostInv
  <2> SUFFICES ASSUME Init PROVE PostInv
    OBVIOUS
  <2>1. TypeOK
    BY DEF Init, TypeOK, Statuses, Editable, Finished, Places, Publishing, Jobs
  <2>2. Holders = {}
    BY DEF Init, Holders, Publishing
  <2>3. QED
    BY <2>1, <2>2 DEF Init, PostInv, OwnerInv, LostInv, AgreedInv, ApprovedText, TodoInv, TellInv,
       StatusTellsTargets, OutInv, PublishedOnce, Reads
<1>2. PostInv /\ [Next]_vars => PostInv'
  BY TypeStep, PostInvStep DEF PostInv
<1>3. QED
  BY <1>1, <1>2, PTL DEF Spec

\* The variables keep their types.
THEOREM TypeCorrect == Spec => []TypeOK
  BY PostInvHolds, PTL DEF PostInv

\* At most one run owns a post, which is PUBLISHING then; others lost their claim.
THEOREM OneOwnerHolds == Spec => [](OwnerInv /\ LostInv)
  BY PostInvHolds, PTL DEF PostInv

\* No text goes out twice on an account unless a run lost its claim or the first
\* publication was never recorded.
THEOREM PublishedOnceHolds == Spec => []PublishedOnce
  BY PostInvHolds, PTL DEF PostInv

\* What goes out needs no client or is what the client agreed to.
THEOREM ApprovedTextHolds == Spec => []ApprovedText
  BY PostInvHolds, PTL DEF PostInv

\* A finished post tells what its targets say.
THEOREM StatusTellsTargetsHolds == Spec => []StatusTellsTargets
  BY PostInvHolds, PTL DEF PostInv
-----------------------------------------------------------------------------
(* The rules for comments.                                                 *)
LEMMA RulesInvInit == Rule!Init => Rule!RulesInv
<1> SUFFICES ASSUME Rule!Init PROVE Rule!RulesInv OBVIOUS
<1>1. Rule!TypeOK BY DEF Rule!Init, Rule!TypeOK, Rule!Job, Rule!Idle
<1>2. Rule!ClaimsInv BY DEF Rule!Init, Rule!ClaimsInv, Rule!Sends, Rule!Idle
<1>3. Rule!OneMessagePerRule BY DEF Rule!Init, Rule!OneMessagePerRule
<1>4. QED BY <1>1, <1>2, <1>3 DEF Rule!RulesInv

LEMMA RulesTypeStep == ASSUME Rule!TypeOK, [Rule!Next]_rules PROVE Rule!TypeOK'
<1> USE DEF Rule!TypeOK, Rule!Job, Rule!Idle
<1>1. ASSUME NEW r \in Rules, Rule!create(r) \/ Rule!update(r) \/ Rule!remove(r) PROVE Rule!TypeOK'
  BY <1>1 DEF Rule!create, Rule!update, Rule!remove, Rule!Edits
<1>2. ASSUME NEW q \in Requests, NEW c \in Comments, Rule!run(q, c) PROVE Rule!TypeOK'
  BY <1>2 DEF Rule!run, Rule!FirstFor, Rule!active
<1>3. ASSUME NEW q \in Requests, Rule!claimHit(q) PROVE Rule!TypeOK'
  <2>1. reply[q] \in [at : {"claim"}, c : Comments, r : Rules]
    BY <1>3 DEF Rule!claimHit
  <2>2. reply' \in [Requests -> Rule!Job]
    BY <1>3, <2>1 DEF Rule!claimHit
  <2>3. \A h \in hits' : h \in [rule : Rules, comment : Comments, author : {AuthorOf[c] : c \in Comments}, ok : BOOLEAN]
    <3>1. Rule!Hit(reply[q].r, reply[q].c) \in [rule : Rules, comment : Comments, author : {AuthorOf[c] : c \in Comments}, ok : BOOLEAN]
      BY <2>1 DEF Rule!Hit
    <3>2. hits' = hits \/ hits' = hits \cup {Rule!Hit(reply[q].r, reply[q].c)}
      BY <1>3 DEF Rule!claimHit
    <3>3. QED BY <2>1, <3>1, <3>2
  <2>4. QED BY <1>3, <2>2, <2>3 DEF Rule!claimHit
<1>4. ASSUME NEW q \in Requests, Rule!privateReply(q) PROVE Rule!TypeOK'
  BY <1>4 DEF Rule!privateReply
<1>5. ASSUME NEW q \in Requests, Rule!finishHit(q) PROVE Rule!TypeOK'
  <2>1. reply[q] \in [at : {"finish"}, c : Comments, r : Rules, ok : BOOLEAN]
    BY <1>5 DEF Rule!finishHit
  <2>2. count' \in [Rules -> Nat]
    BY <1>5, <2>1 DEF Rule!finishHit
  <2>3. \A h \in hits' : h \in [rule : Rules, comment : Comments, author : {AuthorOf[c] : c \in Comments}, ok : BOOLEAN]
    <3>1. SUFFICES ASSUME NEW h \in hits
          PROVE [h EXCEPT !.ok = reply[q].ok] \in [rule : Rules, comment : Comments, author : {AuthorOf[c] : c \in Comments}, ok : BOOLEAN]
      BY <1>5, ZenonT(30) DEF Rule!finishHit
    <3>2. h \in [rule : Rules, comment : Comments, author : {AuthorOf[c] : c \in Comments}, ok : BOOLEAN]
      OBVIOUS
    <3>3. QED BY <2>1, <3>2
  <2>4. QED BY <1>5, <2>2, <2>3 DEF Rule!finishHit
<1>6. CASE Rule!Restart BY <1>6 DEF Rule!Restart
<1>7. CASE UNCHANGED rules BY <1>7 DEF rules
<1>8. QED BY <1>1, <1>2, <1>3, <1>4, <1>5, <1>6, <1>7 DEF Rule!Next

\* A step that keeps the claims, adds nothing to what was sent and lets no
\* request send more keeps the invariant.
LEMMA RulesCalm ==
  ASSUME Rule!ClaimsInv, got' = got,
         \A r \in Rules, c \in Comments : Rule!HasClaim(r, c) => Rule!HasClaim(r, c)',
         \A q \in Requests, r \in Rules, c \in Comments : Rule!Sends(q, r, c)' => Rule!Sends(q, r, c)
  PROVE Rule!ClaimsInv'
BY DEF Rule!ClaimsInv

LEMMA RulesInvStep == ASSUME Rule!RulesInv, [Rule!Next]_rules PROVE Rule!RulesInv'
<1>1. Rule!TypeOK /\ Rule!ClaimsInv /\ Rule!OneMessagePerRule
  BY DEF Rule!RulesInv
<1>t. Rule!TypeOK'
  BY <1>1, RulesTypeStep
<1>2. ASSUME NEW r \in Rules, Rule!create(r) \/ Rule!update(r) \/ Rule!remove(r) PROVE Rule!RulesInv'
  <2>1. got' = got /\ reply' = reply
    BY <1>2 DEF Rule!create, Rule!update, Rule!remove
  <2>2. \A s \in Rules, c \in Comments : Rule!HasClaim(s, c) => Rule!HasClaim(s, c)'
    BY <1>1, <1>2 DEF Rule!create, Rule!update, Rule!remove, Rule!Edits, Rule!HasClaim, Rule!TypeOK
  <2>3. QED BY <1>1, <1>t, <2>1, <2>2, RulesCalm DEF Rule!Sends, Rule!RulesInv, Rule!OneMessagePerRule
<1>3. ASSUME NEW q \in Requests, NEW c \in Comments, Rule!run(q, c) PROVE Rule!RulesInv'
  <2>1. \A p \in Requests, r \in Rules, d \in Comments : Rule!Sends(p, r, d)' => Rule!Sends(p, r, d)
    BY <1>1, <1>3 DEF Rule!run, Rule!Sends, Rule!TypeOK
  <2>2. QED BY <1>1, <1>3, <1>t, <2>1, RulesCalm DEF Rule!run, Rule!HasClaim, Rule!RulesInv, Rule!OneMessagePerRule
<1>4. ASSUME NEW q \in Requests, Rule!claimHit(q) PROVE Rule!RulesInv'
  <2>1. PICK r0 \in Rules, c0 \in Comments : reply[q].r = r0 /\ reply[q].c = c0
    BY <1>1, <1>4 DEF Rule!claimHit, Rule!TypeOK, Rule!Job, Rule!Idle
  <2>2. CASE Rule!Claimed(r0, c0) \/ rule[r0] = "gone"
    <3>1. \A p \in Requests, r \in Rules, d \in Comments : Rule!Sends(p, r, d)' => Rule!Sends(p, r, d)
      BY <1>1, <1>4, <2>1, <2>2 DEF Rule!claimHit, Rule!Sends, Rule!TypeOK, Rule!Idle
    <3>2. QED BY <1>1, <1>4, <1>t, <2>1, <2>2, <3>1, RulesCalm DEF Rule!claimHit, Rule!HasClaim, Rule!RulesInv, Rule!OneMessagePerRule
  <2>3. CASE ~(Rule!Claimed(r0, c0) \/ rule[r0] = "gone")
    <3>1. \A d \in Comments : Rule!Same(c0, d) => ~Rule!HasClaim(r0, d)
      BY <2>3 DEF Rule!Claimed, Rule!HasClaim, Rule!Same
    <3>2. \A r \in Rules, c \in Comments : Rule!HasClaim(r, c) => Rule!HasClaim(r, c)'
      BY <1>4, <2>1, <2>3 DEF Rule!claimHit, Rule!HasClaim
    <3>3. Rule!HasClaim(r0, c0)'
      <4>1. Rule!Hit(r0, c0) \in hits'
        BY <1>4, <2>1, <2>3 DEF Rule!claimHit
      <4>2. QED BY <4>1 DEF Rule!HasClaim, Rule!Hit
    <3>4. \A p \in Requests, r \in Rules, d \in Comments :
            Rule!Sends(p, r, d)' <=> Rule!Sends(p, r, d) \/ (p = q /\ r = r0 /\ d = c0)
      BY <1>1, <1>4, <2>1, <2>3 DEF Rule!claimHit, Rule!Sends, Rule!TypeOK, Rule!Idle
    <3>5. got' = got
      BY <1>4 DEF Rule!claimHit
    <3>6. Rule!ClaimsInv'
      <4> SUFFICES ASSUME NEW r \in Rules, NEW c \in Comments
          PROVE /\ got[r][c] > 0 => Rule!HasClaim(r, c)'
                /\ \A p \in Requests : Rule!Sends(p, r, c)' =>
                     /\ Rule!HasClaim(r, c)'
                     /\ \A d \in Comments : Rule!Same(c, d) =>
                          got[r][d] = 0 /\ \A o \in Requests \ {p} : ~Rule!Sends(o, r, d)'
        BY <3>5 DEF Rule!ClaimsInv, Rule!Same
      <4>1. got[r][c] > 0 => Rule!HasClaim(r, c)'
        BY <1>1, <3>2 DEF Rule!ClaimsInv
      <4>2. ASSUME NEW p \in Requests, Rule!Sends(p, r, c)', NEW d \in Comments, Rule!Same(c, d)
            PROVE got[r][d] = 0 /\ \A o \in Requests \ {p} : ~Rule!Sends(o, r, d)'
        <5>1. Rule!Same(d, c)
          BY <4>2 DEF Rule!Same
        <5>2. got[r][d] \in Nat
          BY <1>1 DEF Rule!TypeOK
        <5>3. CASE p = q /\ r = r0 /\ c = c0
          <6>1. ~Rule!HasClaim(r, d)
            BY <3>1, <4>2, <5>3
          <6>2. QED BY <1>1, <3>4, <5>2, <5>3, <6>1 DEF Rule!ClaimsInv
        <5>4. CASE Rule!Sends(p, r, c)
          <6>1. Rule!HasClaim(r, c)
            BY <1>1, <5>4 DEF Rule!ClaimsInv
          <6>2. r # r0 \/ d # c0
            BY <3>1, <4>2, <5>1, <6>1
          <6>3. QED BY <1>1, <3>4, <4>2, <5>4, <6>2 DEF Rule!ClaimsInv
        <5>5. QED BY <3>4, <4>2, <5>3, <5>4
      <4>3. ASSUME NEW p \in Requests, Rule!Sends(p, r, c)' PROVE Rule!HasClaim(r, c)'
        <5>1. CASE Rule!Sends(p, r, c)
          BY <1>1, <3>2, <5>1 DEF Rule!ClaimsInv
        <5>2. CASE r = r0 /\ c = c0
          BY <3>3, <5>2 DEF Rule!HasClaim
        <5>3. QED BY <3>4, <4>3, <5>1, <5>2
      <4>4. QED BY <4>1, <4>2, <4>3
    <3>7. QED BY <1>1, <1>t, <3>5, <3>6 DEF Rule!RulesInv, Rule!OneMessagePerRule
  <2>4. QED BY <2>2, <2>3
<1>5. ASSUME NEW q \in Requests, Rule!privateReply(q) PROVE Rule!RulesInv'
  <2> DEFINE j == reply[q]
  <2>1. j.r \in Rules /\ j.c \in Comments /\ Rule!Sends(q, j.r, j.c)
    BY <1>1, <1>5 DEF Rule!privateReply, Rule!TypeOK, Rule!Job, Rule!Idle, Rule!Sends
  <2>2. \A p \in Requests, r \in Rules, d \in Comments : Rule!Sends(p, r, d)' => p # q /\ Rule!Sends(p, r, d)
    BY <1>1, <1>5 DEF Rule!privateReply, Rule!Sends, Rule!TypeOK
  <2>3. hits' = hits /\ rule' = rule
    BY <1>5 DEF Rule!privateReply
  <2>4. CASE got' = got
    BY <1>1, <1>t, <2>2, <2>3, <2>4, RulesCalm DEF Rule!HasClaim, Rule!RulesInv, Rule!OneMessagePerRule
  <2>5. CASE got' = [got EXCEPT ![j.r][j.c] = @ + 1]
    <3>1. Rule!HasClaim(j.r, j.c) /\ \A d \in Comments : Rule!Same(j.c, d) => got[j.r][d] = 0
      BY <1>1, <2>1 DEF Rule!ClaimsInv
    <3>2. \A r \in Rules, c \in Comments :
            got'[r][c] = IF r = j.r /\ c = j.c THEN 1 ELSE got[r][c]
      BY <1>1, <2>1, <2>5, <3>1 DEF Rule!TypeOK, Rule!Same
    <3>3. \A r \in Rules, c \in Comments : Rule!HasClaim(r, c)' <=> Rule!HasClaim(r, c)
      BY <2>3 DEF Rule!HasClaim
    <3>4. Rule!ClaimsInv'
      <4> SUFFICES ASSUME NEW r \in Rules, NEW c \in Comments
          PROVE /\ got'[r][c] > 0 => Rule!HasClaim(r, c)'
                /\ \A p \in Requests : Rule!Sends(p, r, c)' =>
                     /\ Rule!HasClaim(r, c)'
                     /\ \A d \in Comments : Rule!Same(c, d) =>
                          got'[r][d] = 0 /\ \A o \in Requests \ {p} : ~Rule!Sends(o, r, d)'
        BY DEF Rule!ClaimsInv, Rule!Same
      <4>1. got'[r][c] > 0 => Rule!HasClaim(r, c)'
        BY <1>1, <3>1, <3>2, <3>3 DEF Rule!ClaimsInv
      <4>2. ASSUME NEW p \in Requests, Rule!Sends(p, r, c)', NEW d \in Comments, Rule!Same(c, d)
            PROVE got'[r][d] = 0 /\ \A o \in Requests \ {p} : ~Rule!Sends(o, r, d)'
        <5>1. p # q /\ Rule!Sends(p, r, c)
          BY <2>2, <4>2
        <5>2. r # j.r \/ d # j.c
          BY <1>1, <2>1, <4>2, <5>1 DEF Rule!ClaimsInv
        <5>3. QED BY <1>1, <2>2, <3>2, <4>2, <5>1, <5>2 DEF Rule!ClaimsInv
      <4>3. QED BY <1>1, <2>2, <3>3, <4>1, <4>2 DEF Rule!ClaimsInv
    <3>5. Rule!OneMessagePerRule'
      <4> SUFFICES ASSUME NEW r \in Rules, NEW c \in Comments, NEW d \in Comments
          PROVE /\ got'[r][c] <= 1
                /\ c # d /\ AuthorOf[c] = AuthorOf[d] => got'[r][c] + got'[r][d] <= 1
        BY DEF Rule!OneMessagePerRule
      <4>1. got[r][c] \in Nat /\ got[r][d] \in Nat
        BY <1>1 DEF Rule!TypeOK
      <4>2. CASE r = j.r /\ c = j.c
        BY <3>1, <3>2, <4>1, <4>2 DEF Rule!Same
      <4>3. CASE r = j.r /\ d = j.c
        BY <1>1, <3>1, <3>2, <4>1, <4>3 DEF Rule!Same, Rule!OneMessagePerRule
      <4>4. CASE r # j.r \/ (c # j.c /\ d # j.c)
        BY <1>1, <3>2, <4>1, <4>4 DEF Rule!OneMessagePerRule
      <4>5. QED BY <4>2, <4>3, <4>4
    <3>6. QED BY <1>t, <3>4, <3>5 DEF Rule!RulesInv
  <2>6. QED BY <1>5, <2>4, <2>5 DEF Rule!privateReply
<1>6. ASSUME NEW q \in Requests, Rule!finishHit(q) PROVE Rule!RulesInv'
  <2>1. \A p \in Requests, r \in Rules, d \in Comments : Rule!Sends(p, r, d)' => Rule!Sends(p, r, d)
    BY <1>1, <1>6 DEF Rule!finishHit, Rule!Sends, Rule!TypeOK, Rule!Idle
  <2>2. \A h \in hits : \E g \in hits' : g.rule = h.rule /\ g.author = h.author
    <3>1. SUFFICES ASSUME NEW h \in hits PROVE \E g \in hits' : g.rule = h.rule /\ g.author = h.author
      OBVIOUS
    <3>2. h \in [rule : Rules, comment : Comments, author : {AuthorOf[c] : c \in Comments}, ok : BOOLEAN]
      BY <1>1 DEF Rule!TypeOK
    <3>3. h \in hits' \/ [h EXCEPT !.ok = reply[q].ok] \in hits'
      BY <1>6 DEF Rule!finishHit
    <3>4. QED BY <3>2, <3>3
  <2>3. \A r \in Rules, c \in Comments : Rule!HasClaim(r, c) => Rule!HasClaim(r, c)'
    <3>1. rule' = rule
      BY <1>6 DEF Rule!finishHit
    <3>2. QED BY ONLY <2>2, <3>1 DEF Rule!HasClaim
  <2>4. QED BY <1>1, <1>6, <1>t, <2>1, <2>3, RulesCalm DEF Rule!finishHit, Rule!RulesInv, Rule!OneMessagePerRule
<1>7. CASE Rule!Restart
  <2>1. \A p \in Requests, r \in Rules, d \in Comments : Rule!Sends(p, r, d)' => Rule!Sends(p, r, d)
    BY <1>7 DEF Rule!Restart, Rule!Sends, Rule!Idle
  <2>2. QED BY <1>1, <1>7, <1>t, <2>1, RulesCalm DEF Rule!Restart, Rule!HasClaim, Rule!RulesInv, Rule!OneMessagePerRule
<1>8. CASE UNCHANGED rules
  BY <1>1, <1>t, <1>8 DEF rules, Rule!RulesInv, Rule!ClaimsInv, Rule!OneMessagePerRule, Rule!HasClaim, Rule!Sends
<1>9. QED BY <1>2, <1>3, <1>4, <1>5, <1>6, <1>7, <1>8 DEF Rule!Next

-----------------------------------------------------------------------------
(* The inbox: messages, the automatic answer, the staff and the read marks.*)
LEMMA TalkInit == Talk!Init => Talk!TalkInv
<1> SUFFICES ASSUME Talk!Init PROVE Talk!TalkInv OBVIOUS
<1>1. Talk!TypeOK
  <2>1. Talk!Idle \in Talk!Job BY DEF Talk!Job
  <2>2. QED BY <2>1, TalkAssumption DEF Talk!Init, Talk!TypeOK, Talk!Idle
<1>2. Talk!AnswersInv /\ Talk!StaffInv /\ Talk!MarkInv
  BY <1>1 DEF Talk!Init, Talk!AnswersInv, Talk!StaffInv, Talk!MarkInv, Talk!Flowing, Talk!Kept, Talk!Idle
<1>3. Talk!FlowAnswersOnce /\ Talk!QuietAfterStaff /\ Talk!ReadWasShown
  BY DEF Talk!Init, Talk!FlowAnswersOnce, Talk!QuietAfterStaff, Talk!ReadWasShown
<1>4. QED BY <1>1, <1>2, <1>3 DEF Talk!TalkInv

LEMMA MessageType ==
  ASSUME NEW a \in Nat, NEW t \in Threads, NEW d \in {"IN", "OUT"}
  PROVE Talk!Message(a, t, d) \in Talk!Messages
BY DEF Talk!Message, Talk!Messages

LEMMA Records ==
  ASSUME Talk!TypeOK, NEW m \in Talk!Messages, NEW s \in BOOLEAN, m.at <= clock
  PROVE /\ rows \subseteq Talk!record(m, s) /\ Talk!record(m, s) \subseteq Talk!Messages
        /\ \A r \in Talk!record(m, s) : r.at <= clock
        /\ \E r \in Talk!record(m, s) : r.at = m.at
        /\ \A r \in Talk!record(m, s) \ rows :
             /\ ~Talk!Known(m) /\ ~Talk!Recorded(r.at) /\ (r.read => r.dir = "OUT")
             /\ r.at = m.at /\ r.t = m.t /\ r.dir = m.dir /\ r.staff = s
<1> DEFINE n == [m EXCEPT !.staff = s, !.read = m.dir = "OUT"]
<1>1. n.at = m.at /\ n.t = m.t /\ n.dir = m.dir
  BY DEF Talk!Messages
<1>2. n.staff = s
  BY DEF Talk!Messages
<1>3. n.read = (m.dir = "OUT")
  BY DEF Talk!Messages
<1>4. n \in Talk!Messages
  BY DEF Talk!Messages
<1>5. Talk!record(m, s) = IF Talk!Known(m) THEN rows ELSE rows \cup {n}
  BY DEF Talk!record
<1>6. CASE Talk!Known(m)
  BY <1>5, <1>6 DEF Talk!Known, Talk!TypeOK
<1>7. CASE ~Talk!Known(m)
  <2>1. \A r \in Talk!record(m, s) \ rows : r = n
    BY <1>5, <1>7
  <2>2. n \in Talk!record(m, s) /\ rows \subseteq Talk!record(m, s)
    BY <1>5, <1>7
  <2>3. ~Talk!Recorded(n.at) /\ (n.read => n.dir = "OUT")
    BY <1>1, <1>3, <1>7 DEF Talk!Recorded, Talk!Known
  <2>4. QED BY <1>1, <1>2, <1>4, <1>7, <2>1, <2>2, <2>3 DEF Talk!TypeOK
<1>8. QED BY <1>6, <1>7

LEMMA SentBefore ==
  ASSUME Talk!TypeOK, NEW q \in Requests, talkJob[q].at \in {"note", "keep"}
  PROVE talkJob[q].out \in Nat /\ talkJob[q].out <= clock
BY DEF Talk!TypeOK, Talk!Job, Talk!Idle

LEMMA TalkTypeStep == ASSUME Talk!TypeOK, [Talk!Next]_talk PROVE Talk!TypeOK'
<1> USE TalkAssumption
<1>1. ASSUME NEW t \in Threads, Talk!CustomerWrites(t) PROVE Talk!TypeOK'
  <2>1. clock + 1 \in Nat
    BY DEF Talk!TypeOK
  <2>2. Talk!Message(clock + 1, t, "IN") \in Talk!Messages /\ Talk!Message(clock + 1, t, "IN").at = clock + 1
    BY <2>1, MessageType DEF Talk!Message
  <2>3. clock' = clock + 1 /\ meta' = meta \cup {Talk!Message(clock + 1, t, "IN")}
    BY <1>1 DEF Talk!CustomerWrites, Talk!Write
  <2>4. meta' \subseteq Talk!Messages /\ \A m \in meta' : m.at <= clock'
    BY <2>1, <2>2, <2>3 DEF Talk!TypeOK, Talk!Messages
  <2>5. \A r \in rows : r.at <= clock'
    BY <2>3 DEF Talk!TypeOK, Talk!Messages
  <2>6. \A q \in Requests : talkJob[q].at \in {"note", "keep"} => talkJob[q].out <= clock'
    BY <2>1, <2>3, SentBefore DEF Talk!TypeOK
  <2>7. QED BY <1>1, <2>1, <2>3, <2>4, <2>5, <2>6 DEF Talk!CustomerWrites, Talk!TypeOK, Talk!seen, Talk!flowing
<1>2. CASE Talk!DayPasses
  BY <1>2 DEF Talk!DayPasses, Talk!TypeOK, Talk!seen, Talk!flowing
<1>3. CASE Talk!connectMeta \/ Talk!markAccount \/ Talk!disconnectAccount
  BY <1>3 DEF Talk!connectMeta, Talk!markAccount, Talk!disconnectAccount, Talk!Turn, Talk!TypeOK, Talk!seen, Talk!flowing
<1>4. CASE Talk!sync
  <2>1. PICK found \in Talk!fetchRecent : rows' = rows \cup UNION {Talk!record(m, FALSE) : m \in found}
    BY <1>4 DEF Talk!sync
  <2>2. \A m \in found : m \in Talk!Messages /\ m.at <= clock
    BY DEF Talk!fetchRecent, Talk!fbComments, Talk!conversations, Talk!TypeOK
  <2>3. \A m \in found : Talk!record(m, FALSE) \subseteq Talk!Messages /\ \A r \in Talk!record(m, FALSE) : r.at <= clock
    BY <2>2, Records
  <2>4. rows' \subseteq Talk!Messages /\ \A r \in rows' : r.at <= clock
    BY <2>1, <2>3 DEF Talk!TypeOK
  <2>5. QED BY <1>4, <2>4 DEF Talk!sync, Talk!TypeOK, Talk!seen, Talk!flowing
<1>5. CASE Talk!Restart
  BY <1>5 DEF Talk!Restart, Talk!TypeOK, Talk!seen, Talk!flowing, Talk!Job, Talk!Idle
<1>6. ASSUME NEW q \in Requests, NEW m \in meta, Talk!handleWebhook(q, m) PROVE Talk!TypeOK'
  <2>1. m \in Talk!Messages /\ m.at <= clock
    BY DEF Talk!TypeOK
  <2>2. rows' \subseteq Talk!Messages /\ \A r \in rows' : r.at <= clock
    BY <1>6, <2>1, Records DEF Talk!handleWebhook
  <2>3. talkJob' \in [Requests -> Talk!Job] /\ \A p \in Requests : talkJob'[p].at \in {"note", "keep"} => talkJob'[p].out <= clock
    BY <1>6, <2>1 DEF Talk!handleWebhook, Talk!Go, Talk!TypeOK, Talk!Job, Talk!Asked
  <2>4. QED BY <1>6, <2>2, <2>3 DEF Talk!handleWebhook, Talk!TypeOK, Talk!seen, Talk!flowing
<1>7. ASSUME NEW q \in Requests, Talk!FlowLooks(q) \/ Talk!FlowFails(q) \/ Talk!FlowSaves(q) PROVE Talk!TypeOK'
  <2>1. talkJob' \in [Requests -> Talk!Job] /\ \A p \in Requests : talkJob'[p].at \in {"note", "keep"} => talkJob'[p].out <= clock
    BY <1>7 DEF Talk!FlowLooks, Talk!FlowFails, Talk!FlowSaves, Talk!Go, Talk!TypeOK, Talk!Job, Talk!Asked, Talk!Idle
  <2>2. session' \in [Private -> Nat]
    <3>1. CASE talkJob[q].at = "save"
      <4>1. talkJob[q].k \in Nat
        BY <3>1 DEF Talk!TypeOK, Talk!Job, Talk!Idle
      <4>2. QED BY <1>7, <4>1 DEF Talk!FlowLooks, Talk!FlowFails, Talk!FlowSaves, Talk!TypeOK
    <3>2. QED BY <1>7, <3>1 DEF Talk!FlowLooks, Talk!FlowFails, Talk!FlowSaves, Talk!TypeOK
  <2>3. QED BY <1>7, <2>1, <2>2 DEF Talk!FlowLooks, Talk!FlowFails, Talk!FlowSaves, Talk!TypeOK, Talk!seen, Talk!flowing
<1>8. ASSUME NEW q \in Requests, Talk!FlowSays(q) PROVE Talk!TypeOK'
  <2>1. talkJob[q] \in [at : {"say"}, m : Talk!Asked, spoken : Nat, k : Nat]
    BY <1>8 DEF Talk!FlowSays, Talk!TypeOK, Talk!Job, Talk!Idle
  <2>n. clock + 1 \in Nat /\ clock' = clock + 1
    BY <1>8 DEF Talk!FlowSays, Talk!Write, Talk!TypeOK
  <2>r. [at |-> "note", m |-> talkJob[q].m, k |-> talkJob[q].k, out |-> clock + 1] \in Talk!Job
    BY <2>1, <2>n DEF Talk!Job
  <2>j. talkJob' = [talkJob EXCEPT ![q] = [at |-> "note", m |-> talkJob[q].m, k |-> talkJob[q].k, out |-> clock + 1]]
    BY <1>8 DEF Talk!FlowSays, Talk!Go
  <2>2. talkJob' \in [Requests -> Talk!Job] /\ \A p \in Requests : talkJob'[p].at \in {"note", "keep"} => talkJob'[p].out <= clock + 1
    <3>1. talkJob' \in [Requests -> Talk!Job]
      BY <2>r, <2>j DEF Talk!TypeOK
    <3>2. ASSUME NEW p \in Requests, talkJob'[p].at \in {"note", "keep"} PROVE talkJob'[p].out <= clock + 1
      <4>1. CASE p = q
        BY <2>j, <2>n, <4>1 DEF Talk!TypeOK
      <4>2. CASE p # q
        <5>1. talkJob'[p] = talkJob[p]
          BY <2>j, <4>2 DEF Talk!TypeOK
        <5>2. QED BY <3>2, <5>1, SentBefore DEF Talk!TypeOK
      <4>3. QED BY <4>1, <4>2
    <3>3. QED BY <3>1, <3>2
  <2>3. Talk!Message(clock + 1, talkJob[q].m.t, "OUT") \in Talk!Messages /\ Talk!Message(clock + 1, talkJob[q].m.t, "OUT").at = clock + 1
    BY <2>1, <2>n, MessageType DEF Talk!Message, Talk!Asked
  <2>4. meta' \subseteq Talk!Messages /\ \A m \in meta' : m.at <= clock'
    BY <1>8, <2>n, <2>3 DEF Talk!FlowSays, Talk!Write, Talk!TypeOK, Talk!Messages
  <2>5. answered' \subseteq Nat /\ again' \subseteq Nat /\ talkedOver' \subseteq Threads
    BY <1>8, <2>1, TalkAssumption DEF Talk!FlowSays, Talk!TypeOK, Talk!Asked, Talk!Messages
  <2>6. \A r \in rows : r.at <= clock'
    BY <2>n DEF Talk!TypeOK, Talk!Messages
  <2>7. QED BY <1>8, <2>n, <2>2, <2>4, <2>5, <2>6 DEF Talk!FlowSays, Talk!TypeOK, Talk!seen
<1>9. ASSUME NEW q \in Requests, Talk!FlowNotes(q) PROVE Talk!TypeOK'
  <2>1. talkJob[q] \in [at : {"note"}, m : Talk!Asked, k : Nat, out : Nat] /\ talkJob[q].out <= clock
    BY <1>9 DEF Talk!FlowNotes, Talk!TypeOK, Talk!Job, Talk!Idle
  <2>2. Talk!Message(talkJob[q].out, talkJob[q].m.t, "OUT") \in Talk!Messages /\ Talk!Message(talkJob[q].out, talkJob[q].m.t, "OUT").at <= clock
    BY <2>1, MessageType DEF Talk!Message, Talk!Asked, Talk!TypeOK
  <2>3. rows' \subseteq Talk!Messages /\ \A r \in rows' : r.at <= clock
    BY <1>9, <2>2, Records DEF Talk!FlowNotes
  <2>4. talkJob' \in [Requests -> Talk!Job] /\ \A p \in Requests : talkJob'[p].at \in {"note", "keep"} => talkJob'[p].out <= clock
    BY <1>9, <2>1 DEF Talk!FlowNotes, Talk!Go, Talk!TypeOK, Talk!Job
  <2>5. QED BY <1>9, <2>3, <2>4 DEF Talk!FlowNotes, Talk!TypeOK, Talk!seen, Talk!flowing
<1>10. ASSUME NEW q \in Requests, NEW t \in Threads, Talk!thread(q, t) \/ Talk!reply(q, t) PROVE Talk!TypeOK'
  <2>1. {r.at : r \in Talk!RowsOf(t)} \subseteq Nat /\ {r.at : r \in Talk!messages(t)} \subseteq Nat
    BY DEF Talk!RowsOf, Talk!messages, Talk!TypeOK, Talk!Messages
  <2>2. talkJob' \in [Requests -> Talk!Job] /\ \A p \in Requests : talkJob'[p].at \in {"note", "keep"} => talkJob'[p].out <= clock
    BY <1>10, <2>1 DEF Talk!thread, Talk!reply, Talk!Go, Talk!TypeOK, Talk!Job
  <2>3. QED BY <1>10, <2>1, <2>2 DEF Talk!thread, Talk!reply, Talk!TypeOK, Talk!seen, Talk!flowing
<1>11. ASSUME NEW q \in Requests, Talk!markRead(q) PROVE Talk!TypeOK'
  <2>1. talkJob[q] \in [at : {"mark"}, t : Threads, had : SUBSET Nat]
    BY <1>11 DEF Talk!markRead, Talk!TypeOK, Talk!Job, Talk!Idle
  <2>2. {r.at : r \in Talk!RowsOf(talkJob[q].t)} \subseteq Nat
    BY DEF Talk!RowsOf, Talk!TypeOK, Talk!Messages
  <2>3. ASSUME NEW r \in rows
        PROVE /\ [r EXCEPT !.read = r.read \/ Talk!Marked(r, talkJob[q].t)] \in Talk!Messages
              /\ [r EXCEPT !.read = r.read \/ Talk!Marked(r, talkJob[q].t)].at <= clock
    <3>1. r \in Talk!Messages /\ r.at <= clock /\ Talk!Marked(r, talkJob[q].t) \in BOOLEAN
      BY DEF Talk!TypeOK, Talk!Marked
    <3>2. QED BY <3>1 DEF Talk!Messages
  <2>4. rows' \subseteq Talk!Messages /\ \A r \in rows' : r.at <= clock
    BY <1>11, <2>3 DEF Talk!markRead
  <2>5. talkJob' \in [Requests -> Talk!Job] /\ \A p \in Requests : talkJob'[p].at \in {"note", "keep"} => talkJob'[p].out <= clock
    BY <1>11 DEF Talk!markRead, Talk!Go, Talk!TypeOK, Talk!Job, Talk!Idle
  <2>6. QED BY <1>11, <2>2, <2>4, <2>5 DEF Talk!markRead, Talk!TypeOK, Talk!flowing
<1>12. ASSUME NEW q \in Requests, Talk!ReplyGoes(q) PROVE Talk!TypeOK'
  <2>1. talkJob[q] \in [at : {"open", "reply"}, t : Threads]
    BY <1>12 DEF Talk!ReplyGoes, Talk!TypeOK, Talk!Job, Talk!Idle
  <2>2. talkJob' \in [Requests -> Talk!Job]
    BY <1>12, <2>1 DEF Talk!ReplyGoes, Talk!Go, Talk!TypeOK, Talk!Job
  <2>n. clock + 1 \in Nat /\ clock' \in {clock, clock + 1}
    BY <1>12 DEF Talk!ReplyGoes, Talk!Write, Talk!TypeOK
  <2>3. ASSUME NEW p \in Requests, talkJob'[p].at \in {"note", "keep"} PROVE talkJob'[p].out <= clock'
    <3>1. CASE p = q
      <4>1. talkJob'[q] \in {Talk!Idle, [at |-> "keep", t |-> talkJob[q].t, out |-> clock + 1]}
        BY <1>12 DEF Talk!ReplyGoes, Talk!Go, Talk!TypeOK
      <4>2. talkJob'[q] # Talk!Idle
        BY <2>3, <3>1 DEF Talk!Idle
      <4>3. clock' = clock + 1
        BY <1>12, <4>2 DEF Talk!ReplyGoes, Talk!Go, Talk!Write, Talk!TypeOK
      <4>4. QED BY <2>n, <3>1, <4>1, <4>2, <4>3
    <3>2. CASE p # q
      <4>1. talkJob'[p] = talkJob[p]
        BY <1>12, <3>2 DEF Talk!ReplyGoes, Talk!Go, Talk!TypeOK
      <4>2. QED BY <2>n, <2>3, <4>1, SentBefore DEF Talk!TypeOK
    <3>3. QED BY <3>1, <3>2
  <2>4. Talk!Message(clock + 1, talkJob[q].t, "OUT") \in Talk!Messages /\ Talk!Message(clock + 1, talkJob[q].t, "OUT").at = clock + 1
    BY <2>1, <2>n, MessageType DEF Talk!Message
  <2>5. meta' \subseteq Talk!Messages /\ \A m \in meta' : m.at <= clock'
    BY <1>12, <2>n, <2>4 DEF Talk!ReplyGoes, Talk!Write, Talk!TypeOK, Talk!Messages
  <2>6. \A r \in rows : r.at <= clock'
    BY <2>n DEF Talk!TypeOK, Talk!Messages
  <2>7. QED BY <1>12, <2>n, <2>2, <2>3, <2>5, <2>6 DEF Talk!ReplyGoes, Talk!TypeOK, Talk!seen, Talk!flowing
<1>13. ASSUME NEW q \in Requests, Talk!ReplyKept(q) PROVE Talk!TypeOK'
  <2> DEFINE m == Talk!Message(talkJob[q].out, talkJob[q].t, "OUT")
  <2>1. talkJob[q] \in [at : {"keep"}, t : Threads, out : Nat] /\ talkJob[q].out <= clock
    BY <1>13 DEF Talk!ReplyKept, Talk!TypeOK, Talk!Job, Talk!Idle
  <2>2. m \in Talk!Messages /\ m.at = talkJob[q].out /\ m.t = talkJob[q].t
    BY <2>1, MessageType DEF Talk!Message
  <2>3. rows' \subseteq Talk!Messages /\ \A r \in rows' : r.at <= clock
    BY <1>13, <2>1, <2>2, Records DEF Talk!ReplyKept
  <2>4. talkJob' \in [Requests -> Talk!Job] /\ \A p \in Requests : talkJob'[p].at \in {"note", "keep"} => talkJob'[p].out <= clock
    BY <1>13, <2>1 DEF Talk!ReplyKept, Talk!Go, Talk!TypeOK, Talk!Job
  <2>5. spoke' \in [Threads -> Nat] /\ overtaken' \subseteq Threads
    BY <1>13, <2>1, <2>2 DEF Talk!ReplyKept, Talk!TypeOK
  <2>6. QED BY <1>13, <2>3, <2>4, <2>5 DEF Talk!ReplyKept, Talk!TypeOK, Talk!seen
<1>14. CASE UNCHANGED talk
  BY <1>14 DEF talk, Talk!seen, Talk!flowing, Talk!TypeOK
<1>15. QED BY <1>1, <1>2, <1>3, <1>4, <1>5, <1>6, <1>7, <1>8, <1>9, <1>10, <1>11, <1>12, <1>13, <1>14 DEF Talk!Next

\* Every step but the marking only adds rows: of messages that were not
\* recorded yet, and that count as read when the account wrote them.
Grown == rows \subseteq rows' /\ \A r \in rows' \ rows : ~Talk!Recorded(r.at) /\ (r.read => r.dir = "OUT")

LEMMA RowsGrow ==
  ASSUME Talk!TypeOK, Talk!TypeOK', [Talk!Next]_talk
  PROVE Grown \/ \E q \in Requests : Talk!markRead(q)
<1>1. CASE Talk!sync
  <2>1. PICK found \in Talk!fetchRecent : rows' = rows \cup UNION {Talk!record(m, FALSE) : m \in found}
    BY <1>1 DEF Talk!sync
  <2>2. \A m \in found : m \in Talk!Messages /\ m.at <= clock
    BY DEF Talk!fetchRecent, Talk!fbComments, Talk!conversations, Talk!TypeOK
  <2>3. \A m \in found : \A r \in Talk!record(m, FALSE) \ rows : ~Talk!Recorded(r.at) /\ (r.read => r.dir = "OUT")
    BY <2>2, Records
  <2>4. QED BY <2>1, <2>3 DEF Grown
<1>2. ASSUME NEW q \in Requests, NEW m \in meta, Talk!handleWebhook(q, m) PROVE Grown
  BY <1>2, Records DEF Talk!handleWebhook, Grown, Talk!TypeOK
<1>3. ASSUME NEW q \in Requests, Talk!FlowNotes(q) PROVE Grown
  <2> DEFINE m == Talk!Message(talkJob[q].out, talkJob[q].m.t, "OUT")
  <2>1. talkJob[q] \in [at : {"note"}, m : Talk!Asked, k : Nat, out : Nat] /\ talkJob[q].out <= clock
    BY <1>3 DEF Talk!FlowNotes, Talk!TypeOK, Talk!Job, Talk!Idle
  <2>2. m \in Talk!Messages /\ m.at <= clock
    <3>1. talkJob[q].m.t \in Threads
      BY <2>1 DEF Talk!Asked, Talk!Messages
    <3>2. QED BY <2>1, <3>1, MessageType DEF Talk!Message
  <2>3. QED BY <1>3, <2>2, Records DEF Talk!FlowNotes, Grown
<1>4. ASSUME NEW q \in Requests, Talk!ReplyKept(q) PROVE Grown
  <2> DEFINE m == Talk!Message(talkJob[q].out, talkJob[q].t, "OUT")
  <2>1. talkJob[q] \in [at : {"keep"}, t : Threads, out : Nat] /\ talkJob[q].out <= clock
    BY <1>4 DEF Talk!ReplyKept, Talk!TypeOK, Talk!Job, Talk!Idle
  <2>2. m \in Talk!Messages /\ m.at <= clock
    BY <2>1, MessageType DEF Talk!Message
  <2>3. QED BY <1>4, <2>2, Records DEF Talk!ReplyKept, Grown
<1>5. CASE rows' = rows
  BY <1>5 DEF Grown
<1>6. QED
  BY <1>1, <1>2, <1>3, <1>4, <1>5
  DEF Talk!Next, talk, Talk!seen, Talk!flowing, Talk!DayPasses, Talk!Restart, Talk!connectMeta, Talk!markAccount, Talk!disconnectAccount, Talk!Turn, Talk!CustomerWrites, Talk!thread, Talk!reply,
      Talk!FlowLooks, Talk!FlowSays, Talk!FlowFails, Talk!FlowSaves, Talk!ReplyGoes

\* The marking leaves everything of a row but its mark.
Marking == \E t \in Threads : rows' = {[r EXCEPT !.read = r.read \/ Talk!Marked(r, t)] : r \in rows}
LEMMA MarkedRow ==
  ASSUME NEW r \in Talk!Messages, NEW t
  PROVE LET s == [r EXCEPT !.read = r.read \/ Talk!Marked(r, t)] IN
        s.at = r.at /\ s.t = r.t /\ s.dir = r.dir /\ s.staff = r.staff /\ (s.read <=> r.read \/ r.t = t)
BY DEF Talk!Messages, Talk!Marked
LEMMA MarkingMarks ==
  ASSUME Talk!TypeOK, NEW q \in Requests, Talk!markRead(q)
  PROVE Marking /\ talkJob[q].t \in Threads
<1>1. talkJob[q].t \in Threads
  BY DEF Talk!markRead, Talk!TypeOK, Talk!Job, Talk!Idle
<1>2. QED BY <1>1 DEF Talk!markRead, Marking

\* A row stays, with who wrote it.
LEMMA RowsStay ==
  ASSUME Talk!TypeOK, Grown \/ Marking
  PROVE /\ \A r \in rows : \E s \in rows' : s.at = r.at /\ s.t = r.t /\ s.dir = r.dir /\ s.staff = r.staff
        /\ \A s \in rows' : Talk!Recorded(s.at) => \E r \in rows : s.at = r.at /\ s.t = r.t /\ s.dir = r.dir
<1>1. CASE Grown
  BY <1>1 DEF Grown, Talk!Recorded
<1>2. CASE Marking
  <2>1. PICK t \in Threads : rows' = {[r EXCEPT !.read = r.read \/ Talk!Marked(r, t)] : r \in rows}
    BY <1>2 DEF Marking
  <2>2. rows \subseteq Talk!Messages
    BY DEF Talk!TypeOK
  <2>3. ASSUME NEW r \in rows
        PROVE \E s \in rows' : s.at = r.at /\ s.t = r.t /\ s.dir = r.dir /\ s.staff = r.staff
    <3>1. [r EXCEPT !.read = r.read \/ Talk!Marked(r, t)] \in rows'
      BY <2>1
    <3>2. QED BY <2>2, <3>1, MarkedRow
  <2>4. ASSUME NEW s \in rows'
        PROVE \E r \in rows : s.at = r.at /\ s.t = r.t /\ s.dir = r.dir
    <3>1. PICK r \in rows : s = [r EXCEPT !.read = r.read \/ Talk!Marked(r, t)]
      BY <2>1
    <3>2. QED BY <2>2, <3>1, MarkedRow
  <2>5. QED BY <2>3, <2>4
<1>3. QED BY <1>1, <1>2

LEMMA RecordedStays ==
  ASSUME Talk!TypeOK, Grown \/ Marking, NEW a, Talk!Recorded(a) PROVE Talk!Recorded(a)'
BY RowsStay DEF Talk!Recorded

LEMMA KeptStays ==
  ASSUME Talk!TypeOK, Grown \/ Marking, overtaken \subseteq overtaken', NEW t, NEW a, Talk!Kept(t, a) PROVE Talk!Kept(t, a)'
BY RowsStay DEF Talk!Kept, Talk!RowsOf

LEMMA SameCount == \A S : Talk!Cardinality(S) = Cardinality(S)
BY DEF Talk!Cardinality, Cardinality

\* What lies behind the messages a thread shows stays behind.
LEMMA BehindStays ==
  ASSUME Talk!TypeOK, Talk!TypeOK', Grown \/ Marking, NEW r, NEW s, s.t = r.t, s.at = r.at, s.at \in Nat, Talk!Behind(r) PROVE Talk!Behind(s)'
<1>1. Talk!Before(r) \subseteq Talk!Before(s)'
  BY RowsStay DEF Talk!Before, Talk!RowsOf
<1>2. Talk!Before(s)' \subseteq 0..s.at
  BY DEF Talk!Before, Talk!RowsOf, Talk!TypeOK, Talk!Messages
<1>3. IsFiniteSet(Talk!Before(s)')
  BY <1>2, FS_Interval, FS_Subset, 0 \in Int, s.at \in Int
<1>4. Cardinality(Talk!Before(r)) <= Cardinality(Talk!Before(s)') /\ Cardinality(Talk!Before(r)) \in Nat /\ Cardinality(Talk!Before(s)') \in Nat
  BY <1>1, <1>3, FS_Subset, FS_CardinalityType
<1>5. QED BY <1>4, SameCount, TalkAssumption DEF Talk!Behind

\* What a step does to the requests of the flow.
LEMMA FlowingStep ==
  ASSUME Talk!TypeOK, [Talk!Next]_talk, NEW q \in Requests, Talk!Flowing(q)'
  PROVE \/ Talk!Flowing(q) /\ talkJob'[q].m = talkJob[q].m /\ talkJob'[q].spoken = talkJob[q].spoken
        \/ \E m \in meta : Talk!handleWebhook(q, m) /\ talkJob'[q] = [at |-> "flow", m |-> m, spoken |-> spoke[m.t]]
<1> USE DEF Talk!Flowing
<1>1. CASE \E t \in Threads : Talk!CustomerWrites(t)
  BY <1>1 DEF Talk!CustomerWrites
<1>2. CASE Talk!DayPasses \/ Talk!sync \/ Talk!connectMeta \/ Talk!markAccount \/ Talk!disconnectAccount \/ UNCHANGED talk
  BY <1>2 DEF Talk!DayPasses, Talk!sync, Talk!connectMeta, Talk!markAccount, Talk!disconnectAccount, Talk!Turn, talk
<1>3. CASE Talk!Restart
  BY <1>3 DEF Talk!Restart, Talk!Idle
<1>4. ASSUME NEW p \in Requests, NEW m \in meta, Talk!handleWebhook(p, m)
      PROVE \/ Talk!Flowing(q) /\ talkJob'[q] = talkJob[q]
            \/ p = q /\ talkJob'[q] = [at |-> "flow", m |-> m, spoken |-> spoke[m.t]]
  BY <1>4 DEF Talk!handleWebhook, Talk!Go, Talk!TypeOK, Talk!Idle
<1>5. ASSUME NEW p \in Requests, Talk!FlowLooks(p)
      PROVE Talk!Flowing(q) /\ talkJob'[q].m = talkJob[q].m /\ talkJob'[q].spoken = talkJob[q].spoken
  BY <1>5 DEF Talk!FlowLooks, Talk!Go, Talk!TypeOK, Talk!Idle
<1>6. ASSUME NEW p \in Requests, Talk!FlowSays(p) \/ Talk!FlowFails(p) \/ Talk!FlowNotes(p) \/ Talk!FlowSaves(p)
      PROVE Talk!Flowing(q) /\ talkJob'[q] = talkJob[q]
  <2>1. talkJob'[p].at \in {"note", "save", "idle"} /\ \A o \in Requests \ {p} : talkJob'[o] = talkJob[o]
    <3>1. CASE Talk!FlowSays(p)
      BY <3>1 DEF Talk!FlowSays, Talk!Go, Talk!TypeOK
    <3>2. CASE Talk!FlowFails(p)
      BY <3>2 DEF Talk!FlowFails, Talk!Go, Talk!TypeOK
    <3>3. CASE Talk!FlowNotes(p)
      BY <3>3 DEF Talk!FlowNotes, Talk!Go, Talk!TypeOK
    <3>4. CASE Talk!FlowSaves(p)
      BY <3>4 DEF Talk!FlowSaves, Talk!Go, Talk!TypeOK, Talk!Idle
    <3>5. QED BY <1>6, <3>1, <3>2, <3>3, <3>4
  <2>2. QED BY <2>1
<1>7. ASSUME NEW p \in Requests, Talk!markRead(p) \/ Talk!ReplyGoes(p) \/ Talk!ReplyKept(p)
      PROVE Talk!Flowing(q) /\ talkJob'[q] = talkJob[q]
  <2>1. talkJob'[p].at \in {"idle", "keep", "open"} /\ \A o \in Requests \ {p} : talkJob'[o] = talkJob[o]
    <3>1. CASE Talk!markRead(p)
      BY <3>1 DEF Talk!markRead, Talk!Go, Talk!TypeOK, Talk!Idle
    <3>2. CASE Talk!ReplyGoes(p)
      BY <3>2 DEF Talk!ReplyGoes, Talk!Go, Talk!TypeOK, Talk!Idle
    <3>3. CASE Talk!ReplyKept(p)
      BY <3>3 DEF Talk!ReplyKept, Talk!Go, Talk!TypeOK
    <3>4. QED BY <1>7, <3>1, <3>2, <3>3
  <2>2. QED BY <2>1
<1>8. ASSUME NEW p \in Requests, NEW t \in Threads, Talk!thread(p, t) \/ Talk!reply(p, t)
      PROVE Talk!Flowing(q) /\ talkJob'[q] = talkJob[q]
  BY <1>8 DEF Talk!thread, Talk!reply, Talk!Go, Talk!TypeOK, Talk!Idle
<1>9. QED BY <1>1, <1>2, <1>3, <1>4, <1>5, <1>6, <1>7, <1>8 DEF Talk!Next

\* A request comes from "flow" to "say" by looking.
LEMMA OnlyLooks ==
  ASSUME Talk!TypeOK, [Talk!Next]_talk, NEW q \in Requests, talkJob[q].at = "flow", talkJob'[q].at = "say" PROVE Talk!FlowLooks(q)
<1> SUFFICES ASSUME ~Talk!FlowLooks(q) PROVE FALSE OBVIOUS
<1>1. talkJob'[q] = talkJob[q] \/ talkJob'[q] = Talk!Idle
  <2>1. ASSUME NEW p \in Requests, Talk!FlowLooks(p) \/ Talk!FlowSays(p) \/ Talk!FlowFails(p) \/ Talk!FlowNotes(p) \/ Talk!FlowSaves(p)
        PROVE talkJob'[q] = talkJob[q]
    BY <2>1 DEF Talk!FlowLooks, Talk!FlowSays, Talk!FlowFails, Talk!FlowNotes, Talk!FlowSaves, Talk!Go, Talk!TypeOK
  <2>2. ASSUME NEW p \in Requests, Talk!markRead(p) \/ Talk!ReplyGoes(p) \/ Talk!ReplyKept(p)
        PROVE talkJob'[q] = talkJob[q]
    BY <2>2 DEF Talk!markRead, Talk!ReplyGoes, Talk!ReplyKept, Talk!Go, Talk!TypeOK
  <2>3. ASSUME NEW p \in Requests, NEW t \in Threads, Talk!thread(p, t) \/ Talk!reply(p, t)
        PROVE talkJob'[q] = talkJob[q]
    BY <2>3 DEF Talk!thread, Talk!reply, Talk!Go, Talk!TypeOK, Talk!Idle
  <2>4. ASSUME NEW p \in Requests, NEW m \in meta, Talk!handleWebhook(p, m)
        PROVE talkJob'[q] = talkJob[q]
    BY <2>4 DEF Talk!handleWebhook, Talk!Go, Talk!TypeOK, Talk!Idle
  <2>5. QED
    BY <2>1, <2>2, <2>3, <2>4
    DEF Talk!Next, talk, Talk!DayPasses, Talk!sync, Talk!Restart, Talk!connectMeta, Talk!markAccount, Talk!disconnectAccount, Talk!Turn, Talk!CustomerWrites
<1>2. QED BY <1>1 DEF Talk!Idle

LEMMA RowsStep ==
  ASSUME Talk!TypeOK, Talk!TypeOK', [Talk!Next]_talk PROVE Grown \/ Marking
BY RowsGrow, MarkingMarks

LEMMA AnswersStep ==
  ASSUME Talk!TypeOK, Talk!TypeOK', Talk!AnswersInv, Talk!FlowAnswersOnce, [Talk!Next]_talk
  PROVE Talk!AnswersInv' /\ Talk!FlowAnswersOnce'
<1>r. \A a : Talk!Recorded(a) => Talk!Recorded(a)'
  BY RowsStep, RecordedStays
<1>1. ASSUME NEW q \in Requests, Talk!FlowSays(q) PROVE Talk!AnswersInv' /\ Talk!FlowAnswersOnce'
  <2>1. Talk!Flowing(q) /\ Talk!Recorded(talkJob[q].m.at) /\ talkJob[q].m.at \notin answered
    BY <1>1 DEF Talk!AnswersInv, Talk!Flowing, Talk!FlowSays
  <2>2. answered' = answered \cup {talkJob[q].m.at} /\ again' = {}
    BY <1>1, <2>1 DEF Talk!FlowSays, Talk!FlowAnswersOnce
  <2>3. \A p \in Requests : Talk!Flowing(p)' => p # q /\ Talk!Flowing(p) /\ talkJob'[p] = talkJob[p]
    BY <1>1 DEF Talk!FlowSays, Talk!Go, Talk!Flowing, Talk!TypeOK
  <2>4. \A p \in Requests : Talk!Flowing(p)' => talkJob[p].m.at # talkJob[q].m.at
    BY <2>1, <2>3 DEF Talk!AnswersInv
  <2>5. QED BY <1>r, <2>1, <2>2, <2>3, <2>4 DEF Talk!AnswersInv, Talk!FlowAnswersOnce
<1>2. ASSUME NEW q \in Requests, NEW m \in meta, Talk!handleWebhook(q, m),
             talkJob'[q] = [at |-> "flow", m |-> m, spoken |-> spoke[m.t]]
      PROVE Talk!AnswersInv' /\ Talk!FlowAnswersOnce'
  <2>1. ~Talk!Recorded(m.at)
    BY <1>2 DEF Talk!handleWebhook, Talk!Recorded, Talk!Known, Talk!Idle, Talk!TypeOK
  <2>2. Talk!Recorded(m.at)'
    <3>1. \E r \in Talk!record(m, FALSE) : r.at = m.at
      BY Records DEF Talk!TypeOK
    <3>2. QED BY <1>2, <3>1 DEF Talk!handleWebhook, Talk!Recorded
  <2>3. \A p \in Requests \ {q} : talkJob'[p] = talkJob[p]
    BY <1>2 DEF Talk!handleWebhook, Talk!Go, Talk!TypeOK
  <2>4. answered' = answered /\ again' = again
    BY <1>2 DEF Talk!handleWebhook, Talk!flowing
  <2>5. \A p \in Requests \ {q} : Talk!Flowing(p)' => Talk!Recorded(talkJob[p].m.at) /\ talkJob[p].m.at # m.at
    BY <2>1, <2>3 DEF Talk!AnswersInv, Talk!Flowing
  <2>6. Talk!AnswersInv'
    <3>1. \A a \in answered' : Talk!Recorded(a)'
      BY <1>r, <2>4 DEF Talk!AnswersInv
    <3>2. ASSUME NEW o \in Requests, Talk!Flowing(o)'
          PROVE /\ Talk!Recorded(talkJob[o].m.at)' /\ talkJob'[o].m.at \notin answered'
                /\ \A p \in Requests \ {o} : Talk!Flowing(p)' => talkJob'[p].m.at # talkJob'[o].m.at
      <4>1. CASE o = q
        BY <1>2, <2>1, <2>2, <2>3, <2>4, <2>5, <4>1 DEF Talk!AnswersInv
      <4>2. CASE o # q
        BY <1>r, <1>2, <2>3, <2>4, <2>5, <3>2, <4>2 DEF Talk!AnswersInv, Talk!Flowing
      <4>3. QED BY <4>1, <4>2
    <3>3. QED BY <3>1, <3>2 DEF Talk!AnswersInv
  <2>7. QED BY <2>4, <2>6 DEF Talk!FlowAnswersOnce
<1>3. ASSUME \A q \in Requests : ~Talk!FlowSays(q),
             \A q \in Requests : Talk!Flowing(q)' => Talk!Flowing(q) /\ talkJob'[q].m = talkJob[q].m
      PROVE Talk!AnswersInv' /\ Talk!FlowAnswersOnce'
  <2>1. answered' = answered /\ again' = again
    BY <1>3
    DEF Talk!Next, talk, Talk!flowing, Talk!DayPasses, Talk!sync, Talk!Restart, Talk!connectMeta, Talk!markAccount, Talk!disconnectAccount, Talk!Turn, Talk!CustomerWrites, Talk!thread, Talk!reply,
        Talk!FlowLooks, Talk!FlowFails, Talk!FlowNotes, Talk!FlowSaves, Talk!markRead, Talk!ReplyGoes, Talk!ReplyKept, Talk!handleWebhook
  <2>2. QED BY <1>r, <1>3, <2>1 DEF Talk!AnswersInv, Talk!FlowAnswersOnce
<1>4. QED BY <1>1, <1>2, <1>3, FlowingStep

LEMMA StaffStep ==
  ASSUME Talk!TypeOK, Talk!TypeOK', Talk!StaffInv, Talk!QuietAfterStaff, [Talk!Next]_talk
  PROVE Talk!StaffInv' /\ Talk!QuietAfterStaff'
<1>o. overtaken \subseteq overtaken' /\ today' >= today /\ ((\A q \in Requests : ~Talk!ReplyKept(q)) => spoke' = spoke)
  <2>1. ASSUME NEW q \in Requests, Talk!ReplyKept(q) PROVE overtaken \subseteq overtaken' /\ today' >= today
    BY <2>1 DEF Talk!ReplyKept, Talk!TypeOK
  <2>2. CASE Talk!DayPasses
    <3>1. overtaken' = overtaken /\ spoke' = spoke
      BY <2>2 DEF Talk!DayPasses, Talk!flowing
    <3>2. today' >= today
      BY <2>2 DEF Talk!DayPasses, Talk!TypeOK
    <3>3. QED BY <3>1, <3>2
  <2>3. CASE ~Talk!DayPasses /\ \A q \in Requests : ~Talk!ReplyKept(q)
    <3>1. overtaken' = overtaken /\ today' = today /\ spoke' = spoke
      BY <2>3 DEF Talk!Next, talk, Talk!flowing, Talk!sync, Talk!Restart, Talk!connectMeta, Talk!markAccount, Talk!disconnectAccount, Talk!Turn, Talk!CustomerWrites, Talk!thread, Talk!reply,
             Talk!FlowLooks, Talk!FlowFails, Talk!FlowNotes, Talk!FlowSaves, Talk!FlowSays, Talk!markRead, Talk!ReplyGoes, Talk!handleWebhook
    <3>2. QED BY <3>1 DEF Talk!TypeOK
  <2>4. QED BY <2>1, <2>2, <2>3
<1>k. \A t, a : Talk!Kept(t, a) => Talk!Kept(t, a)'
  BY <1>o, RowsStep, KeptStays
<1>1. \A t \in Threads : Talk!Kept(t, spoke[t])'
  <2>1. ASSUME NEW q \in Requests, Talk!ReplyKept(q), NEW t \in Threads PROVE Talk!Kept(t, spoke[t])'
    <3> DEFINE m == Talk!Message(talkJob[q].out, talkJob[q].t, "OUT")
    <3>1. talkJob[q] \in [at : {"keep"}, t : Threads, out : Nat] /\ talkJob[q].out <= clock
      BY <2>1 DEF Talk!ReplyKept, Talk!TypeOK, Talk!Job, Talk!Idle
    <3>2. m \in Talk!Messages /\ m.at = talkJob[q].out /\ m.t = talkJob[q].t /\ m.dir = "OUT"
      BY <3>1, MessageType DEF Talk!Message
    <3>3. CASE t # talkJob[q].t \/ spoke'[t] = spoke[t]
      BY <1>k, <2>1, <3>2, <3>3 DEF Talk!ReplyKept, Talk!StaffInv, Talk!TypeOK
    <3>4. CASE t = talkJob[q].t /\ spoke'[t] = m.at
      <4>1. CASE Talk!Known(m)
        BY <2>1, <3>2, <3>4, <4>1 DEF Talk!ReplyKept, Talk!Kept
      <4>2. CASE ~Talk!Known(m)
        <5>1. PICK r \in Talk!record(m, TRUE) : r.at = m.at
          BY <3>1, <3>2, Records
        <5>2. r \notin rows
          BY <4>2, <5>1 DEF Talk!Known
        <5>3. r.t = m.t /\ r.dir = "OUT" /\ r.staff
          BY <3>1, <3>2, <5>1, <5>2, Records
        <5>4. r \in rows'
          BY <2>1, <5>1 DEF Talk!ReplyKept
        <5>5. QED BY <3>2, <3>4, <5>1, <5>3, <5>4 DEF Talk!Kept, Talk!RowsOf
      <4>3. QED BY <4>1, <4>2
    <3>5. QED BY <2>1, <3>2, <3>3, <3>4 DEF Talk!ReplyKept, Talk!TypeOK
  <2>2. QED BY <1>k, <1>o, <2>1 DEF Talk!StaffInv
<1>2. ASSUME NEW q \in Requests, Talk!Flowing(q)'
      PROVE /\ Talk!Kept(talkJob[q].m.t, talkJob[q].spoken)'
            /\ talkJob'[q].at = "say" /\ talkJob'[q].spoken > today' => talkJob'[q].m.t \in overtaken'
  <2>1. CASE \E m \in meta : Talk!handleWebhook(q, m) /\ talkJob'[q] = [at |-> "flow", m |-> m, spoken |-> spoke[m.t]]
    <3>1. PICK m \in meta : Talk!handleWebhook(q, m) /\ talkJob'[q] = [at |-> "flow", m |-> m, spoken |-> spoke[m.t]]
      BY <2>1
    <3>2. m.t \in Threads
      BY DEF Talk!TypeOK, Talk!Messages
    <3>3. Talk!Kept(m.t, spoke[m.t])
      BY <3>2 DEF Talk!StaffInv
    <3>4. QED BY <1>k, <3>1, <3>3
  <2>2. CASE Talk!Flowing(q) /\ talkJob'[q].m = talkJob[q].m /\ talkJob'[q].spoken = talkJob[q].spoken
    <3>1. Talk!Kept(talkJob[q].m.t, talkJob[q].spoken)
      BY <2>2 DEF Talk!StaffInv
    <3>2. Talk!Kept(talkJob[q].m.t, talkJob[q].spoken)'
      BY <1>k, <2>2, <3>1
    <3>3. ASSUME talkJob'[q].at = "say", talkJob'[q].spoken > today' PROVE talkJob'[q].m.t \in overtaken'
      <4>1. talkJob[q].spoken \in Nat /\ talkJob[q].spoken > today /\ talkJob[q].m.t \in Threads
        <5>1. talkJob[q].spoken \in Nat /\ talkJob[q].m \in Talk!Asked
          BY <2>2 DEF Talk!Flowing, Talk!TypeOK, Talk!Job, Talk!Idle
        <5>2. QED BY <1>o, <2>2, <3>3, <5>1 DEF Talk!TypeOK, Talk!Asked, Talk!Messages
      <4>2. CASE talkJob[q].at = "say"
        BY <1>o, <2>2, <4>1, <4>2 DEF Talk!StaffInv
      <4>3. CASE talkJob[q].at = "flow"
        <5>1. Talk!FlowLooks(q)
          BY <3>3, <4>3, OnlyLooks
        <5>2. ~Talk!staffRepliedSince(talkJob[q].m.t)
          BY <3>3, <5>1 DEF Talk!FlowLooks, Talk!Go, Talk!TypeOK, Talk!Idle
        <5>3. talkJob[q].m.t \in overtaken
          BY <3>1, <4>1, <5>2 DEF Talk!Kept, Talk!staffRepliedSince, Talk!Recent, Talk!TypeOK
        <5>4. QED BY <1>o, <2>2, <5>3
      <4>4. QED BY <2>2, <4>2, <4>3 DEF Talk!Flowing
    <3>4. QED BY <3>2, <3>3
  <2>3. QED BY <1>2, <2>1, <2>2, FlowingStep
<1>3. Talk!QuietAfterStaff'
  <2>1. ASSUME NEW q \in Requests, Talk!FlowSays(q) PROVE talkedOver' \subseteq overtaken'
    <3>1. Talk!Flowing(q) /\ talkJob[q].at = "say"
      BY <2>1 DEF Talk!FlowSays, Talk!Flowing
    <3>2. talkJob[q].spoken > today => talkJob[q].m.t \in overtaken
      BY <3>1 DEF Talk!StaffInv
    <3>3. QED BY <1>o, <2>1, <3>2 DEF Talk!FlowSays, Talk!QuietAfterStaff
  <2>2. CASE \A q \in Requests : ~Talk!FlowSays(q)
    <3>1. talkedOver' = talkedOver
      BY <2>2
      DEF Talk!Next, talk, Talk!flowing, Talk!DayPasses, Talk!sync, Talk!Restart, Talk!connectMeta, Talk!markAccount, Talk!disconnectAccount, Talk!Turn, Talk!CustomerWrites, Talk!thread, Talk!reply,
          Talk!FlowLooks, Talk!FlowFails, Talk!FlowNotes, Talk!FlowSaves, Talk!markRead, Talk!ReplyGoes, Talk!ReplyKept, Talk!handleWebhook
    <3>2. QED BY <1>o, <3>1 DEF Talk!QuietAfterStaff
  <2>3. QED BY <2>1, <2>2 DEF Talk!QuietAfterStaff
<1>4. QED BY <1>1, <1>2, <1>3 DEF Talk!StaffInv

\* What a step does to the requests that are about to mark a thread.
LEMMA MarkJobs ==
  ASSUME Talk!TypeOK, [Talk!Next]_talk, NEW q \in Requests, talkJob'[q].at = "mark"
  PROVE talkJob'[q] = talkJob[q] \/ \E t \in Threads : Talk!thread(q, t)
<1> SUFFICES ASSUME talkJob'[q] # talkJob[q] PROVE \E t \in Threads : Talk!thread(q, t) OBVIOUS
<1>1. ASSUME NEW p \in Requests PROVE ~(Talk!FlowLooks(p) \/ Talk!FlowSays(p) \/ Talk!FlowFails(p) \/ Talk!FlowNotes(p) \/ Talk!FlowSaves(p))
  <2>1. CASE Talk!FlowLooks(p)
    BY <2>1 DEF Talk!FlowLooks, Talk!Go, Talk!TypeOK, Talk!Idle
  <2>2. CASE Talk!FlowSays(p)
    BY <2>2 DEF Talk!FlowSays, Talk!Go, Talk!TypeOK
  <2>3. CASE Talk!FlowFails(p)
    BY <2>3 DEF Talk!FlowFails, Talk!Go, Talk!TypeOK
  <2>4. CASE Talk!FlowNotes(p)
    BY <2>4 DEF Talk!FlowNotes, Talk!Go, Talk!TypeOK
  <2>5. CASE Talk!FlowSaves(p)
    BY <2>5 DEF Talk!FlowSaves, Talk!Go, Talk!TypeOK, Talk!Idle
  <2>6. QED BY <2>1, <2>2, <2>3, <2>4, <2>5
<1>2. ASSUME NEW p \in Requests PROVE ~(Talk!markRead(p) \/ Talk!ReplyGoes(p) \/ Talk!ReplyKept(p))
  <2>1. CASE Talk!markRead(p)
    BY <2>1 DEF Talk!markRead, Talk!Go, Talk!TypeOK, Talk!Idle
  <2>2. CASE Talk!ReplyGoes(p)
    BY <2>2 DEF Talk!ReplyGoes, Talk!Go, Talk!TypeOK, Talk!Idle
  <2>3. CASE Talk!ReplyKept(p)
    BY <2>3 DEF Talk!ReplyKept, Talk!Go, Talk!TypeOK
  <2>4. QED BY <2>1, <2>2, <2>3
<1>3. ASSUME NEW p \in Requests, NEW t \in Threads, Talk!reply(p, t) PROVE FALSE
  BY <1>3 DEF Talk!reply, Talk!Go, Talk!TypeOK
<1>4. ASSUME NEW p \in Requests, NEW t \in Threads, Talk!thread(p, t) PROVE p = q
  BY <1>4 DEF Talk!thread, Talk!Go, Talk!TypeOK
<1>5. ASSUME NEW p \in Requests, NEW m \in meta, Talk!handleWebhook(p, m) PROVE FALSE
  BY <1>5 DEF Talk!handleWebhook, Talk!Go, Talk!TypeOK
<1>6. talkJob' # talkJob /\ ~Talk!Restart
  BY DEF Talk!Restart, Talk!Idle
<1>7. QED
  BY <1>1, <1>2, <1>3, <1>4, <1>5, <1>6
  DEF Talk!Next, talk, Talk!DayPasses, Talk!sync, Talk!connectMeta, Talk!markAccount, Talk!disconnectAccount, Talk!Turn, Talk!CustomerWrites

LEMMA ReadStep ==
  ASSUME Talk!TypeOK, Talk!TypeOK', Talk!MarkInv, Talk!ReadWasShown, [Talk!Next]_talk
  PROVE Talk!MarkInv' /\ Talk!ReadWasShown'
<1>w. Grown \/ Marking
  BY RowsStep
<1>s. shown \subseteq shown' /\ passed \subseteq passed'
  <2>1. ASSUME NEW q \in Requests, Talk!markRead(q) PROVE shown \subseteq shown' /\ passed \subseteq passed'
    BY <2>1 DEF Talk!markRead
  <2>2. ASSUME NEW q \in Requests, NEW t \in Threads, Talk!thread(q, t) PROVE shown \subseteq shown' /\ passed \subseteq passed'
    BY <2>2 DEF Talk!thread
  <2>3. CASE shown' = shown /\ passed' = passed
    BY <2>3
  <2>4. QED
    BY <2>1, <2>2, <2>3
    DEF Talk!Next, talk, Talk!seen, Talk!DayPasses, Talk!sync, Talk!Restart, Talk!connectMeta, Talk!markAccount, Talk!disconnectAccount, Talk!Turn, Talk!CustomerWrites, Talk!reply,
        Talk!FlowLooks, Talk!FlowSays, Talk!FlowFails, Talk!FlowNotes, Talk!FlowSaves, Talk!ReplyGoes, Talk!ReplyKept, Talk!handleWebhook
<1>1. Talk!MarkInv'
  <2> SUFFICES ASSUME NEW q \in Requests, talkJob'[q].at = "mark", NEW a \in talkJob'[q].had
      PROVE Talk!Recorded(a)' /\ \A r \in rows' : r.t = talkJob'[q].t /\ r.at = a => a \in shown' \/ Talk!Behind(r)'
    BY DEF Talk!MarkInv, Talk!RowsOf
  <2>1. Talk!Recorded(a) /\ \A r \in rows : r.t = talkJob'[q].t /\ r.at = a => a \in shown' \/ Talk!Behind(r)
    <3>1. CASE talkJob'[q] = talkJob[q]
      BY <1>s, <3>1 DEF Talk!MarkInv, Talk!RowsOf
    <3>2. ASSUME NEW t \in Threads, Talk!thread(q, t) PROVE Talk!Recorded(a) /\ \A r \in rows : r.t = talkJob'[q].t /\ r.at = a => a \in shown' \/ Talk!Behind(r)
      <4>1. talkJob'[q].t = t /\ talkJob'[q].had = {r.at : r \in Talk!RowsOf(t)} /\ shown' = shown \cup {r.at : r \in Talk!messages(t)}
        BY <3>2 DEF Talk!thread, Talk!Go, Talk!TypeOK
      <4>2. QED BY <4>1 DEF Talk!Recorded, Talk!RowsOf, Talk!messages
    <3>3. QED BY <3>1, <3>2, MarkJobs
  <2>2. Talk!Recorded(a)'
    BY <1>w, <2>1, RecordedStays
  <2>3. ASSUME NEW s \in rows', s.t = talkJob'[q].t, s.at = a PROVE a \in shown' \/ Talk!Behind(s)'
    <3>1. PICK r \in rows : s.at = r.at /\ s.t = r.t
      BY <1>w, <2>1, <2>3, RowsStay
    <3>2. s.at \in Nat
      BY DEF Talk!TypeOK, Talk!Messages
    <3>3. QED BY <1>w, <2>1, <2>3, <3>1, <3>2, BehindStays
  <2>4. QED BY <2>2, <2>3
<1>2. Talk!ReadWasShown'
  <2> SUFFICES ASSUME NEW s \in rows', s.dir = "IN", s.read
      PROVE s.at \in shown' \cup passed' \/ Talk!Behind(s)'
    BY DEF Talk!ReadWasShown
  <2>n. s.at \in Nat
    BY DEF Talk!TypeOK, Talk!Messages
  <2>1. CASE Grown
    <3>1. s \in rows
      BY <2>1 DEF Grown
    <3>2. s.at \in shown \cup passed \/ Talk!Behind(s)
      BY <3>1 DEF Talk!ReadWasShown
    <3>3. QED BY <1>s, <1>w, <2>n, <3>2, BehindStays
  <2>2. ASSUME NEW q \in Requests, Talk!markRead(q) PROVE s.at \in shown' \cup passed' \/ Talk!Behind(s)'
    <3>1. rows' = {[r EXCEPT !.read = r.read \/ Talk!Marked(r, talkJob[q].t)] : r \in rows} /\ talkJob[q].at = "mark"
          /\ passed' = passed \cup ({r.at : r \in Talk!RowsOf(talkJob[q].t)} \ talkJob[q].had)
      BY <2>2 DEF Talk!markRead
    <3>2. PICK r \in rows : s = [r EXCEPT !.read = r.read \/ Talk!Marked(r, talkJob[q].t)]
      BY <3>1
    <3>3. s.at = r.at /\ s.t = r.t /\ s.dir = r.dir /\ (r.read \/ r.t = talkJob[q].t)
      BY <3>2, MarkedRow DEF Talk!TypeOK
    <3>4. r.at \in shown \cup passed' \/ Talk!Behind(r)
      <4>1. CASE r.read
        BY <1>s, <3>3, <4>1 DEF Talk!ReadWasShown
      <4>2. CASE r.t = talkJob[q].t /\ r.at \in talkJob[q].had
        BY <3>1, <4>2 DEF Talk!MarkInv, Talk!RowsOf
      <4>3. CASE r.t = talkJob[q].t /\ r.at \notin talkJob[q].had
        BY <3>1, <4>3 DEF Talk!RowsOf
      <4>4. QED BY <3>3, <4>1, <4>2, <4>3
    <3>5. QED BY <1>s, <1>w, <2>n, <3>3, <3>4, BehindStays
  <2>3. QED BY <2>1, <2>2, RowsGrow
<1>3. QED BY <1>1, <1>2

LEMMA TalkInvStep == ASSUME Talk!TalkInv, [Talk!Next]_talk PROVE Talk!TalkInv'
BY TalkTypeStep, AnswersStep, StaffStep, ReadStep DEF Talk!TalkInv

-----------------------------------------------------------------------------
(* Boosted posts.                                                          *)
LEMMA AdsInit == Boosts!Init => Boosts!AdsInv
<1> SUFFICES ASSUME Boosts!Init PROVE Boosts!AdsInv OBVIOUS
<1>i. Boosts!Idle \in Boosts!Job
  BY DEF Boosts!Job
<1>1. Boosts!TypeOK
  BY <1>i DEF Boosts!Init, Boosts!TypeOK, Boosts!Idle, Boosts!NoAd, Boosts!NoCampaign, Boosts!Money
<1>2. ASSUME NEW a \in Ads PROVE Boosts!AdInv(a)
  BY DEF Boosts!Init, Boosts!AdInv, Boosts!RowOf, Boosts!On, Boosts!NoAd, Boosts!NoCampaign
<1>3. QED BY <1>1, <1>2 DEF Boosts!AdsInv

\* What a request is, by where it is.
LEMMA JobType ==
  ASSUME Boosts!TypeOK, NEW q \in Requests, boost[q] # Boosts!Idle
  PROVE boost[q] \in [at : Boosts!Making \cup Boosts!Orders \cup {"failed"}, a : Ads, do : {"boost", "PAUSED", "ACTIVE", "budget", "refresh"},
                    b : Boosts!Money, s : Boosts!Told \cup {"none"}, alone : BOOLEAN]
BY DEF Boosts!TypeOK, Boosts!Job

LEMMA JobOn ==
  ASSUME Boosts!TypeOK, NEW q \in Requests, boost[q] # Boosts!Idle PROVE boost[q].a \in Ads /\ q \in Boosts!On(boost[q].a)
BY JobType DEF Boosts!On

\* A request begins: the others on its ad are no longer alone.
LEMMA Begins ==
  ASSUME Boosts!TypeOK, NEW q \in Requests, boost[q] = Boosts!Idle, NEW a \in Ads, NEW at \in Boosts!Making \cup Boosts!Orders,
         NEW do \in {"boost", "PAUSED", "ACTIVE", "budget", "refresh"}, NEW b \in Boosts!Money, Boosts!Begin(q, at, a, do, b),
         at \in {"command", "done"} => do \in {"PAUSED", "ACTIVE", "budget"}
  PROVE /\ boost'[q] = [at |-> at, a |-> a, do |-> do, b |-> b, s |-> "none", alone |-> Boosts!On(a) = {}]
        /\ \A p \in Requests \ {q} :
             /\ boost'[p] = Boosts!Idle <=> boost[p] = Boosts!Idle
             /\ boost'[p].at = boost[p].at
             /\ boost[p] # Boosts!Idle => /\ boost'[p].a = boost[p].a /\ boost'[p].do = boost[p].do /\ boost'[p].b = boost[p].b /\ boost'[p].s = boost[p].s
                                          /\ boost'[p].alone => boost[p].alone /\ boost[p].a # a
        /\ \A c : Boosts!On(c)' = IF c = a THEN Boosts!On(c) \cup {q} ELSE Boosts!On(c)
        /\ boost' \in [Requests -> Boosts!Job]
        /\ \A p \in Requests : boost'[p].at \in {"command", "done"} => boost'[p].do \in {"PAUSED", "ACTIVE", "budget"}
<1> DEFINE new == [at |-> at, a |-> a, do |-> do, b |-> b, s |-> "none", alone |-> Boosts!On(a) = {}]
<1>1. boost' = [p \in Requests |-> IF p = q THEN new ELSE IF p \in Boosts!On(a) THEN [boost[p] EXCEPT !.alone = FALSE] ELSE boost[p]]
  BY DEF Boosts!Begin
<1>2. new \in Boosts!Job /\ new # Boosts!Idle
  <2>1. (Boosts!On(a) = {}) \in BOOLEAN
    OBVIOUS
  <2>2. new \in Boosts!Job
    BY <2>1 DEF Boosts!Job
  <2>3. new.at # "idle"
    BY DEF Boosts!Making, Boosts!Orders
  <2>4. QED BY <2>2, <2>3 DEF Boosts!Idle
<1>3. ASSUME NEW p \in Requests \ {q}
      PROVE /\ boost'[p] \in Boosts!Job
            /\ boost'[p] = Boosts!Idle <=> boost[p] = Boosts!Idle
            /\ boost'[p].at = boost[p].at
            /\ boost[p] # Boosts!Idle => /\ boost'[p].a = boost[p].a /\ boost'[p].do = boost[p].do /\ boost'[p].b = boost[p].b /\ boost'[p].s = boost[p].s
                                         /\ boost'[p].alone => boost[p].alone /\ boost[p].a # a
  <2>1. CASE p \notin Boosts!On(a)
    BY <1>1, <2>1 DEF Boosts!On, Boosts!TypeOK
  <2>2. CASE p \in Boosts!On(a)
    <3>1. boost'[p] = [boost[p] EXCEPT !.alone = FALSE] /\ boost[p] # Boosts!Idle
      BY <1>1, <2>2 DEF Boosts!On
    <3>2. boost[p] \in [at : Boosts!Making \cup Boosts!Orders \cup {"failed"}, a : Ads, do : {"boost", "PAUSED", "ACTIVE", "budget", "refresh"},
                      b : Boosts!Money, s : Boosts!Told \cup {"none"}, alone : BOOLEAN]
      BY <3>1, JobType
    <3>3. boost'[p] \in [at : Boosts!Making \cup Boosts!Orders \cup {"failed"}, a : Ads, do : {"boost", "PAUSED", "ACTIVE", "budget", "refresh"},
                       b : Boosts!Money, s : Boosts!Told \cup {"none"}, alone : BOOLEAN]
      BY <3>1, <3>2
    <3>4. boost'[p].at = boost[p].at /\ boost'[p].a = boost[p].a /\ boost'[p].do = boost[p].do /\ boost'[p].b = boost[p].b /\ boost'[p].s = boost[p].s
          /\ ~boost'[p].alone
      BY <3>1, <3>2
    <3>5. boost'[p] # Boosts!Idle
      BY <3>3 DEF Boosts!Idle, Boosts!Making, Boosts!Orders
    <3>6. QED BY <3>1, <3>3, <3>4, <3>5 DEF Boosts!Job
  <2>3. QED BY <2>1, <2>2
<1>4. boost'[q] = new
  BY <1>1
<1>5. ASSUME NEW c PROVE Boosts!On(c)' = IF c = a THEN Boosts!On(c) \cup {q} ELSE Boosts!On(c)
  BY <1>2, <1>3, <1>4 DEF Boosts!On
<1>6. boost' \in [Requests -> Boosts!Job]
  BY <1>1, <1>2, <1>3, <1>4
<1>7. ASSUME NEW p \in Requests, boost'[p].at \in {"command", "done"} PROVE boost'[p].do \in {"PAUSED", "ACTIVE", "budget"}
  <2>1. CASE p = q
    BY <1>4, <1>7, <2>1
  <2>2. CASE p # q
    <3>1. boost[p] # Boosts!Idle
      BY <1>3, <1>7, <2>2 DEF Boosts!Idle
    <3>2. QED BY <1>3, <1>7, <2>2, <3>1 DEF Boosts!TypeOK
  <2>3. QED BY <2>1, <2>2
<1>8. QED BY <1>3, <1>4, <1>5, <1>6, <1>7

\* A request goes on.
LEMMA GoesOn ==
  ASSUME Boosts!TypeOK, NEW q \in Requests, boost[q] # Boosts!Idle, NEW at \in Boosts!Making \cup Boosts!Orders \cup {"failed"}, Boosts!Go(q, at),
         at \in {"command", "done"} => boost[q].at \in {"command", "done"}
  PROVE /\ boost'[q].at = at /\ boost'[q].a = boost[q].a /\ boost'[q].do = boost[q].do /\ boost'[q].b = boost[q].b /\ boost'[q].s = boost[q].s
        /\ boost'[q].alone = boost[q].alone /\ boost'[q] # Boosts!Idle
        /\ \A p \in Requests \ {q} : boost'[p] = boost[p]
        /\ \A c : Boosts!On(c)' = Boosts!On(c)
        /\ boost' \in [Requests -> Boosts!Job]
        /\ \A p \in Requests : boost'[p].at \in {"command", "done"} => boost'[p].do \in {"PAUSED", "ACTIVE", "budget"}
<1>1. boost' = [boost EXCEPT ![q].at = at]
  BY DEF Boosts!Go
<1>2. boost[q] \in [at : Boosts!Making \cup Boosts!Orders \cup {"failed"}, a : Ads, do : {"boost", "PAUSED", "ACTIVE", "budget", "refresh"},
                  b : Boosts!Money, s : Boosts!Told \cup {"none"}, alone : BOOLEAN]
  BY JobType
<1>3. boost'[q] = [boost[q] EXCEPT !.at = at] /\ \A p \in Requests \ {q} : boost'[p] = boost[p]
  BY <1>1 DEF Boosts!TypeOK
<1>4. boost'[q] \in [at : Boosts!Making \cup Boosts!Orders \cup {"failed"}, a : Ads, do : {"boost", "PAUSED", "ACTIVE", "budget", "refresh"},
                   b : Boosts!Money, s : Boosts!Told \cup {"none"}, alone : BOOLEAN]
  BY <1>2, <1>3
<1>5. boost'[q] # Boosts!Idle
  BY <1>4 DEF Boosts!Idle, Boosts!Making, Boosts!Orders
<1>6. boost'[q].at = at /\ boost'[q].a = boost[q].a /\ boost'[q].do = boost[q].do /\ boost'[q].b = boost[q].b /\ boost'[q].s = boost[q].s
      /\ boost'[q].alone = boost[q].alone
  BY <1>2, <1>3
<1>7. \A c : Boosts!On(c)' = Boosts!On(c)
  <2> SUFFICES ASSUME NEW c, NEW p \in Requests PROVE p \in Boosts!On(c)' <=> p \in Boosts!On(c)
    BY DEF Boosts!On
  <2>1. CASE p = q
    BY <1>5, <1>6, <2>1 DEF Boosts!On
  <2>2. CASE p # q
    BY <1>3, <2>2 DEF Boosts!On
  <2>3. QED BY <2>1, <2>2
<1>8. boost' \in [Requests -> Boosts!Job]
  BY <1>1, <1>3, <1>4 DEF Boosts!TypeOK, Boosts!Job
<1>9. QED BY <1>3, <1>5, <1>6, <1>7, <1>8 DEF Boosts!TypeOK

\* A request ends.
LEMMA Ending ==
  ASSUME Boosts!TypeOK, NEW q \in Requests, boost[q] # Boosts!Idle, Boosts!End(q)
  PROVE /\ boost'[q] = Boosts!Idle /\ \A p \in Requests \ {q} : boost'[p] = boost[p]
        /\ \A c : Boosts!On(c)' = Boosts!On(c) \ {q}
        /\ boost' \in [Requests -> Boosts!Job]
        /\ \A p \in Requests : boost'[p].at \in {"command", "done"} => boost'[p].do \in {"PAUSED", "ACTIVE", "budget"}
<1>1. boost' = [boost EXCEPT ![q] = Boosts!Idle]
  BY DEF Boosts!End
<1>2. boost'[q] = Boosts!Idle /\ \A p \in Requests \ {q} : boost'[p] = boost[p]
  BY <1>1 DEF Boosts!TypeOK
<1>3. boost' \in [Requests -> Boosts!Job]
  BY <1>1 DEF Boosts!TypeOK, Boosts!Job
<1>4. \A p \in Requests : boost'[p].at \in {"command", "done"} => boost'[p].do \in {"PAUSED", "ACTIVE", "budget"}
  BY <1>2 DEF Boosts!TypeOK, Boosts!Idle
<1>5. \A c : Boosts!On(c)' = Boosts!On(c) \ {q}
  BY <1>2 DEF Boosts!On
<1>6. QED BY <1>2, <1>3, <1>4, <1>5

\* An ad that a step leaves alone, and its requests.
LEMMA AdFrame ==
  ASSUME NEW a, Boosts!AdInv(a), Boosts!On(a)' = Boosts!On(a),
         \A p \in Boosts!On(a) : /\ boost'[p].at = boost[p].at /\ boost'[p].do = boost[p].do /\ boost'[p].b = boost[p].b /\ boost'[p].s = boost[p].s
                                 /\ boost'[p].alone => boost[p].alone,
         ad'[a].status = ad[a].status, ad'[a].ids = ad[a].ids, ad'[a].budget = ad[a].budget,
         campaign'[a].status = campaign[a].status, campaign'[a].budget = campaign[a].budget,
         a \in lost => a \in lost', a \in mixed => a \in mixed', a \in doubtful => a \in doubtful'
  PROVE Boosts!AdInv(a)'
<1>1. Boosts!RowOf(a)'
  BY DEF Boosts!AdInv, Boosts!RowOf
<1>2. ASSUME NEW q \in Boosts!On(a) PROVE Boosts!MakingOn(q, a)' /\ Boosts!AskedOn(q, a)'
  <2>1. Boosts!MakingOn(q, a) /\ Boosts!AskedOn(q, a)
    BY DEF Boosts!AdInv
  <2>2. Boosts!MakingOn(q, a)'
    BY <2>1 DEF Boosts!MakingOn
  <2>3. Boosts!AskedOn(q, a)'
    BY <2>1 DEF Boosts!AskedOn
  <2>4. QED BY <2>2, <2>3
<1>3. QED BY <1>1, <1>2 DEF Boosts!AdInv

\* A step of one request on its ad concerns no other ad.
LEMMA OtherAds ==
  ASSUME Boosts!AdsInv, NEW q \in Requests, boost[q] # Boosts!Idle, NEW c \in Ads, c # boost[q].a,
         \A p \in Requests \ {q} : boost'[p] = boost[p], Boosts!On(c)' = Boosts!On(c) \/ Boosts!On(c)' = Boosts!On(c) \ {q},
         ad'[c] = ad[c], campaign'[c] = campaign[c],
         c \in lost => c \in lost', c \in mixed => c \in mixed', c \in doubtful => c \in doubtful'
  PROVE Boosts!AdInv(c)'
<1>1. q \notin Boosts!On(c)
  BY DEF Boosts!On
<1>2. Boosts!On(c)' = Boosts!On(c) /\ \A p \in Boosts!On(c) : boost'[p] = boost[p]
  BY <1>1 DEF Boosts!On
<1>3. QED BY <1>2, AdFrame DEF Boosts!AdsInv

\* A request that begins on an ad whose row allows it.
LEMMA BeginKeeps ==
  ASSUME Boosts!AdsInv, NEW q \in Requests, boost[q] = Boosts!Idle, NEW a \in Ads,
         NEW at \in {"row", "command", "refresh"}, NEW do \in {"boost", "PAUSED", "ACTIVE", "budget", "refresh"}, NEW b \in Boosts!Money,
         Boosts!Begin(q, at, a, do, b), at = "command" => do \in {"PAUSED", "ACTIVE", "budget"},
         at = "row" => ad[a].status = "none" /\ Boosts!On(a) = {}, at # "row" => ad[a].ids,
         UNCHANGED <<token, ad, campaign, lost, mixed, doubtful>>, events' \in Nat
  PROVE Boosts!AdsInv'
<1>1. Boosts!TypeOK /\ at \in Boosts!Making \cup Boosts!Orders /\ (at \in {"command", "done"} => do \in {"PAUSED", "ACTIVE", "budget"})
  BY DEF Boosts!AdsInv, Boosts!Making, Boosts!Orders
<1> DEFINE new == [at |-> at, a |-> a, do |-> do, b |-> b, s |-> "none", alone |-> Boosts!On(a) = {}]
<1>2. /\ boost'[q] = new
      /\ \A p \in Requests \ {q} :
           /\ boost'[p] = Boosts!Idle <=> boost[p] = Boosts!Idle
           /\ boost'[p].at = boost[p].at
           /\ boost[p] # Boosts!Idle => /\ boost'[p].a = boost[p].a /\ boost'[p].do = boost[p].do /\ boost'[p].b = boost[p].b /\ boost'[p].s = boost[p].s
                                        /\ boost'[p].alone => boost[p].alone /\ boost[p].a # a
      /\ \A c : Boosts!On(c)' = IF c = a THEN Boosts!On(c) \cup {q} ELSE Boosts!On(c)
      /\ boost' \in [Requests -> Boosts!Job]
      /\ \A p \in Requests : boost'[p].at \in {"command", "done"} => boost'[p].do \in {"PAUSED", "ACTIVE", "budget"}
  BY <1>1, Begins
<1>3. Boosts!TypeOK'
  BY <1>1, <1>2 DEF Boosts!TypeOK
<1>4. q \notin Boosts!On(a)
  BY DEF Boosts!On
<1>5. ASSUME NEW c \in Ads PROVE Boosts!AdInv(c)'
  <2>1. CASE c # a
    <3>1. Boosts!On(c)' = Boosts!On(c)
      BY <1>2, <2>1
    <3>2. ASSUME NEW p \in Boosts!On(c)
          PROVE /\ boost'[p].at = boost[p].at /\ boost'[p].do = boost[p].do /\ boost'[p].b = boost[p].b /\ boost'[p].s = boost[p].s
                /\ boost'[p].alone => boost[p].alone
      <4>1. p \in Requests \ {q} /\ boost[p] # Boosts!Idle
        BY <3>2 DEF Boosts!On
      <4>2. QED BY <1>2, <4>1
    <3>3. QED BY <3>1, <3>2, AdFrame DEF Boosts!AdsInv
  <2>2. CASE c = a
    <3>1. Boosts!AdInv(a)
      BY DEF Boosts!AdsInv
    <3>2. \A p \in Boosts!On(a) : /\ boost'[p].at = boost[p].at /\ boost'[p].do = boost[p].do /\ boost'[p].b = boost[p].b /\ boost'[p].s = boost[p].s
                                  /\ ~boost'[p].alone
      <4> SUFFICES ASSUME NEW p \in Boosts!On(a)
          PROVE /\ boost'[p].at = boost[p].at /\ boost'[p].do = boost[p].do /\ boost'[p].b = boost[p].b /\ boost'[p].s = boost[p].s
                /\ ~boost'[p].alone
        OBVIOUS
      <4>1. p \in Requests \ {q} /\ boost[p] # Boosts!Idle /\ boost[p].a = a
        BY <1>4 DEF Boosts!On
      <4>2. QED BY <1>2, <4>1
    <3>3. Boosts!On(a)' = Boosts!On(a) \cup {q}
      BY <1>2
    <3>4. Boosts!RowOf(a)'
      BY <3>1, <3>2, <3>3 DEF Boosts!AdInv, Boosts!RowOf
    <3>5. ASSUME NEW p \in Boosts!On(a) PROVE Boosts!MakingOn(p, a)' /\ Boosts!AskedOn(p, a)'
      <4>1. Boosts!MakingOn(p, a) /\ Boosts!AskedOn(p, a)
        BY <3>1 DEF Boosts!AdInv
      <4>2. at # "row" /\ ad[a].ids
        BY <3>5
      <4>3. Boosts!MakingOn(p, a)'
        BY <3>2, <3>5, <4>1, <4>2 DEF Boosts!MakingOn
      <4>4. Boosts!AskedOn(p, a)'
        BY <3>2, <3>5, <4>1 DEF Boosts!AskedOn
      <4>5. QED BY <4>3, <4>4
    <3>6. Boosts!MakingOn(q, a)'
      BY <1>2, <3>1, <3>3 DEF Boosts!MakingOn, Boosts!AdInv, Boosts!RowOf, Boosts!Making
    <3>7. Boosts!AskedOn(q, a)'
      <4>1. boost'[q].at = at
        BY <1>2
      <4>2. boost'[q].alone = (Boosts!On(a) = {})
        BY <1>2
      <4>3. boost'[q].alone => Boosts!On(a)' = {q}
        BY <3>3, <4>2
      <4>4. QED BY <4>1, <4>3 DEF Boosts!AskedOn, Boosts!Orders
    <3>8. QED BY <2>2, <3>3, <3>4, <3>5, <3>6, <3>7 DEF Boosts!AdInv
  <2>3. QED BY <2>1, <2>2
<1>6. QED BY <1>3, <1>5 DEF Boosts!AdsInv

\* What the ad of a request that goes on, or ends, has to fulfil.
LEMMA StepKeeps ==
  ASSUME Boosts!AdsInv, Boosts!TypeOK', NEW q \in Requests, boost[q] # Boosts!Idle,
         \A p \in Requests \ {q} : boost'[p] = boost[p],
         \A c : Boosts!On(c)' = Boosts!On(c) \/ Boosts!On(c)' = Boosts!On(c) \ {q},
         \A c \in Ads \ {boost[q].a} : ad'[c] = ad[c] /\ campaign'[c] = campaign[c],
         lost \subseteq lost', mixed \ {boost[q].a} \subseteq mixed', doubtful \subseteq doubtful',
         NEW a, a = boost[q].a, Boosts!RowOf(a)', \A p \in Boosts!On(a)' : Boosts!MakingOn(p, a)' /\ Boosts!AskedOn(p, a)'
  PROVE Boosts!AdsInv'
<1>1. ASSUME NEW c \in Ads, c # a PROVE Boosts!AdInv(c)'
  BY <1>1, OtherAds
<1>2. Boosts!AdInv(a)'
  BY DEF Boosts!AdInv
<1>3. QED BY <1>1, <1>2 DEF Boosts!AdsInv

LEMMA OthersKeep ==
  ASSUME Boosts!AdsInv, NEW q \in Requests, NEW a \in Ads, q \in Boosts!On(a), NEW p \in Boosts!On(a), p # q,
         boost'[p] = boost[p], lost \subseteq lost', ad[a].ids => ad'[a].ids
  PROVE Boosts!MakingOn(p, a)' /\ Boosts!AskedOn(p, a)'
<1>1. Boosts!MakingOn(p, a) /\ Boosts!AskedOn(p, a) /\ Boosts!On(a) # {p}
  BY DEF Boosts!AdsInv, Boosts!AdInv
<1>2. Boosts!MakingOn(p, a)'
  BY <1>1 DEF Boosts!MakingOn, Boosts!Making
<1>3. Boosts!AskedOn(p, a)'
  BY <1>1 DEF Boosts!AskedOn
<1>4. QED BY <1>2, <1>3

LEMMA MakingKeeps ==
  ASSUME Boosts!AdsInv, NEW q \in Requests,
         Boosts!createCampaign(q) \/ Boosts!MakeCampaign(q) \/ Boosts!createBoost(q) \/ Boosts!DeleteCampaign(q) \/ Boosts!KeepCampaign(q) \/ Boosts!FailCampaign(q)
  PROVE Boosts!AdsInv'
<1> DEFINE a == boost[q].a
           j == boost[q]
<1>1. Boosts!TypeOK /\ j # Boosts!Idle /\ a \in Ads /\ q \in Boosts!On(a) /\ j.b \in Boosts!Money
  <2>1. Boosts!TypeOK /\ j # Boosts!Idle
    BY DEF Boosts!AdsInv, Boosts!createCampaign, Boosts!MakeCampaign, Boosts!createBoost, Boosts!DeleteCampaign, Boosts!KeepCampaign, Boosts!FailCampaign, Boosts!Idle
  <2>2. QED BY <2>1, JobType, JobOn
<1>2. Boosts!AdInv(a) /\ Boosts!MakingOn(q, a) /\ Boosts!AskedOn(q, a)
  BY <1>1 DEF Boosts!AdsInv, Boosts!AdInv
<1>3. ASSUME Boosts!createCampaign(q) PROVE Boosts!AdsInv'
  <2>1. PICK c \in Ads : c = a
    BY <1>1
  <2>2. /\ Boosts!On(c) = {q} /\ ad[c].ids = FALSE /\ campaign[c].status = "none"
    BY <1>2, <1>3, <2>1 DEF Boosts!MakingOn, Boosts!createCampaign, Boosts!Making, Boosts!TypeOK
  <2>3. Boosts!Go(q, "ask") /\ ad' = [ad EXCEPT ![c] = [status |-> "CREATING", ids |-> FALSE, budget |-> j.b, young |-> TRUE]]
        /\ UNCHANGED <<token, campaign, lost, mixed, doubtful, events>>
    BY <1>3, <2>1 DEF Boosts!createCampaign
  <2>4. /\ boost'[q].at = "ask" /\ boost'[q].a = c /\ boost'[q].b = boost[q].b /\ boost'[q].alone = boost[q].alone
        /\ \A p \in Requests \ {q} : boost'[p] = boost[p]
        /\ \A d : Boosts!On(d)' = Boosts!On(d)
        /\ boost' \in [Requests -> Boosts!Job] /\ \A p \in Requests : boost'[p].at \in {"command", "done"} => boost'[p].do \in {"PAUSED", "ACTIVE", "budget"}
    BY <1>1, <2>1, <2>3, GoesOn DEF Boosts!Making
  <2>5. Boosts!TypeOK'
    BY <1>1, <2>3, <2>4 DEF Boosts!TypeOK
  <2>6. Boosts!RowOf(c)'
    BY <1>1, <1>2, <2>1, <2>2, <2>3, <2>4 DEF Boosts!RowOf, Boosts!AdInv, Boosts!FINAL, Boosts!TypeOK
  <2>7. Boosts!MakingOn(q, c)'
    BY <1>1, <1>2, <2>1, <2>2, <2>3, <2>4 DEF Boosts!MakingOn, Boosts!Making, Boosts!TypeOK
  <2>8. Boosts!AskedOn(q, c)'
    BY <1>2, <2>1, <2>2, <2>4 DEF Boosts!AskedOn, Boosts!Orders
  <2>9. \A p \in Boosts!On(c)' : p = q
    BY <2>2, <2>4
  <2>10. QED BY <1>1, <2>1, <2>3, <2>4, <2>5, <2>6, <2>7, <2>8, <2>9, StepKeeps DEF Boosts!TypeOK
<1>4. ASSUME Boosts!MakeCampaign(q) PROVE Boosts!AdsInv'
  <2>1. PICK c \in Ads : c = a
    BY <1>1
  <2>2. Boosts!On(c) = {q} /\ ad[c].ids = FALSE /\ ad[c].status = "CREATING" /\ campaign[c].status = "none" /\ ad[c].budget = j.b
    BY <1>2, <1>4, <2>1 DEF Boosts!MakingOn, Boosts!MakeCampaign, Boosts!Making, Boosts!TypeOK
  <2>3. UNCHANGED <<token, ad, lost, mixed, doubtful, events>>
    BY <1>4 DEF Boosts!MakeCampaign
  <2>4. PICK at \in {"failed", "build"} :
          Boosts!Go(q, at) /\ campaign' = IF at = "failed" THEN campaign
                                      ELSE [campaign EXCEPT ![c] = [status |-> "PAUSED", review |-> "waiting", ended |-> FALSE, budget |-> j.b]]
    BY <1>4, <2>1 DEF Boosts!MakeCampaign
  <2>5. /\ boost'[q].at = at /\ boost'[q].a = c /\ boost'[q].b = boost[q].b /\ boost'[q].alone = boost[q].alone
        /\ \A p \in Requests \ {q} : boost'[p] = boost[p]
        /\ \A d : Boosts!On(d)' = Boosts!On(d)
        /\ boost' \in [Requests -> Boosts!Job] /\ \A p \in Requests : boost'[p].at \in {"command", "done"} => boost'[p].do \in {"PAUSED", "ACTIVE", "budget"}
    BY <1>1, <2>1, <2>4, GoesOn DEF Boosts!Making
  <2>6. Boosts!TypeOK'
    BY <1>1, <2>3, <2>4, <2>5 DEF Boosts!TypeOK
  <2>7. Boosts!RowOf(c)'
    BY <1>1, <1>2, <2>1, <2>2, <2>3, <2>4, <2>5 DEF Boosts!RowOf, Boosts!AdInv, Boosts!TypeOK
  <2>8. Boosts!MakingOn(q, c)'
    BY <1>1, <1>2, <2>1, <2>2, <2>3, <2>4, <2>5 DEF Boosts!MakingOn, Boosts!Making, Boosts!TypeOK
  <2>9. Boosts!AskedOn(q, c)'
    BY <1>2, <2>1, <2>2, <2>4, <2>5 DEF Boosts!AskedOn, Boosts!Orders
  <2>10. \A p \in Boosts!On(c)' : p = q
    BY <2>2, <2>5
  <2>11. QED BY <1>1, <2>1, <2>3, <2>4, <2>5, <2>6, <2>7, <2>8, <2>9, <2>10, StepKeeps DEF Boosts!TypeOK
<1>5. ASSUME Boosts!createBoost(q) PROVE Boosts!AdsInv'
  <2>1. PICK c \in Ads : c = a
    BY <1>1
  <2>2. Boosts!On(c) = {q} /\ ad[c].ids = FALSE /\ ad[c].status = "CREATING" /\ campaign[c].status # "none" /\ campaign[c].budget = j.b /\ ad[c].budget = j.b
    BY <1>2, <1>5, <2>1 DEF Boosts!MakingOn, Boosts!createBoost, Boosts!Making, Boosts!TypeOK
  <2>3. UNCHANGED <<token, ad, lost, mixed, doubtful, events>>
    BY <1>5 DEF Boosts!createBoost
  <2>4. PICK at \in {"keep", "undo"} :
          Boosts!Go(q, at) /\ (campaign' = [campaign EXCEPT ![c].status = "ACTIVE"] \/ (campaign' = campaign /\ at = "undo"))
    BY <1>5, <2>1 DEF Boosts!createBoost, Boosts!Running
  <2>5. /\ boost'[q].at = at /\ boost'[q].a = c /\ boost'[q].b = boost[q].b /\ boost'[q].alone = boost[q].alone
        /\ \A p \in Requests \ {q} : boost'[p] = boost[p]
        /\ \A d : Boosts!On(d)' = Boosts!On(d)
        /\ boost' \in [Requests -> Boosts!Job] /\ \A p \in Requests : boost'[p].at \in {"command", "done"} => boost'[p].do \in {"PAUSED", "ACTIVE", "budget"}
    BY <1>1, <2>1, <2>4, GoesOn DEF Boosts!Making
  <2>6. Boosts!TypeOK'
    BY <1>1, <2>3, <2>4, <2>5, SMTT(30) DEF Boosts!TypeOK
  <2>7. Boosts!RowOf(c)'
    BY <1>1, <1>2, <2>1, <2>2, <2>3, <2>4, <2>5 DEF Boosts!RowOf, Boosts!AdInv, Boosts!TypeOK
  <2>8. Boosts!MakingOn(q, c)'
    BY <1>1, <1>2, <2>1, <2>2, <2>3, <2>4, <2>5 DEF Boosts!MakingOn, Boosts!Making, Boosts!TypeOK
  <2>9. Boosts!AskedOn(q, c)'
    BY <1>2, <2>1, <2>2, <2>4, <2>5 DEF Boosts!AskedOn, Boosts!Orders
  <2>10. \A p \in Boosts!On(c)' : p = q
    BY <2>2, <2>5
  <2>11. QED BY <1>1, <2>1, <2>3, <2>4, <2>5, <2>6, <2>7, <2>8, <2>9, <2>10, StepKeeps DEF Boosts!TypeOK
<1>6. ASSUME Boosts!DeleteCampaign(q) PROVE Boosts!AdsInv'
  <2>1. PICK c \in Ads : c = a
    BY <1>1
  <2>2. Boosts!On(c) = {q} /\ ad[c].ids = FALSE /\ ad[c].status = "CREATING"
    BY <1>2, <1>6, <2>1 DEF Boosts!MakingOn, Boosts!DeleteCampaign, Boosts!Making, Boosts!TypeOK
  <2>3. UNCHANGED <<token, ad, mixed, doubtful, events>> /\ Boosts!Go(q, "failed")
    BY <1>6 DEF Boosts!DeleteCampaign
  <2>4. (campaign' = [campaign EXCEPT ![c].status = "DELETED"] /\ lost' = lost) \/ (campaign' = campaign /\ lost' = lost \cup {c})
    BY <1>6, <2>1 DEF Boosts!DeleteCampaign
  <2>5. /\ boost'[q].at = "failed" /\ boost'[q].a = c /\ boost'[q].alone = boost[q].alone
        /\ \A p \in Requests \ {q} : boost'[p] = boost[p]
        /\ \A d : Boosts!On(d)' = Boosts!On(d)
        /\ boost' \in [Requests -> Boosts!Job] /\ \A p \in Requests : boost'[p].at \in {"command", "done"} => boost'[p].do \in {"PAUSED", "ACTIVE", "budget"}
    BY <1>1, <2>1, <2>3, GoesOn
  <2>6. Boosts!TypeOK'
    <3>1. CASE campaign' = [campaign EXCEPT ![c].status = "DELETED"] /\ lost' = lost
      BY <1>1, <2>1, <2>3, <2>5, <3>1, ZenonT(30) DEF Boosts!TypeOK
    <3>2. CASE campaign' = campaign /\ lost' = lost \cup {c}
      BY <1>1, <2>1, <2>3, <2>5, <3>2 DEF Boosts!TypeOK
    <3>3. QED BY <2>4, <3>1, <3>2
  <2>7. Boosts!RowOf(c)'
    BY <1>1, <1>2, <2>1, <2>2, <2>3, <2>4, <2>5 DEF Boosts!RowOf, Boosts!AdInv, Boosts!TypeOK
  <2>8. Boosts!MakingOn(q, c)'
    BY <1>1, <1>2, <2>1, <2>2, <2>3, <2>4, <2>5 DEF Boosts!MakingOn, Boosts!Making, Boosts!TypeOK
  <2>9. Boosts!AskedOn(q, c)'
    BY <1>2, <2>1, <2>2, <2>4, <2>5 DEF Boosts!AskedOn, Boosts!Orders
  <2>10. \A p \in Boosts!On(c)' : p = q
    BY <2>2, <2>5
  <2>11. QED BY <1>1, <2>1, <2>3, <2>4, <2>5, <2>6, <2>7, <2>8, <2>9, <2>10, StepKeeps DEF Boosts!TypeOK
<1>7. ASSUME Boosts!KeepCampaign(q) PROVE Boosts!AdsInv'
  <2>1. PICK c \in Ads : c = a
    BY <1>1
  <2>2. Boosts!On(c) = {q} /\ campaign[c].status = "ACTIVE" /\ campaign[c].budget = ad[c].budget
    BY <1>2, <1>7, <2>1 DEF Boosts!MakingOn, Boosts!KeepCampaign, Boosts!Making, Boosts!TypeOK
  <2>3. UNCHANGED <<token, campaign, mixed, doubtful, events>> /\ ad' = [ad EXCEPT ![c].status = "PENDING_REVIEW", ![c].ids = TRUE]
    BY <1>7, <2>1 DEF Boosts!KeepCampaign
  <2>r. /\ ad'[c].status = "PENDING_REVIEW" /\ ad'[c].ids /\ ad'[c].budget = ad[c].budget
        /\ \A d \in Ads \ {c} : ad'[d] = ad[d]
        /\ ad' \in [Ads -> [status : Boosts!Told \cup {"none", "CREATING", "FAILED"}, ids : BOOLEAN, budget : Boosts!Money, young : BOOLEAN]]
    <3>1. "PENDING_REVIEW" \in Boosts!Told
      BY DEF Boosts!Told
    <3>2. ad'[c] = [ad[c] EXCEPT !.status = "PENDING_REVIEW", !.ids = TRUE] /\ \A d \in Ads \ {c} : ad'[d] = ad[d]
      BY <1>1, <2>3 DEF Boosts!TypeOK
    <3>3. ad[c] \in [status : Boosts!Told \cup {"none", "CREATING", "FAILED"}, ids : BOOLEAN, budget : Boosts!Money, young : BOOLEAN]
      BY <1>1, <2>1 DEF Boosts!TypeOK
    <3>4. ad'[c] \in [status : Boosts!Told \cup {"none", "CREATING", "FAILED"}, ids : BOOLEAN, budget : Boosts!Money, young : BOOLEAN]
      BY <3>1, <3>2, <3>3
    <3>5. ad' \in [Ads -> [status : Boosts!Told \cup {"none", "CREATING", "FAILED"}, ids : BOOLEAN, budget : Boosts!Money, young : BOOLEAN]]
      BY <1>1, <2>1, <2>3, <3>4 DEF Boosts!TypeOK
    <3>6. ad'[c].status = "PENDING_REVIEW" /\ ad'[c].ids = TRUE /\ ad'[c].budget = ad[c].budget
      BY <3>2, <3>3
    <3>7. QED BY <3>2, <3>5, <3>6
  <2>4. Boosts!RowOf(c)'
    BY <2>2, <2>3, <2>r DEF Boosts!RowOf, Boosts!Agree, Boosts!FINAL
  <2>5. CASE Boosts!End(q) /\ lost' = lost
    <3>1. /\ \A p \in Requests \ {q} : boost'[p] = boost[p]
          /\ \A d : Boosts!On(d)' = Boosts!On(d) \ {q}
          /\ boost' \in [Requests -> Boosts!Job] /\ \A p \in Requests : boost'[p].at \in {"command", "done"} => boost'[p].do \in {"PAUSED", "ACTIVE", "budget"}
      BY <1>1, <2>5, Ending
    <3>2. Boosts!TypeOK'
      BY <1>1, <2>3, <2>5, <2>r, <3>1 DEF Boosts!TypeOK
    <3>3. Boosts!On(c)' = {}
      BY <2>2, <3>1
    <3>4. QED BY <1>1, <2>1, <2>3, <2>4, <2>5, <2>r, <3>1, <3>2, <3>3, StepKeeps
  <2>6. CASE Boosts!Go(q, "failed") /\ lost' = lost \cup {c}
    <3>1. /\ boost'[q].at = "failed" /\ boost'[q].alone = boost[q].alone
          /\ \A p \in Requests \ {q} : boost'[p] = boost[p]
          /\ \A d : Boosts!On(d)' = Boosts!On(d)
          /\ boost' \in [Requests -> Boosts!Job] /\ \A p \in Requests : boost'[p].at \in {"command", "done"} => boost'[p].do \in {"PAUSED", "ACTIVE", "budget"}
      BY <1>1, <2>6, GoesOn
    <3>2. Boosts!TypeOK'
      BY <1>1, <2>3, <2>6, <2>r, <3>1 DEF Boosts!TypeOK
    <3>3. Boosts!MakingOn(q, c)'
      BY <2>6, <3>1 DEF Boosts!MakingOn, Boosts!Making
    <3>4. Boosts!AskedOn(q, c)'
      BY <1>2, <2>1, <2>2, <3>1 DEF Boosts!AskedOn, Boosts!Orders
    <3>5. \A p \in Boosts!On(c)' : p = q
      BY <2>2, <3>1
    <3>6. \A p \in Boosts!On(c)' : Boosts!MakingOn(p, c)' /\ Boosts!AskedOn(p, c)'
      BY <3>3, <3>4, <3>5
    <3>7. QED BY <1>1, <2>1, <2>3, <2>4, <2>6, <2>r, <3>1, <3>2, <3>6, StepKeeps, ZenonT(30)
  <2>7. QED BY <1>7, <2>1, <2>5, <2>6 DEF Boosts!KeepCampaign
<1>8. ASSUME Boosts!FailCampaign(q) PROVE Boosts!AdsInv'
  <2>1. PICK c \in Ads : c = a
    BY <1>1
  <2>2. c \in lost \/ (~ad[c].ids /\ campaign[c].status # "ACTIVE")
    BY <1>2, <1>8, <2>1 DEF Boosts!MakingOn, Boosts!FailCampaign
  <2>3. UNCHANGED <<token, campaign, lost, mixed, doubtful, events>> /\ ad' = [ad EXCEPT ![c].status = "FAILED"] /\ Boosts!End(q) /\ boost[q].at = "failed"
    BY <1>8, <2>1 DEF Boosts!FailCampaign
  <2>r. /\ ad'[c].status = "FAILED" /\ ad'[c].ids = ad[c].ids /\ ad'[c].budget = ad[c].budget
        /\ \A d \in Ads \ {c} : ad'[d] = ad[d]
        /\ ad' \in [Ads -> [status : Boosts!Told \cup {"none", "CREATING", "FAILED"}, ids : BOOLEAN, budget : Boosts!Money, young : BOOLEAN]]
    BY <1>1, <2>3 DEF Boosts!TypeOK
  <2>4. /\ \A p \in Requests \ {q} : boost'[p] = boost[p]
        /\ \A d : Boosts!On(d)' = Boosts!On(d) \ {q}
        /\ boost' \in [Requests -> Boosts!Job] /\ \A p \in Requests : boost'[p].at \in {"command", "done"} => boost'[p].do \in {"PAUSED", "ACTIVE", "budget"}
    BY <1>1, <2>3, Ending
  <2>5. Boosts!TypeOK'
    BY <1>1, <2>3, <2>r, <2>4 DEF Boosts!TypeOK
  <2>6. Boosts!RowOf(c)'
    <3>1. Boosts!RowOf(c)
      BY <1>2, <2>1 DEF Boosts!AdInv
    <3>2. \A p \in Boosts!On(c) : boost[p].at = "done" => p \in Boosts!On(c)' /\ boost'[p] = boost[p]
      BY <2>3, <2>4 DEF Boosts!On
    <3>3. ad[c].ids /\ c \notin doubtful' => ad'[c].budget = campaign'[c].budget \/ \E p \in Boosts!On(c)' : boost'[p].at = "done" /\ boost'[p].do = "budget"
      BY <2>3, <2>r, <3>1, <3>2 DEF Boosts!RowOf
    <3>4. QED BY <2>2, <2>3, <2>r, <3>1, <3>3 DEF Boosts!RowOf, Boosts!Agree, Boosts!FINAL
  <2>7. \A p \in Boosts!On(c)' : Boosts!MakingOn(p, c)' /\ Boosts!AskedOn(p, c)'
    <3>1. \A p \in Boosts!On(c)' : p \in Boosts!On(c) /\ p # q /\ p \in Requests
      BY <2>4 DEF Boosts!On
    <3>2. QED BY <1>1, <2>1, <2>3, <2>r, <2>4, <3>1, OthersKeep
  <2>8. QED BY <1>1, <2>1, <2>3, <2>r, <2>4, <2>5, <2>6, <2>7, StepKeeps
<1>9. QED BY <1>3, <1>4, <1>5, <1>6, <1>7, <1>8

LEMMA StatusTold ==
  ASSUME NEW m, m.status \in {"PAUSED", "ACTIVE", "DELETED"}, m.review \in {"waiting", "passed", "refused", "issue"}
  PROVE Boosts!statusFromMeta(m) \in Boosts!Told /\ Boosts!Agree(Boosts!statusFromMeta(m), m.status)
BY DEF Boosts!statusFromMeta, Boosts!Told, Boosts!Agree

\* A command, as it is done at Meta or in the row.
LEMMA ChangedAd ==
  ASSUME NEW j, j.b \in Boosts!Money, j.do \in {"PAUSED", "ACTIVE", "budget"},
         NEW x \in [status : Boosts!Told \cup {"none", "CREATING", "FAILED"}, ids : BOOLEAN, budget : Boosts!Money, young : BOOLEAN]
  PROVE /\ Boosts!Changed(x, j) \in [status : Boosts!Told \cup {"none", "CREATING", "FAILED"}, ids : BOOLEAN, budget : Boosts!Money, young : BOOLEAN]
        /\ Boosts!Changed(x, j).ids = x.ids
        /\ Boosts!Changed(x, j).status = (IF j.do = "budget" THEN x.status ELSE j.do)
        /\ Boosts!Changed(x, j).budget = (IF j.do = "budget" THEN j.b ELSE x.budget)
BY DEF Boosts!Changed, Boosts!Told

LEMMA ChangedCampaign ==
  ASSUME NEW j, j.b \in Boosts!Money, j.do \in {"PAUSED", "ACTIVE", "budget"},
         NEW x \in [status : {"none", "PAUSED", "ACTIVE", "DELETED"}, review : {"waiting", "passed", "refused", "issue"},
                    ended : BOOLEAN, budget : Boosts!Money]
  PROVE /\ Boosts!Changed(x, j) \in [status : {"none", "PAUSED", "ACTIVE", "DELETED"}, review : {"waiting", "passed", "refused", "issue"},
                               ended : BOOLEAN, budget : Boosts!Money]
        /\ Boosts!Changed(x, j).status = (IF j.do = "budget" THEN x.status ELSE j.do)
        /\ Boosts!Changed(x, j).budget = (IF j.do = "budget" THEN j.b ELSE x.budget)
BY DEF Boosts!Changed

LEMMA CommandsKeep ==
  ASSUME Boosts!AdsInv, NEW q \in Requests, Boosts!AskMeta(q) \/ Boosts!KeepCommand(q) \/ Boosts!GetState(q) \/ Boosts!WriteState(q)
  PROVE Boosts!AdsInv'
<1>1. Boosts!TypeOK /\ boost[q] # Boosts!Idle
  BY DEF Boosts!AdsInv, Boosts!AskMeta, Boosts!KeepCommand, Boosts!GetState, Boosts!WriteState, Boosts!Idle
<1>2. PICK c \in Ads : c = boost[q].a /\ q \in Boosts!On(c)
  BY <1>1, JobOn
<1>3. Boosts!RowOf(c) /\ Boosts!MakingOn(q, c) /\ Boosts!AskedOn(q, c) /\ boost[q].b \in Boosts!Money /\ boost[q].s \in Boosts!Told \cup {"none"}
  BY <1>1, <1>2, JobType DEF Boosts!AdsInv, Boosts!AdInv
<1>4. ad[c].ids /\ campaign[c].status # "none"
  BY <1>2, <1>3 DEF Boosts!AskedOn, Boosts!RowOf, Boosts!AskMeta, Boosts!KeepCommand, Boosts!GetState, Boosts!WriteState, Boosts!Orders
<1>5. ASSUME \A p \in Requests \ {q} : boost'[p] = boost[p], lost \subseteq lost', ad'[c].ids,
             \A d : Boosts!On(d)' = Boosts!On(d) \/ Boosts!On(d)' = Boosts!On(d) \ {q}
      PROVE \A p \in Boosts!On(c)' : p # q => Boosts!MakingOn(p, c)' /\ Boosts!AskedOn(p, c)'
  <2>1. ASSUME NEW p \in Boosts!On(c)', p # q PROVE p \in Boosts!On(c) /\ p \in Requests
    BY <1>5, <2>1 DEF Boosts!On
  <2>2. QED BY <1>2, <1>5, <2>1, OthersKeep
<1>6. ASSUME Boosts!AskMeta(q) PROVE Boosts!AdsInv'
  <2>1. UNCHANGED <<token, ad, lost, events>> /\ boost[q].at = "command" /\ boost[q].do \in {"PAUSED", "ACTIVE", "budget"}
    BY <1>1, <1>6 DEF Boosts!AskMeta, Boosts!TypeOK
  <2>2. ASSUME Boosts!End(q)
        PROVE /\ \A p \in Requests \ {q} : boost'[p] = boost[p]
              /\ \A d : Boosts!On(d)' = Boosts!On(d) \ {q}
              /\ boost' \in [Requests -> Boosts!Job] /\ \A p \in Requests : boost'[p].at \in {"command", "done"} => boost'[p].do \in {"PAUSED", "ACTIVE", "budget"}
              /\ \A p \in Boosts!On(c)' : Boosts!MakingOn(p, c)' /\ Boosts!AskedOn(p, c)'
    <3>1. /\ \A p \in Requests \ {q} : boost'[p] = boost[p]
          /\ \A d : Boosts!On(d)' = Boosts!On(d) \ {q}
          /\ boost' \in [Requests -> Boosts!Job] /\ \A p \in Requests : boost'[p].at \in {"command", "done"} => boost'[p].do \in {"PAUSED", "ACTIVE", "budget"}
      BY <1>1, <2>2, Ending
    <3>2. QED BY <1>4, <1>5, <2>1, <3>1
  <2>3. \A p \in Boosts!On(c) : boost[p].at = "done" => p # q
    BY <2>1
  <2>m. ASSUME campaign' = [campaign EXCEPT ![c] = Boosts!Changed(@, boost[q])]
        PROVE /\ campaign' \in [Ads -> [status : {"none", "PAUSED", "ACTIVE", "DELETED"}, review : {"waiting", "passed", "refused", "issue"},
                                    ended : BOOLEAN, budget : Boosts!Money]]
              /\ campaign'[c].status = (IF boost[q].do = "budget" THEN campaign[c].status ELSE boost[q].do)
              /\ campaign'[c].budget = (IF boost[q].do = "budget" THEN boost[q].b ELSE campaign[c].budget)
              /\ \A d \in Ads \ {c} : campaign'[d] = campaign[d]
    <3>1. campaign[c] \in [status : {"none", "PAUSED", "ACTIVE", "DELETED"}, review : {"waiting", "passed", "refused", "issue"},
                       ended : BOOLEAN, budget : Boosts!Money]
      BY <1>1 DEF Boosts!TypeOK
    <3>2. /\ Boosts!Changed(campaign[c], boost[q]) \in [status : {"none", "PAUSED", "ACTIVE", "DELETED"}, review : {"waiting", "passed", "refused", "issue"},
                                           ended : BOOLEAN, budget : Boosts!Money]
          /\ Boosts!Changed(campaign[c], boost[q]).status = (IF boost[q].do = "budget" THEN campaign[c].status ELSE boost[q].do)
          /\ Boosts!Changed(campaign[c], boost[q]).budget = (IF boost[q].do = "budget" THEN boost[q].b ELSE campaign[c].budget)
      BY <1>3, <2>1, <3>1, ChangedCampaign
    <3>3. QED BY <1>1, <2>m, <3>2 DEF Boosts!TypeOK
  <2>4. CASE Boosts!End(q) /\ UNCHANGED <<campaign, mixed, doubtful>>
    <3>1. Boosts!RowOf(c)'
      BY <1>3, <1>4, <2>1, <2>2, <2>3, <2>4 DEF Boosts!RowOf, Boosts!On
    <3>2. Boosts!TypeOK'
      BY <1>1, <2>1, <2>2, <2>4 DEF Boosts!TypeOK
    <3>3. QED BY <1>1, <1>2, <2>1, <2>2, <2>4, <3>1, <3>2, StepKeeps
  <2>5. CASE /\ Boosts!End(q) /\ campaign' = [campaign EXCEPT ![c] = Boosts!Changed(@, boost[q])]
             /\ mixed' = mixed \cup {c} /\ doubtful' = doubtful \cup {c}
    <3>1. Boosts!RowOf(c)'
      BY <1>3, <1>4, <2>1, <2>m, <2>5 DEF Boosts!RowOf
    <3>2. Boosts!TypeOK'
      BY <1>1, <2>1, <2>2, <2>m, <2>5 DEF Boosts!TypeOK
    <3>3. QED BY <1>1, <1>2, <2>1, <2>2, <2>m, <2>5, <3>1, <3>2, StepKeeps
  <2>6. CASE Boosts!Go(q, "done") /\ campaign' = [campaign EXCEPT ![c] = Boosts!Changed(@, boost[q])] /\ UNCHANGED <<mixed, doubtful>>
    <3>1. /\ boost'[q].at = "done" /\ boost'[q].do = boost[q].do /\ boost'[q].b = boost[q].b /\ boost'[q].alone = boost[q].alone
          /\ \A p \in Requests \ {q} : boost'[p] = boost[p]
          /\ \A d : Boosts!On(d)' = Boosts!On(d)
          /\ boost' \in [Requests -> Boosts!Job] /\ \A p \in Requests : boost'[p].at \in {"command", "done"} => boost'[p].do \in {"PAUSED", "ACTIVE", "budget"}
      BY <1>1, <2>1, <2>6, GoesOn DEF Boosts!Orders
    <3>2. Boosts!RowOf(c)'
      <4>1. q \in Boosts!On(c)'
        BY <1>2, <3>1
      <4>2. \A p \in Boosts!On(c) : boost[p].at = "done" => p \in Boosts!On(c)' /\ boost'[p] = boost[p]
        BY <2>3, <3>1 DEF Boosts!On
      <4>3. c \notin mixed => Boosts!Agree(ad[c].status, campaign'[c].status) \/ \E p \in Boosts!On(c)' : boost'[p].at = "done" /\ boost'[p].do # "budget"
        BY <1>3, <1>4, <2>m, <2>6, <3>1, <4>1, <4>2 DEF Boosts!RowOf
      <4>4. c \notin doubtful => ad[c].budget = campaign'[c].budget \/ \E p \in Boosts!On(c)' : boost'[p].at = "done" /\ boost'[p].do = "budget"
        BY <1>3, <1>4, <2>m, <2>6, <3>1, <4>1, <4>2 DEF Boosts!RowOf
      <4>5. QED BY <1>3, <1>4, <2>1, <2>m, <2>6, <4>3, <4>4 DEF Boosts!RowOf
    <3>3. Boosts!TypeOK'
      BY <1>1, <2>1, <2>m, <2>6, <3>1 DEF Boosts!TypeOK
    <3>4. Boosts!MakingOn(q, c)' /\ Boosts!AskedOn(q, c)'
      BY <1>3, <1>4, <2>1, <2>m, <2>6, <3>1 DEF Boosts!MakingOn, Boosts!AskedOn, Boosts!Making
    <3>5. \A p \in Boosts!On(c)' : p # q => Boosts!MakingOn(p, c)' /\ Boosts!AskedOn(p, c)'
      BY <1>4, <1>5, <2>1, <3>1
    <3>6. QED BY <1>1, <1>2, <2>1, <2>m, <2>6, <3>1, <3>2, <3>3, <3>4, <3>5, StepKeeps, SMTT(30)
  <2>7. QED BY <1>2, <1>6, <2>4, <2>5, <2>6 DEF Boosts!AskMeta
<1>7. ASSUME Boosts!KeepCommand(q) PROVE Boosts!AdsInv'
  <2>1. /\ UNCHANGED <<token, campaign, lost, events>> /\ boost[q].at = "done" /\ boost[q].do \in {"PAUSED", "ACTIVE", "budget"}
        /\ ad' = [ad EXCEPT ![c] = Boosts!Changed(@, boost[q])] /\ Boosts!Go(q, "refresh")
        /\ mixed' = (IF boost[q].alone THEN mixed ELSE mixed \cup {c}) /\ doubtful' = (IF boost[q].alone THEN doubtful ELSE doubtful \cup {c})
    BY <1>1, <1>2, <1>7 DEF Boosts!KeepCommand, Boosts!TypeOK
  <2>2. /\ ad' \in [Ads -> [status : Boosts!Told \cup {"none", "CREATING", "FAILED"}, ids : BOOLEAN, budget : Boosts!Money, young : BOOLEAN]]
        /\ ad'[c].ids = ad[c].ids
        /\ ad'[c].status = (IF boost[q].do = "budget" THEN ad[c].status ELSE boost[q].do)
        /\ ad'[c].budget = (IF boost[q].do = "budget" THEN boost[q].b ELSE ad[c].budget)
        /\ \A d \in Ads \ {c} : ad'[d] = ad[d]
    <3>1. ad[c] \in [status : Boosts!Told \cup {"none", "CREATING", "FAILED"}, ids : BOOLEAN, budget : Boosts!Money, young : BOOLEAN]
      BY <1>1 DEF Boosts!TypeOK
    <3>2. "PAUSED" \in Boosts!Told /\ "ACTIVE" \in Boosts!Told
      BY DEF Boosts!Told
    <3>3. /\ Boosts!Changed(ad[c], boost[q]) \in [status : Boosts!Told \cup {"none", "CREATING", "FAILED"}, ids : BOOLEAN, budget : Boosts!Money, young : BOOLEAN]
          /\ Boosts!Changed(ad[c], boost[q]).ids = ad[c].ids
          /\ Boosts!Changed(ad[c], boost[q]).status = (IF boost[q].do = "budget" THEN ad[c].status ELSE boost[q].do)
          /\ Boosts!Changed(ad[c], boost[q]).budget = (IF boost[q].do = "budget" THEN boost[q].b ELSE ad[c].budget)
      BY <1>3, <2>1, <3>1, ChangedAd
    <3>4. QED BY <1>1, <2>1, <3>3 DEF Boosts!TypeOK
  <2>3. /\ boost'[q].at = "refresh" /\ boost'[q].alone = boost[q].alone
        /\ \A p \in Requests \ {q} : boost'[p] = boost[p]
        /\ \A d : Boosts!On(d)' = Boosts!On(d)
        /\ boost' \in [Requests -> Boosts!Job] /\ \A p \in Requests : boost'[p].at \in {"command", "done"} => boost'[p].do \in {"PAUSED", "ACTIVE", "budget"}
    BY <1>1, <2>1, GoesOn DEF Boosts!Orders
  <2>4. Boosts!TypeOK'
    BY <1>1, <2>1, <2>2, <2>3 DEF Boosts!TypeOK
  <2>5. Boosts!RowOf(c)'
    <3>1. ad'[c].ids /\ ad'[c].status # "none" /\ (ad'[c].status \in Boosts!FINAL => c \in lost)
      BY <1>3, <1>4, <2>1, <2>2, ZenonT(30) DEF Boosts!RowOf, Boosts!FINAL
    <3>2. CASE boost[q].alone
      <4>1. Boosts!On(c) = {q} /\ IF boost[q].do = "budget" THEN campaign[c].budget = boost[q].b ELSE campaign[c].status = boost[q].do
        BY <1>3, <2>1, <3>2 DEF Boosts!AskedOn
      <4>2. c \notin mixed => Boosts!Agree(ad'[c].status, campaign[c].status)
        BY <1>3, <1>4, <2>1, <2>2, <4>1 DEF Boosts!RowOf, Boosts!Agree
      <4>3. c \notin doubtful => ad'[c].budget = campaign[c].budget
        BY <1>3, <1>4, <2>1, <2>2, <4>1 DEF Boosts!RowOf
      <4>4. QED BY <1>4, <2>1, <3>1, <3>2, <4>2, <4>3 DEF Boosts!RowOf
    <3>3. CASE ~boost[q].alone
      BY <1>4, <2>1, <3>1, <3>3 DEF Boosts!RowOf
    <3>4. QED BY <3>2, <3>3
  <2>6. Boosts!MakingOn(q, c)' /\ Boosts!AskedOn(q, c)'
    BY <1>3, <1>4, <2>2, <2>3 DEF Boosts!MakingOn, Boosts!AskedOn, Boosts!Making
  <2>7. \A p \in Boosts!On(c)' : p # q => Boosts!MakingOn(p, c)' /\ Boosts!AskedOn(p, c)'
    BY <1>4, <1>5, <2>1, <2>2, <2>3
  <2>8. QED BY <1>1, <1>2, <2>1, <2>2, <2>3, <2>4, <2>5, <2>6, <2>7, StepKeeps, SMTT(30)
<1>8. ASSUME Boosts!GetState(q) PROVE Boosts!AdsInv'
  <2>1. UNCHANGED <<token, ad, campaign, lost, doubtful, events>> /\ boost[q].at = "refresh"
    BY <1>8 DEF Boosts!GetState
  <2>s. Boosts!statusFromMeta(campaign[c]) \in Boosts!Told /\ Boosts!Agree(Boosts!statusFromMeta(campaign[c]), campaign[c].status)
    BY <1>1, <1>4, StatusTold DEF Boosts!TypeOK
  <2>2. CASE boost' = [boost EXCEPT ![q].at = "write", ![q].s = Boosts!statusFromMeta(campaign[c])] /\ UNCHANGED mixed
    <3>1. boost[q] \in [at : Boosts!Making \cup Boosts!Orders \cup {"failed"}, a : Ads, do : {"boost", "PAUSED", "ACTIVE", "budget", "refresh"},
                      b : Boosts!Money, s : Boosts!Told \cup {"none"}, alone : BOOLEAN]
      BY <1>1, JobType
    <3>2. boost'[q] = [boost[q] EXCEPT !.at = "write", !.s = Boosts!statusFromMeta(campaign[c])] /\ \A p \in Requests \ {q} : boost'[p] = boost[p]
      BY <1>1, <2>2 DEF Boosts!TypeOK
    <3>3. "write" \in Boosts!Orders
      BY DEF Boosts!Orders
    <3>4. boost'[q] \in [at : Boosts!Making \cup Boosts!Orders \cup {"failed"}, a : Ads, do : {"boost", "PAUSED", "ACTIVE", "budget", "refresh"},
                       b : Boosts!Money, s : Boosts!Told \cup {"none"}, alone : BOOLEAN]
      BY <2>s, <3>1, <3>2, <3>3
    <3>5. boost'[q].at = "write" /\ boost'[q].s = Boosts!statusFromMeta(campaign[c]) /\ boost'[q].alone = boost[q].alone /\ boost'[q].a = boost[q].a
      BY <3>1, <3>2
    <3>6. boost'[q] # Boosts!Idle
      BY <3>5 DEF Boosts!Idle
    <3>7. \A d : Boosts!On(d)' = Boosts!On(d)
      <4> SUFFICES ASSUME NEW d, NEW p \in Requests PROVE p \in Boosts!On(d)' <=> p \in Boosts!On(d)
        BY DEF Boosts!On
      <4>1. CASE p = q
        BY <1>1, <3>5, <3>6, <4>1 DEF Boosts!On
      <4>2. CASE p # q
        BY <3>2, <4>2 DEF Boosts!On
      <4>3. QED BY <4>1, <4>2
    <3>8. Boosts!TypeOK'
      <4>1. boost' \in [Requests -> Boosts!Job]
        BY <1>1, <2>2, <3>2, <3>4 DEF Boosts!TypeOK, Boosts!Job
      <4>2. \A p \in Requests : boost'[p].at \in {"command", "done"} => boost'[p].do \in {"PAUSED", "ACTIVE", "budget"}
        BY <1>1, <3>2, <3>5 DEF Boosts!TypeOK
      <4>3. QED BY <1>1, <2>1, <2>2, <4>1, <4>2 DEF Boosts!TypeOK
    <3>9. Boosts!RowOf(c)'
      <4>1. \A p \in Boosts!On(c) : boost[p].at = "done" => p \in Boosts!On(c)' /\ boost'[p] = boost[p]
        BY <2>1, <3>2, <3>7 DEF Boosts!On
      <4>2. Boosts!On(c)' = Boosts!On(c)
        BY <3>7
      <4>3. QED BY <1>3, <2>1, <2>2, <4>1, <4>2 DEF Boosts!RowOf
    <3>10. Boosts!MakingOn(q, c)'
      BY <3>5 DEF Boosts!MakingOn, Boosts!Making
    <3>11. Boosts!AskedOn(q, c)'
      BY <1>3, <1>4, <2>1, <2>s, <3>5, <3>7 DEF Boosts!AskedOn, Boosts!Told
    <3>12. \A p \in Boosts!On(c)' : p # q => Boosts!MakingOn(p, c)' /\ Boosts!AskedOn(p, c)'
      BY <1>4, <1>5, <2>1, <3>2, <3>7
    <3>13. QED BY <1>1, <1>2, <2>1, <2>2, <3>2, <3>7, <3>8, <3>9, <3>10, <3>11, <3>12, StepKeeps
  <2>3. CASE Boosts!End(q) /\ mixed' = IF boost[q].alone THEN mixed ELSE mixed \cup {c}
    <3>1. /\ \A p \in Requests \ {q} : boost'[p] = boost[p]
          /\ \A d : Boosts!On(d)' = Boosts!On(d) \ {q}
          /\ boost' \in [Requests -> Boosts!Job] /\ \A p \in Requests : boost'[p].at \in {"command", "done"} => boost'[p].do \in {"PAUSED", "ACTIVE", "budget"}
      BY <1>1, <2>3, Ending
    <3>2. Boosts!TypeOK'
      BY <1>1, <2>1, <2>3, <3>1 DEF Boosts!TypeOK
    <3>3. Boosts!RowOf(c)'
      <4>1. \A p \in Boosts!On(c) : boost[p].at = "done" => p \in Boosts!On(c)' /\ boost'[p] = boost[p]
        BY <2>1, <3>1 DEF Boosts!On
      <4>2. QED BY <1>3, <1>4, <2>1, <2>3, <4>1 DEF Boosts!RowOf
    <3>4. \A p \in Boosts!On(c)' : Boosts!MakingOn(p, c)' /\ Boosts!AskedOn(p, c)'
      BY <1>4, <1>5, <2>1, <3>1
    <3>5. QED BY <1>1, <1>2, <2>1, <2>3, <3>1, <3>2, <3>3, <3>4, StepKeeps
  <2>4. QED BY <1>2, <1>8, <2>2, <2>3 DEF Boosts!GetState
<1>9. ASSUME Boosts!WriteState(q) PROVE Boosts!AdsInv'
  <2>1. /\ UNCHANGED <<token, campaign, lost, doubtful, events>> /\ boost[q].at = "write" /\ ad' = [ad EXCEPT ![c].status = boost[q].s] /\ Boosts!End(q)
        /\ mixed' = IF boost[q].alone THEN mixed \ {c} ELSE mixed \cup {c}
    BY <1>2, <1>9 DEF Boosts!WriteState
  <2>2. boost[q].s \in Boosts!Told
    BY <1>3, <2>1 DEF Boosts!AskedOn
  <2>3. /\ ad'[c].status = boost[q].s /\ ad'[c].ids = ad[c].ids /\ ad'[c].budget = ad[c].budget
        /\ \A d \in Ads \ {c} : ad'[d] = ad[d]
        /\ ad' \in [Ads -> [status : Boosts!Told \cup {"none", "CREATING", "FAILED"}, ids : BOOLEAN, budget : Boosts!Money, young : BOOLEAN]]
    BY <1>1, <2>1, <2>2 DEF Boosts!TypeOK
  <2>4. /\ \A p \in Requests \ {q} : boost'[p] = boost[p]
        /\ \A d : Boosts!On(d)' = Boosts!On(d) \ {q}
        /\ boost' \in [Requests -> Boosts!Job] /\ \A p \in Requests : boost'[p].at \in {"command", "done"} => boost'[p].do \in {"PAUSED", "ACTIVE", "budget"}
    BY <1>1, <2>1, Ending
  <2>5. Boosts!TypeOK'
    BY <1>1, <2>1, <2>3, <2>4 DEF Boosts!TypeOK
  <2>6. Boosts!RowOf(c)'
    <3>1. ad'[c].status # "none" /\ ad'[c].status \notin Boosts!FINAL
      BY <2>2, <2>3 DEF Boosts!Told, Boosts!FINAL
    <3>2. \A p \in Boosts!On(c) : boost[p].at = "done" => p \in Boosts!On(c)' /\ boost'[p] = boost[p]
      BY <2>1, <2>4 DEF Boosts!On
    <3>3. c \notin doubtful => ad'[c].budget = campaign[c].budget \/ \E p \in Boosts!On(c)' : boost'[p].at = "done" /\ boost'[p].do = "budget"
      BY <1>3, <1>4, <2>3, <3>2 DEF Boosts!RowOf
    <3>4. boost[q].alone => Boosts!Agree(ad'[c].status, campaign[c].status)
      BY <1>3, <2>1, <2>3 DEF Boosts!AskedOn
    <3>5. QED BY <1>4, <2>1, <2>3, <3>1, <3>3, <3>4 DEF Boosts!RowOf
  <2>7. \A p \in Boosts!On(c)' : Boosts!MakingOn(p, c)' /\ Boosts!AskedOn(p, c)'
    BY <1>4, <1>5, <2>1, <2>3, <2>4
  <2>8. QED BY <1>1, <1>2, <2>1, <2>3, <2>4, <2>5, <2>6, <2>7, StepKeeps
<1>10. QED BY <1>6, <1>7, <1>8, <1>9

\* What happens to Meta's campaign, and the time, concern no request.
LEMMA OutsideKeeps ==
  ASSUME Boosts!AdsInv, \/ Boosts!SetToken
                        \/ \E a \in Ads : Boosts!TimePasses(a) \/ Boosts!Review(a) \/ Boosts!Ends(a)
  PROVE Boosts!AdsInv'
<1>1. Boosts!TypeOK /\ events' \in Nat
  BY DEF Boosts!AdsInv, Boosts!TypeOK, Boosts!SetToken, Boosts!TimePasses, Boosts!Review, Boosts!Ends, Boosts!Event
<1>2. /\ UNCHANGED <<boost, lost, mixed, doubtful>>
      /\ token' \in BOOLEAN
      /\ ad' \in [Ads -> [status : Boosts!Told \cup {"none", "CREATING", "FAILED"}, ids : BOOLEAN, budget : Boosts!Money, young : BOOLEAN]]
      /\ campaign' \in [Ads -> [status : {"none", "PAUSED", "ACTIVE", "DELETED"}, review : {"waiting", "passed", "refused", "issue"},
                            ended : BOOLEAN, budget : Boosts!Money]]
      /\ \A c \in Ads : /\ ad'[c].status = ad[c].status /\ ad'[c].ids = ad[c].ids /\ ad'[c].budget = ad[c].budget
                       /\ campaign'[c].status = campaign[c].status /\ campaign'[c].budget = campaign[c].budget
  <2>1. CASE Boosts!SetToken
    BY <1>1, <2>1 DEF Boosts!SetToken, Boosts!TypeOK
  <2>2. ASSUME NEW a \in Ads, Boosts!TimePasses(a) PROVE <1>2!1 /\ <1>2!2 /\ <1>2!3 /\ <1>2!4 /\ <1>2!5
    <3>1. UNCHANGED <<token, campaign, boost, lost, mixed, doubtful>> /\ ad' = [ad EXCEPT ![a].young = FALSE]
      BY <2>2 DEF Boosts!TimePasses
    <3>2. \A c \in Ads : ad'[c] = IF c = a THEN [ad[a] EXCEPT !.young = FALSE] ELSE ad[c]
      BY <1>1, <3>1 DEF Boosts!TypeOK
    <3>3. [ad[a] EXCEPT !.young = FALSE] \in [status : Boosts!Told \cup {"none", "CREATING", "FAILED"}, ids : BOOLEAN, budget : Boosts!Money, young : BOOLEAN]
      <4>1. ad[a] \in [status : Boosts!Told \cup {"none", "CREATING", "FAILED"}, ids : BOOLEAN, budget : Boosts!Money, young : BOOLEAN]
        BY <1>1 DEF Boosts!TypeOK
      <4>2. QED BY ONLY <4>1
    <3>4. /\ [ad[a] EXCEPT !.young = FALSE].status = ad[a].status /\ [ad[a] EXCEPT !.young = FALSE].ids = ad[a].ids
          /\ [ad[a] EXCEPT !.young = FALSE].budget = ad[a].budget
      BY <1>1 DEF Boosts!TypeOK
    <3>5. ad' \in [Ads -> [status : Boosts!Told \cup {"none", "CREATING", "FAILED"}, ids : BOOLEAN, budget : Boosts!Money, young : BOOLEAN]]
      BY <1>1, <3>1, <3>3 DEF Boosts!TypeOK
    <3>6. \A c \in Ads : ad'[c].status = ad[c].status /\ ad'[c].ids = ad[c].ids /\ ad'[c].budget = ad[c].budget
      BY <3>2, <3>4
    <3>7. QED BY <1>1, <3>1, <3>5, <3>6 DEF Boosts!TypeOK
  <2>3. ASSUME NEW a \in Ads, Boosts!Review(a) PROVE <1>2!1 /\ <1>2!2 /\ <1>2!3 /\ <1>2!4 /\ <1>2!5
    BY <1>1, <2>3 DEF Boosts!Review, Boosts!TypeOK
  <2>4. ASSUME NEW a \in Ads, Boosts!Ends(a) PROVE <1>2!1 /\ <1>2!2 /\ <1>2!3 /\ <1>2!4 /\ <1>2!5
    <3>1. UNCHANGED <<token, ad, boost, lost, mixed, doubtful>> /\ campaign' = [campaign EXCEPT ![a].ended = TRUE]
      BY <2>4 DEF Boosts!Ends
    <3>2. \A c \in Ads : campaign'[c] = IF c = a THEN [campaign[a] EXCEPT !.ended = TRUE] ELSE campaign[c]
      BY <1>1, <3>1 DEF Boosts!TypeOK
    <3>3. [campaign[a] EXCEPT !.ended = TRUE] \in [status : {"none", "PAUSED", "ACTIVE", "DELETED"}, review : {"waiting", "passed", "refused", "issue"},
                                              ended : BOOLEAN, budget : Boosts!Money]
          /\ [campaign[a] EXCEPT !.ended = TRUE].status = campaign[a].status /\ [campaign[a] EXCEPT !.ended = TRUE].budget = campaign[a].budget
      BY <1>1, ZenonT(30) DEF Boosts!TypeOK
    <3>4. /\ campaign' \in [Ads -> [status : {"none", "PAUSED", "ACTIVE", "DELETED"}, review : {"waiting", "passed", "refused", "issue"},
                               ended : BOOLEAN, budget : Boosts!Money]]
          /\ \A c \in Ads : campaign'[c].status = campaign[c].status /\ campaign'[c].budget = campaign[c].budget
      BY <1>1, <3>1, <3>2, <3>3 DEF Boosts!TypeOK
    <3>5. QED BY <1>1, <3>1, <3>4 DEF Boosts!TypeOK
  <2>5. QED BY <2>1, <2>2, <2>3, <2>4
<1>3. Boosts!TypeOK'
  BY <1>1, <1>2 DEF Boosts!TypeOK
<1>4. ASSUME NEW c \in Ads PROVE Boosts!AdInv(c)'
  <2>1. Boosts!On(c)' = Boosts!On(c)
    BY <1>2 DEF Boosts!On
  <2>2. QED BY <1>2, <2>1, AdFrame DEF Boosts!AdsInv
<1>5. QED BY <1>3, <1>4 DEF Boosts!AdsInv

\* Whatever was under way when the process stops is marked as cut off.
LEMMA RestartKeeps ==
  ASSUME Boosts!AdsInv, Boosts!Restart PROVE Boosts!AdsInv'
<1> DEFINE cut == {boost[q].a : q \in {p \in Requests : boost[p] # Boosts!Idle}}
<1>1. Boosts!TypeOK /\ events' \in Nat
  BY DEF Boosts!AdsInv, Boosts!TypeOK, Boosts!Restart, Boosts!Event
<1>2. UNCHANGED <<token, ad, campaign>> /\ boost' = [q \in Requests |-> Boosts!Idle]
      /\ lost' = lost \cup cut /\ mixed' = mixed \cup cut /\ doubtful' = doubtful \cup cut
  BY DEF Boosts!Restart
<1>3. cut \subseteq Ads
  BY <1>1, JobOn
<1>4. Boosts!TypeOK'
  BY <1>1, <1>2, <1>3 DEF Boosts!TypeOK, Boosts!Job, Boosts!Idle
<1>5. ASSUME NEW c \in Ads PROVE Boosts!AdInv(c)'
  <2>1. Boosts!On(c)' = {}
    BY <1>2 DEF Boosts!On
  <2>2. Boosts!On(c) # {} => c \in cut
    BY DEF Boosts!On
  <2>3. Boosts!RowOf(c)
    BY DEF Boosts!AdsInv, Boosts!AdInv
  <2>4. Boosts!RowOf(c)'
    BY <1>2, <2>1, <2>2, <2>3 DEF Boosts!RowOf
  <2>5. QED BY <2>1, <2>4 DEF Boosts!AdInv
<1>6. QED BY <1>4, <1>5 DEF Boosts!AdsInv

LEMMA BeginningKeeps ==
  ASSUME Boosts!AdsInv, NEW q \in Requests,
         \/ Boosts!CheckBoost(q)
         \/ \E a \in Ads : Boosts!pause(q, a) \/ Boosts!resume(q, a) \/ Boosts!refresh(q, a) \/ \E b \in Budgets : Boosts!changeBudget(q, a, b)
  PROVE Boosts!AdsInv'
<1>1. boost[q] = Boosts!Idle /\ events' \in Nat /\ UNCHANGED <<token, ad, campaign, lost, mixed, doubtful>>
  BY DEF Boosts!AdsInv, Boosts!TypeOK, Boosts!CheckBoost, Boosts!pause, Boosts!resume, Boosts!refresh, Boosts!changeBudget, Boosts!Event
<1>2. 0 \in Boosts!Money /\ Budgets \subseteq Boosts!Money
  BY DEF Boosts!Money
<1>3. CASE Boosts!CheckBoost(q)
  <2>1. PICK a \in Ads, b \in Budgets : ad[a].status = "none" /\ Boosts!On(a) = {} /\ Boosts!Begin(q, "row", a, "boost", b)
    BY <1>3 DEF Boosts!CheckBoost
  <2>2. QED BY <1>1, <1>2, <2>1, BeginKeeps
<1>4. ASSUME NEW a \in Ads, Boosts!pause(q, a) PROVE Boosts!AdsInv'
  BY <1>1, <1>2, <1>4, BeginKeeps DEF Boosts!pause
<1>5. ASSUME NEW a \in Ads, Boosts!resume(q, a) PROVE Boosts!AdsInv'
  BY <1>1, <1>2, <1>5, BeginKeeps DEF Boosts!resume
<1>6. ASSUME NEW a \in Ads, Boosts!refresh(q, a) PROVE Boosts!AdsInv'
  BY <1>1, <1>2, <1>6, BeginKeeps DEF Boosts!refresh
<1>7. ASSUME NEW a \in Ads, NEW b \in Budgets, Boosts!changeBudget(q, a, b) PROVE Boosts!AdsInv'
  BY <1>1, <1>2, <1>7, BeginKeeps DEF Boosts!changeBudget
<1>8. QED BY <1>3, <1>4, <1>5, <1>6, <1>7

LEMMA AdsInvStep ==
  ASSUME Boosts!AdsInv, [Boosts!Next]_boosts PROVE Boosts!AdsInv'
<1>1. CASE UNCHANGED boosts
  <2>1. Boosts!TypeOK'
    BY <1>1 DEF Boosts!AdsInv, Boosts!TypeOK, boosts
  <2>2. ASSUME NEW c \in Ads PROVE Boosts!AdInv(c)'
    <3>1. Boosts!On(c)' = Boosts!On(c)
      BY <1>1 DEF Boosts!On, boosts
    <3>2. QED BY <1>1, <3>1, AdFrame DEF Boosts!AdsInv, boosts
  <2>3. QED BY <2>1, <2>2 DEF Boosts!AdsInv
<1>2. CASE Boosts!SetToken \/ \E a \in Ads : Boosts!TimePasses(a) \/ Boosts!Review(a) \/ Boosts!Ends(a)
  BY <1>2, OutsideKeeps
<1>3. CASE Boosts!Restart
  BY <1>3, RestartKeeps
<1>4. ASSUME NEW q \in Requests,
             \/ Boosts!CheckBoost(q)
             \/ \E a \in Ads : Boosts!pause(q, a) \/ Boosts!resume(q, a) \/ Boosts!refresh(q, a) \/ \E b \in Budgets : Boosts!changeBudget(q, a, b)
      PROVE Boosts!AdsInv'
  BY <1>4, BeginningKeeps
<1>5. ASSUME NEW q \in Requests,
             Boosts!createCampaign(q) \/ Boosts!MakeCampaign(q) \/ Boosts!createBoost(q) \/ Boosts!DeleteCampaign(q) \/ Boosts!KeepCampaign(q) \/ Boosts!FailCampaign(q)
      PROVE Boosts!AdsInv'
  BY <1>5, MakingKeeps
<1>6. ASSUME NEW q \in Requests, Boosts!AskMeta(q) \/ Boosts!KeepCommand(q) \/ Boosts!GetState(q) \/ Boosts!WriteState(q) PROVE Boosts!AdsInv'
  BY <1>6, CommandsKeep
<1>7. QED BY <1>1, <1>2, <1>3, <1>4, <1>5, <1>6 DEF Boosts!Next

LEMMA AdsPromise == Boosts!AdsInv => Boosts!RunningIsKnown /\ Boosts!AdTellsMeta
<1> SUFFICES ASSUME Boosts!AdsInv PROVE Boosts!RunningIsKnown /\ Boosts!AdTellsMeta OBVIOUS
<1>1. \A a \in Ads : Boosts!RowOf(a)
  BY DEF Boosts!AdsInv, Boosts!AdInv
<1>2. Boosts!RunningIsKnown
  BY <1>1 DEF Boosts!RunningIsKnown, Boosts!RowOf
<1>3. ASSUME NEW a \in Ads, ad[a].ids, Boosts!On(a) = {}
      PROVE /\ a \notin mixed =>
                 /\ ad[a].status = "PAUSED" => campaign[a].status = "PAUSED"
                 /\ campaign[a].status = "PAUSED" => ad[a].status # "ACTIVE"
            /\ a \notin doubtful => ad[a].budget = campaign[a].budget
  BY <1>1, <1>3 DEF Boosts!RowOf, Boosts!Agree
<1>4. Boosts!AdTellsMeta
  BY <1>3 DEF Boosts!AdTellsMeta
<1>5. QED BY <1>2, <1>4

-----------------------------------------------------------------------------
(* Accounts and their reports.                                             *)
LEMMA LinksInit == Links!Init => Links!LinksInv
<1> SUFFICES ASSUME Links!Init PROVE Links!LinksInv OBVIOUS
<1>1. Links!TypeOK
  <2>1. 1 \in 1..MaxMonths /\ 0 \in 0..MaxMonths
    BY MonthsAssumption
  <2>2. mails \in [Addresses -> [1..MaxMonths -> Nat]]
    BY DEF Links!Init
  <2>3. tiktok \in [status : {"ACTIVE", "NEEDS_RECONNECT", "DISCONNECTED"}, refresh : Nat, ending : BOOLEAN]
    BY DEF Links!Init, Links!NoAccount
  <2>4. report \in [on : BOOLEAN, list : SUBSET Addresses, sent : 0..MaxMonths]
    BY <2>1 DEF Links!Init, Links!NoReport
  <2>5. QED BY <2>1, <2>2, <2>3, <2>4 DEF Links!Init, Links!TypeOK
<1>2. Links!Renewing = {} /\ Links!Mailing = {}
  BY DEF Links!Init, Links!Renewing, Links!Mailing, Links!Idle
<1>3. Links!TokenInv
  BY <1>2 DEF Links!Init, Links!TokenInv, Links!NoAccount
<1>4. Links!MailInv
  BY <1>2, MonthsAssumption DEF Links!Init, Links!MailInv
<1>5. QED BY <1>1, <1>3, <1>4 DEF Links!LinksInv

\* What a request is, by where it is.
LEMMA LinksJob ==
  ASSUME Links!TypeOK, NEW q \in Requests
  PROVE /\ renewal[q].at \in {"renew", "store"} => renewal[q] \in Links!Renewals
        /\ renewal[q].at \in {"claim", "mail"} => renewal[q] \in Links!Runs
BY DEF Links!TypeOK, Links!Idle, Links!Renewals, Links!Runs

\* The part about the token is untouched by a step that leaves the account and
\* its renewals alone.
LEMMA TokenFrame ==
  ASSUME Links!LinksInv, UNCHANGED <<tiktok, valid, crossed>>, Links!Renewing' = Links!Renewing, \A q \in Links!Renewing : renewal'[q] = renewal[q]
  PROVE ~crossed' => Links!TokenInv'
BY DEF Links!LinksInv, Links!TokenInv

LEMMA MailFrame ==
  ASSUME Links!LinksInv, mails' = mails, report'.sent = report.sent, back' = back, Links!Mailing' \subseteq Links!Mailing,
         \A q \in Links!Mailing' : renewal'[q] = renewal[q]
  PROVE ~back' => Links!MailInv'
<1> SUFFICES ASSUME ~back' PROVE Links!MailInv'
  OBVIOUS
<1>1. Links!MailInv
  BY DEF Links!LinksInv
<1>2. QED BY <1>1 DEF Links!MailInv

\* The rows and the clock change; no request does.
LEMMA LinksQuietStep ==
  ASSUME Links!LinksInv, Links!tiktokConnectUrl \/ Links!LinkExpires \/ Links!tiktokCallback \/ Links!disconnect \/ Links!Day \/ Links!MonthEnds \/ Links!updateSettings
  PROVE Links!LinksInv'
<1>1. Links!TypeOK /\ renewal' = renewal /\ mails' = mails /\ back' = back
  BY DEF Links!LinksInv, Links!tiktokConnectUrl, Links!LinkExpires, Links!tiktokCallback, Links!disconnect, Links!Day, Links!MonthEnds, Links!updateSettings, Links!accounts, Links!reports
<1>2. Links!Renewing' = Links!Renewing /\ Links!Mailing' = Links!Mailing /\ \A q \in Links!Renewing : renewal'[q] = renewal[q]
  BY <1>1 DEF Links!Renewing, Links!Mailing
<1>3. CASE Links!tiktokConnectUrl \/ Links!LinkExpires
  <2>1. UNCHANGED <<tiktok, valid, issued, renewal, crossed, report, month, mails, back>> /\ state' \in {"open", "expired"}
    BY <1>3 DEF Links!tiktokConnectUrl, Links!LinkExpires, Links!reports
  <2>2. Links!TypeOK'
    BY <1>1, <2>1 DEF Links!TypeOK
  <2>3. QED BY <1>1, <1>2, <2>1, <2>2, TokenFrame, MailFrame DEF Links!LinksInv
<1>4. CASE Links!tiktokCallback
  <2>1. /\ issued' = issued + 1 /\ valid' = issued + 1 /\ tiktok' = [status |-> "ACTIVE", refresh |-> issued + 1, ending |-> FALSE]
        /\ state' = "none" /\ crossed' = (Links!Renewing # {}) /\ UNCHANGED <<renewal, report, month, mails, back>>
    BY <1>4 DEF Links!tiktokCallback, Links!reports
  <2>2. issued + 1 \in Nat
    BY <1>1 DEF Links!TypeOK
  <2>3. (Links!Renewing # {}) \in BOOLEAN
    OBVIOUS
  <2>4. Links!TypeOK'
    BY <1>1, <2>1, <2>2, <2>3 DEF Links!TypeOK
  <2>5. ~crossed' => Links!TokenInv'
    BY <1>2, <2>1 DEF Links!TokenInv
  <2>6. QED BY <1>1, <1>2, <2>1, <2>4, <2>5, MailFrame DEF Links!LinksInv
<1>5. CASE Links!disconnect
  <2>1. tiktok' = Links!NoAccount /\ crossed' = (crossed \/ Links!Renewing # {}) /\ UNCHANGED <<valid, issued, state, renewal, report, month, mails, back>>
    BY <1>5 DEF Links!disconnect, Links!reports
  <2>2. (crossed \/ Links!Renewing # {}) \in BOOLEAN
    OBVIOUS
  <2>3. Links!TypeOK'
    BY <1>1, <2>1, <2>2 DEF Links!TypeOK, Links!NoAccount
  <2>4. ~crossed' => Links!TokenInv'
    BY <1>2, <2>1 DEF Links!TokenInv, Links!NoAccount
  <2>5. QED BY <1>1, <1>2, <2>1, <2>3, <2>4, MailFrame DEF Links!LinksInv
<1>6. CASE Links!Day
  <2>1. tiktok' = [tiktok EXCEPT !.ending = TRUE] /\ UNCHANGED <<valid, issued, state, renewal, crossed, report, month, mails, back>>
    BY <1>6 DEF Links!Day, Links!reports
  <2>2. tiktok'.status = tiktok.status /\ tiktok'.refresh = tiktok.refresh
        /\ tiktok' \in [status : {"ACTIVE", "NEEDS_RECONNECT", "DISCONNECTED"}, refresh : Nat, ending : BOOLEAN]
    BY <1>1, <2>1 DEF Links!TypeOK
  <2>3. Links!TypeOK'
    BY <1>1, <2>1, <2>2 DEF Links!TypeOK
  <2>4. ~crossed' => Links!TokenInv'
    BY <1>1, <1>2, <2>1, <2>2 DEF Links!TokenInv, Links!LinksInv
  <2>5. QED BY <1>1, <1>2, <2>1, <2>3, <2>4, MailFrame DEF Links!LinksInv
<1>7. CASE Links!MonthEnds
  <2>1. month < MaxMonths /\ month' = month + 1 /\ UNCHANGED <<tiktok, valid, issued, state, crossed, renewal, report, mails, back>>
    BY <1>7 DEF Links!MonthEnds, Links!accounts
  <2>2. month' \in 1..MaxMonths
    BY <1>1, <2>1, MonthsAssumption DEF Links!TypeOK
  <2>3. Links!TypeOK'
    BY <1>1, <2>1, <2>2 DEF Links!TypeOK
  <2>4. QED BY <1>1, <1>2, <2>1, <2>3, TokenFrame, MailFrame DEF Links!LinksInv
<1>8. CASE Links!updateSettings
  <2>1. PICK on \in BOOLEAN, l \in SUBSET Addresses : report' = [report EXCEPT !.on = on, !.list = l]
    BY <1>8 DEF Links!updateSettings
  <2>2. UNCHANGED <<tiktok, valid, issued, state, crossed, renewal, month, mails, back>>
    BY <1>8 DEF Links!updateSettings, Links!accounts
  <2>3. report' \in [on : BOOLEAN, list : SUBSET Addresses, sent : 0..MaxMonths] /\ report'.sent = report.sent
    BY <1>1, <2>1 DEF Links!TypeOK
  <2>4. Links!TypeOK'
    BY <1>1, <2>2, <2>3 DEF Links!TypeOK
  <2>5. QED BY <1>1, <1>2, <2>2, <2>3, <2>4, TokenFrame, MailFrame DEF Links!LinksInv
<1>9. QED BY <1>3, <1>4, <1>5, <1>6, <1>7, <1>8

\* One request moves on.
LEMMA LinksGo ==
  ASSUME Links!TypeOK, NEW q \in Requests, NEW j \in {Links!Idle} \cup Links!Renewals \cup Links!Runs, Links!Go(q, j)
  PROVE /\ renewal' \in [Requests -> {Links!Idle} \cup Links!Renewals \cup Links!Runs] /\ renewal'[q] = j
        /\ \A p \in Requests \ {q} : renewal'[p] = renewal[p]
        /\ Links!Renewing' = (IF j.at \in {"renew", "store"} THEN Links!Renewing \cup {q} ELSE Links!Renewing \ {q})
        /\ Links!Mailing' = (IF j.at = "mail" THEN Links!Mailing \cup {q} ELSE Links!Mailing \ {q})
<1>1. renewal' = [renewal EXCEPT ![q] = j]
  BY DEF Links!Go
<1>2. renewal'[q] = j /\ \A p \in Requests \ {q} : renewal'[p] = renewal[p]
  BY <1>1 DEF Links!TypeOK
<1>3. renewal' \in [Requests -> {Links!Idle} \cup Links!Renewals \cup Links!Runs]
  BY <1>1 DEF Links!TypeOK
<1>4. Links!Renewing' = (IF j.at \in {"renew", "store"} THEN Links!Renewing \cup {q} ELSE Links!Renewing \ {q})
  BY <1>2 DEF Links!Renewing
<1>5. Links!Mailing' = (IF j.at = "mail" THEN Links!Mailing \cup {q} ELSE Links!Mailing \ {q})
  BY <1>2 DEF Links!Mailing
<1>6. QED BY <1>2, <1>3, <1>4, <1>5

LEMMA TokenStep ==
  ASSUME Links!LinksInv, NEW q \in Requests, Links!accessToken(q) \/ Links!refresh(q) \/ Links!updateTokens(q)
  PROVE Links!LinksInv'
<1>1. Links!TypeOK /\ UNCHANGED <<state, report, month, mails, back>>
  BY DEF Links!LinksInv, Links!accessToken, Links!refresh, Links!updateTokens, Links!reports
<1>2. Links!Idle.at = "idle" /\ Links!Idle \in {Links!Idle} \cup Links!Renewals \cup Links!Runs
  BY DEF Links!Idle
<1>3. ~crossed => Links!TokenInv
  BY DEF Links!LinksInv
<1>4. ASSUME NEW j \in {Links!Idle} \cup Links!Renewals, Links!Go(q, j)
      PROVE (~back' => Links!MailInv') /\ renewal' \in [Requests -> {Links!Idle} \cup Links!Renewals \cup Links!Runs]
  <2>1. j.at # "mail"
    BY <1>4 DEF Links!Idle, Links!Renewals
  <2>2. QED BY <1>1, <1>4, <2>1, LinksGo, MailFrame DEF Links!Mailing
<1>5. CASE Links!accessToken(q)
  <2> DEFINE j == [at |-> "renew", t |-> tiktok.refresh]
  <2>1. /\ renewal[q] = Links!Idle /\ tiktok.status = "ACTIVE" /\ Links!Go(q, j) /\ crossed' = (crossed \/ Links!Renewing # {})
        /\ UNCHANGED <<tiktok, valid, issued>>
    BY <1>5 DEF Links!accessToken
  <2>2. j \in Links!Renewals
    BY <1>1 DEF Links!TypeOK, Links!Renewals
  <2>3. (crossed \/ Links!Renewing # {}) \in BOOLEAN
    OBVIOUS
  <2>4. Links!TypeOK'
    BY <1>1, <1>4, <2>1, <2>2, <2>3 DEF Links!TypeOK
  <2>5. renewal'[q] = j /\ Links!Renewing' = Links!Renewing \cup {q}
    BY <1>1, <2>1, <2>2, LinksGo
  <2>6. ~crossed' => Links!TokenInv'
    <3> SUFFICES ASSUME ~crossed' PROVE Links!TokenInv'
      OBVIOUS
    <3>1. ~crossed /\ Links!Renewing = {}
      BY <2>1
    <3>2. tiktok.refresh = valid
      BY <1>3, <2>1, <3>1 DEF Links!TokenInv
    <3>3. renewal'[q].at = "renew" /\ renewal'[q].t = valid' /\ tiktok'.refresh = valid' /\ tiktok'.status = "ACTIVE"
      BY <2>1, <2>5, <3>2
    <3>4. Links!Renewing' = {q}
      BY <2>5, <3>1
    <3>5. QED BY <3>3, <3>4 DEF Links!TokenInv
  <2>7. QED BY <1>4, <2>1, <2>2, <2>4, <2>6 DEF Links!LinksInv
<1>6. CASE Links!refresh(q)
  <2>1. renewal[q].at = "renew" /\ q \in Links!Renewing /\ renewal[q] \in Links!Renewals /\ crossed' = crossed
    BY <1>1, <1>6, LinksJob DEF Links!refresh, Links!Renewing
  <2>2. CASE /\ renewal[q].t = valid /\ issued' = issued + 1 /\ valid' = issued + 1
             /\ Links!Go(q, [at |-> "store", t |-> issued + 1]) /\ UNCHANGED tiktok
    <3>1. issued + 1 \in Nat /\ [at |-> "store", t |-> issued + 1] \in Links!Renewals
      BY <1>1 DEF Links!TypeOK, Links!Renewals
    <3>2. Links!TypeOK'
      BY <1>1, <1>4, <2>1, <2>2, <3>1 DEF Links!TypeOK
    <3>3. renewal'[q] = [at |-> "store", t |-> issued + 1] /\ Links!Renewing' = Links!Renewing
      BY <1>1, <2>1, <2>2, <3>1, LinksGo
    <3>4. ~crossed' => Links!TokenInv'
      BY <1>3, <2>1, <2>2, <3>3 DEF Links!TokenInv
    <3>5. QED BY <1>4, <2>2, <3>1, <3>2, <3>4 DEF Links!LinksInv
  <2>3. CASE /\ renewal[q].t # valid /\ tiktok' = [tiktok EXCEPT !.status = "NEEDS_RECONNECT"]
             /\ Links!Go(q, Links!Idle) /\ UNCHANGED <<valid, issued>>
    <3>1. Links!TypeOK'
      BY <1>1, <1>4, <2>1, <2>3 DEF Links!TypeOK
    <3>2. crossed
      BY <1>3, <2>1, <2>3 DEF Links!TokenInv
    <3>3. QED BY <1>4, <2>1, <2>3, <3>1, <3>2 DEF Links!LinksInv
  <2>4. CASE Links!Go(q, Links!Idle) /\ UNCHANGED <<tiktok, valid, issued>>
    <3>1. Links!TypeOK'
      BY <1>1, <1>4, <2>1, <2>4 DEF Links!TypeOK
    <3>2. Links!Renewing' = Links!Renewing \ {q}
      BY <1>1, <1>2, <2>4, LinksGo
    <3>3. ~crossed' => Links!TokenInv'
      BY <1>3, <2>1, <2>4, <3>2 DEF Links!TokenInv
    <3>4. QED BY <1>4, <2>4, <3>1, <3>3 DEF Links!LinksInv
  <2>5. QED BY <1>6, <2>2, <2>3, <2>4 DEF Links!refresh
<1>7. CASE Links!updateTokens(q)
  <2>1. /\ renewal[q].at = "store" /\ q \in Links!Renewing /\ renewal[q] \in Links!Renewals /\ Links!Go(q, Links!Idle) /\ UNCHANGED <<valid, issued, crossed>>
        /\ tiktok' = [tiktok EXCEPT !.refresh = renewal[q].t, !.ending = FALSE]
    BY <1>1, <1>7, LinksJob DEF Links!updateTokens, Links!Renewing, Links!Stored
  <2>2. /\ tiktok' \in [status : {"ACTIVE", "NEEDS_RECONNECT", "DISCONNECTED"}, refresh : Nat, ending : BOOLEAN]
        /\ tiktok'.status = tiktok.status /\ tiktok'.refresh = renewal[q].t
    BY <1>1, <2>1 DEF Links!TypeOK, Links!Renewals
  <2>3. Links!TypeOK'
    BY <1>1, <1>4, <2>1, <2>2 DEF Links!TypeOK
  <2>4. Links!Renewing' = Links!Renewing \ {q}
    BY <1>1, <1>2, <2>1, LinksGo
  <2>5. ~crossed' => Links!TokenInv'
    BY <1>3, <2>1, <2>2, <2>4 DEF Links!TokenInv
  <2>6. QED BY <1>4, <2>1, <2>3, <2>5 DEF Links!LinksInv
<1>8. QED BY <1>5, <1>6, <1>7

\* One more copy of a month's report.
LEMMA OneMore ==
  ASSUME NEW S, NEW f \in [S -> Nat], NEW m \in S
  PROVE LET more == [f EXCEPT ![m] = @ + 1] IN
        more \in [S -> Nat] /\ more[m] = f[m] + 1 /\ \A n \in S \ {m} : more[n] = f[n]
<1>1. f[m] + 1 \in Nat
  OBVIOUS
<1>2. QED BY <1>1

LEMMA ReportStep ==
  ASSUME Links!LinksInv, NEW q \in Requests, Links!dueMonthly(q) \/ Links!claimMonthly(q) \/ Links!sendMonthly(q)
  PROVE Links!LinksInv'
<1>1. Links!TypeOK /\ UNCHANGED <<tiktok, valid, issued, state, crossed, month>>
  BY DEF Links!LinksInv, Links!dueMonthly, Links!claimMonthly, Links!sendMonthly, Links!accounts, Links!reports
<1>2. q \notin Links!Renewing
  BY DEF Links!Renewing, Links!dueMonthly, Links!claimMonthly, Links!sendMonthly, Links!Idle
<1>3. ASSUME NEW j \in {Links!Idle} \cup Links!Runs, Links!Go(q, j)
      PROVE (~crossed' => Links!TokenInv') /\ renewal' \in [Requests -> {Links!Idle} \cup Links!Renewals \cup Links!Runs]
  <2>1. j.at \notin {"renew", "store"}
    BY <1>3 DEF Links!Idle, Links!Runs
  <2>2. Links!Renewing' = Links!Renewing /\ \A p \in Links!Renewing : renewal'[p] = renewal[p]
    BY <1>1, <1>2, <1>3, <2>1, LinksGo DEF Links!Renewing
  <2>3. QED BY <1>1, <1>3, <2>2, TokenFrame, LinksGo
<1>4. CASE Links!dueMonthly(q)
  <2> DEFINE j == [at |-> "claim", m |-> month, list |-> report.list]
  <2>1. Links!Go(q, j) /\ UNCHANGED <<report, mails, back>>
    BY <1>4 DEF Links!dueMonthly, Links!reports
  <2>2. j \in Links!Runs
    BY <1>1 DEF Links!TypeOK, Links!Runs
  <2>3. Links!TypeOK'
    BY <1>1, <1>3, <2>1, <2>2 DEF Links!TypeOK
  <2>4. ~back' => Links!MailInv'
    BY <1>1, <2>1, <2>2, LinksGo, MailFrame DEF Links!Mailing
  <2>5. QED BY <1>3, <2>1, <2>2, <2>3, <2>4 DEF Links!LinksInv
<1>5. CASE Links!claimMonthly(q)
  <2>1. /\ renewal[q].at = "claim" /\ renewal[q] \in Links!Runs /\ UNCHANGED mails /\ back' = (back \/ report.sent > renewal[q].m)
    BY <1>1, <1>5, LinksJob DEF Links!claimMonthly
  <2>2. (back \/ report.sent > renewal[q].m) \in BOOLEAN
    OBVIOUS
  <2>3. PICK m \in 1..MaxMonths : m = renewal[q].m
    BY <2>1 DEF Links!Runs
  <2>4. CASE Links!Unclaimed(m)
    <3> DEFINE j == [renewal[q] EXCEPT !.at = "mail"]
    <3>1. report' = [report EXCEPT !.sent = m] /\ Links!Go(q, j)
      BY <1>5, <2>3, <2>4 DEF Links!claimMonthly
    <3>2. j \in Links!Runs /\ j.at = "mail" /\ j.m = m /\ j.list = renewal[q].list
      BY <2>1, <2>3 DEF Links!Runs
    <3>3. report' \in [on : BOOLEAN, list : SUBSET Addresses, sent : 0..MaxMonths] /\ report'.sent = m
      <4>1. m \in 0..MaxMonths
        BY <2>3
      <4>2. report \in [on : BOOLEAN, list : SUBSET Addresses, sent : 0..MaxMonths]
        BY <1>1 DEF Links!TypeOK
      <4>3. QED BY <3>1, <4>1, <4>2
    <3>4. Links!TypeOK'
      BY <1>1, <1>3, <2>1, <2>2, <3>1, <3>2, <3>3 DEF Links!TypeOK
    <3>5. ASSUME ~back' PROVE Links!MailInv'
      <4>1. Links!MailInv /\ report.sent < m /\ report.sent \in Nat
        <5>1. report.sent \in 0..MaxMonths
          BY <1>1 DEF Links!TypeOK
        <5>2. ~back /\ ~(report.sent > m) /\ report.sent # m
          BY <2>1, <2>3, <2>4, <3>5 DEF Links!Unclaimed
        <5>3. QED BY <5>1, <5>2 DEF Links!LinksInv
      <4>2. renewal'[q] = j /\ Links!Mailing' = Links!Mailing \cup {q} /\ \A p \in Requests \ {q} : renewal'[p] = renewal[p]
        BY <1>1, <3>1, <3>2, LinksGo
      <4>3. \A to \in Addresses, n \in 1..MaxMonths : mails[to][n] <= 1 /\ (mails[to][n] = 1 => n <= report.sent)
        BY <4>1 DEF Links!MailInv
      <4>4. \A to \in Addresses : mails[to][m] = 0
        <5> SUFFICES ASSUME NEW to \in Addresses PROVE mails[to][m] = 0
          OBVIOUS
        <5>1. mails[to][m] \in Nat
          BY <1>1 DEF Links!TypeOK
        <5>2. mails[to][m] <= 1 /\ mails[to][m] # 1
          BY <4>1, <4>3
        <5>3. QED BY <5>1, <5>2
      <4>5. \A to \in Addresses, n \in 1..MaxMonths : mails'[to][n] <= 1 /\ (mails'[to][n] = 1 => n <= report'.sent)
        BY <1>1, <2>1, <3>3, <4>1, <4>3 DEF Links!TypeOK
      <4>6. \A p \in Links!Mailing \ {q} : renewal[p].m \in 1..MaxMonths /\ renewal[p].m <= report.sent /\ renewal'[p] = renewal[p]
        BY <1>1, <4>1, <4>2, LinksJob DEF Links!MailInv, Links!Mailing, Links!Runs
      <4>7. ASSUME NEW p \in Links!Mailing'
            PROVE /\ renewal'[p].m <= report'.sent
                  /\ \A to \in renewal'[p].list : mails'[to][renewal'[p].m] = 0
                  /\ \A r \in Links!Mailing' \ {p} : renewal'[r].m # renewal'[p].m
        <5>1. CASE p = q
          <6>1. renewal'[p].m = m /\ renewal'[p].list \subseteq Addresses
            BY <2>1, <3>2, <4>2, <5>1 DEF Links!Runs
          <6>2. \A r \in Links!Mailing' \ {p} : r \in Links!Mailing \ {q}
            BY <4>2, <5>1
          <6>3. QED BY <1>1, <2>1, <3>3, <4>1, <4>4, <4>6, <6>1, <6>2 DEF Links!TypeOK
        <5>2. CASE p # q
          <6>1. p \in Links!Mailing \ {q} /\ renewal'[p] = renewal[p] /\ renewal[p].m <= report.sent /\ renewal[p].m \in 1..MaxMonths
            BY <4>2, <4>6, <4>7, <5>2
          <6>2. \A r \in Links!Mailing' \ {p} : renewal'[r].m # renewal'[p].m
            <7> SUFFICES ASSUME NEW r \in Links!Mailing' \ {p} PROVE renewal'[r].m # renewal'[p].m
              OBVIOUS
            <7>1. CASE r = q
              <8>1. renewal'[r].m = m /\ renewal'[p].m <= report.sent /\ renewal'[p].m \in 1..MaxMonths
                BY <3>2, <4>2, <6>1, <7>1
              <8>2. QED BY <2>3, <4>1, <8>1
            <7>2. CASE r # q
              BY <4>1, <4>2, <4>6, <6>1, <7>2 DEF Links!MailInv
            <7>3. QED BY <7>1, <7>2
          <6>3. renewal'[p].m <= report'.sent
            BY <1>1, <3>3, <4>1, <6>1 DEF Links!TypeOK
          <6>4. \A to \in renewal'[p].list : mails'[to][renewal'[p].m] = 0
            BY <2>1, <4>1, <6>1 DEF Links!MailInv
          <6>5. QED BY <6>2, <6>3, <6>4
        <5>3. QED BY <5>1, <5>2
      <4>8. QED BY <4>5, <4>7 DEF Links!MailInv
    <3>6. QED BY <1>3, <3>1, <3>2, <3>4, <3>5 DEF Links!LinksInv
  <2>5. CASE ~Links!Unclaimed(m)
    <3>1. report' = report /\ Links!Go(q, Links!Idle)
      BY <1>5, <2>3, <2>5 DEF Links!claimMonthly
    <3>2. Links!TypeOK'
      BY <1>1, <1>3, <2>1, <2>2, <3>1 DEF Links!TypeOK
    <3>3. back' = back
      BY <1>1, <2>1, <2>3, <2>5 DEF Links!TypeOK, Links!Unclaimed
    <3>4. ~back' => Links!MailInv'
      BY <1>1, <2>1, <3>1, <3>3, LinksGo, MailFrame DEF Links!Mailing, Links!Idle
    <3>5. QED BY <1>3, <3>1, <3>2, <3>4 DEF Links!LinksInv
  <2>6. QED BY <2>4, <2>5
<1>6. CASE Links!sendMonthly(q)
  <2>1. renewal[q].at = "mail" /\ q \in Links!Mailing /\ renewal[q] \in Links!Runs /\ UNCHANGED <<report, back>>
    BY <1>1, <1>6, LinksJob DEF Links!sendMonthly, Links!Mailing
  <2>2. CASE Links!Go(q, Links!Idle) /\ UNCHANGED mails
    <3>1. Links!TypeOK'
      BY <1>1, <1>3, <2>1, <2>2 DEF Links!TypeOK
    <3>2. ~back' => Links!MailInv'
      BY <1>1, <2>1, <2>2, LinksGo, MailFrame DEF Links!Mailing, Links!Idle
    <3>3. QED BY <1>3, <2>2, <3>1, <3>2 DEF Links!LinksInv
  <2>3. ASSUME NEW to \in renewal[q].list, Links!Go(q, [renewal[q] EXCEPT !.list = @ \ {to}]),
               mails' \in {mails, [mails EXCEPT ![to][renewal[q].m] = @ + 1]}
        PROVE Links!LinksInv'
    <3> DEFINE j == [renewal[q] EXCEPT !.list = @ \ {to}]
    <3>1. j \in Links!Runs /\ j.at = "mail" /\ j.m = renewal[q].m /\ j.list = renewal[q].list \ {to} /\ to \in Addresses
      BY <2>1, <2>3 DEF Links!Runs
    <3>2. PICK m \in 1..MaxMonths : m = renewal[q].m
      BY <2>1 DEF Links!Runs
    <3>m. mails \in [Addresses -> [1..MaxMonths -> Nat]] /\ mails[to] \in [1..MaxMonths -> Nat]
      BY <1>1, <3>1 DEF Links!TypeOK
    <3>3. mails[to][m] \in Nat
      BY <3>2, <3>m
    <3> DEFINE more == [mails[to] EXCEPT ![m] = @ + 1]
    <3>n. mails' = mails \/ mails' = [mails EXCEPT ![to] = more]
      BY <2>3, <3>2
    <3>o. more \in [1..MaxMonths -> Nat] /\ more[m] = mails[to][m] + 1 /\ \A n \in 1..MaxMonths \ {m} : more[n] = mails[to][n]
      BY <3>2, <3>m, OneMore, ZenonT(30)
    <3>p. mails' = mails \/ (mails' \in [Addresses -> [1..MaxMonths -> Nat]] /\ mails'[to] = more /\ \A a \in Addresses \ {to} : mails'[a] = mails[a])
      BY <3>1, <3>m, <3>n, <3>o
    <3>4. mails' \in [Addresses -> [1..MaxMonths -> Nat]]
      BY <3>m, <3>p
    <3>5. \A a \in Addresses, n \in 1..MaxMonths : a # to \/ n # m => mails'[a][n] = mails[a][n]
      BY <3>1, <3>o, <3>p
    <3>6. mails'[to][m] \in {mails[to][m], mails[to][m] + 1}
      BY <3>o, <3>p
    <3>7. renewal'[q] = j /\ Links!Mailing' = Links!Mailing /\ \A p \in Requests \ {q} : renewal'[p] = renewal[p]
      <4>1. j.at \notin {"renew", "store"} /\ j \in {Links!Idle} \cup Links!Renewals \cup Links!Runs /\ Links!Go(q, j)
        BY <2>3, <3>1
      <4>2. /\ renewal'[q] = j /\ \A p \in Requests \ {q} : renewal'[p] = renewal[p]
            /\ Links!Mailing' = Links!Mailing \cup {q}
        BY <1>1, <3>1, <4>1, LinksGo
      <4>3. QED BY <2>1, <4>2
    <3>8. Links!TypeOK'
      BY <1>1, <1>3, <2>1, <2>3, <3>1, <3>4 DEF Links!TypeOK
    <3>9. ASSUME ~back' PROVE Links!MailInv'
      <4>1. Links!MailInv /\ mails[to][m] = 0 /\ m <= report.sent
        BY <2>1, <2>3, <3>2, <3>9 DEF Links!LinksInv, Links!MailInv
      <4>2. \A a \in Addresses, n \in 1..MaxMonths : mails'[a][n] <= 1 /\ (mails'[a][n] = 1 => n <= report'.sent)
        BY <2>1, <3>5, <3>6, <4>1 DEF Links!MailInv
      <4>3. ASSUME NEW p \in Links!Mailing'
            PROVE /\ renewal'[p].m <= report'.sent
                  /\ \A a \in renewal'[p].list : mails'[a][renewal'[p].m] = 0
                  /\ \A r \in Links!Mailing' \ {p} : renewal'[r].m # renewal'[p].m
        <5>1. p \in Links!Mailing /\ renewal'[p].m = renewal[p].m /\ renewal'[p].list \subseteq renewal[p].list /\ (p = q => to \notin renewal'[p].list)
              /\ renewal[p] \in Links!Runs
          BY <1>1, <3>1, <3>7, <4>3, LinksJob DEF Links!Mailing
        <5>2. \A r \in Links!Mailing : renewal'[r].m = renewal[r].m
          BY <3>1, <3>7 DEF Links!Mailing
        <5>3. p # q => renewal[p].m # m
          BY <2>1, <3>2, <4>1, <5>1 DEF Links!MailInv
        <5>4. \A a \in renewal'[p].list : mails'[a][renewal'[p].m] = 0
          <6> SUFFICES ASSUME NEW a \in renewal'[p].list PROVE mails'[a][renewal'[p].m] = 0
            OBVIOUS
          <6>1. a \in Addresses /\ renewal[p].m \in 1..MaxMonths /\ mails[a][renewal[p].m] = 0
            BY <4>1, <5>1 DEF Links!MailInv, Links!Runs
          <6>2. QED BY <3>2, <3>5, <5>1, <5>3, <6>1
        <5>5. QED BY <2>1, <3>7, <4>1, <5>1, <5>2, <5>4 DEF Links!MailInv
      <4>4. QED BY <4>2, <4>3 DEF Links!MailInv
    <3>10. QED BY <1>3, <2>3, <3>1, <3>8, <3>9 DEF Links!LinksInv
  <2>4. QED BY <1>6, <2>2, <2>3 DEF Links!sendMonthly
<1>7. QED BY <1>4, <1>5, <1>6

LEMMA LinksRestart ==
  ASSUME Links!LinksInv, Links!Restart PROVE Links!LinksInv'
<1>1. /\ renewal' = [q \in Requests |-> Links!Idle] /\ crossed' = (crossed \/ Links!Renewing # {})
      /\ UNCHANGED <<tiktok, valid, issued, state, report, month, mails, back>>
  BY DEF Links!Restart, Links!reports
<1>2. (crossed \/ Links!Renewing # {}) \in BOOLEAN
  OBVIOUS
<1>3. Links!TypeOK'
  BY <1>1, <1>2 DEF Links!LinksInv, Links!TypeOK
<1>4. Links!Renewing' = {} /\ Links!Mailing' = {}
  BY <1>1 DEF Links!Renewing, Links!Mailing, Links!Idle
<1>5. ~crossed' => Links!TokenInv'
  BY <1>1, <1>4 DEF Links!LinksInv, Links!TokenInv
<1>6. ~back' => Links!MailInv'
  BY <1>1, <1>4, MailFrame
<1>7. QED BY <1>3, <1>5, <1>6 DEF Links!LinksInv

LEMMA LinksStep ==
  ASSUME Links!LinksInv, [Links!Next]_links PROVE Links!LinksInv'
<1>1. CASE UNCHANGED links
  <2>1. Links!TypeOK' /\ Links!Renewing' = Links!Renewing /\ Links!Mailing' = Links!Mailing
    BY <1>1 DEF links, Links!LinksInv, Links!TypeOK, Links!Renewing, Links!Mailing
  <2>2. QED BY <1>1, <2>1, TokenFrame, MailFrame DEF links, Links!LinksInv
<1>2. CASE Links!Next
  BY <1>2, LinksQuietStep, TokenStep, ReportStep, LinksRestart DEF Links!Next, Links!AccountsNext, Links!ReportsNext
<1>3. QED BY <1>1, <1>2

LEMMA LinksPromise == Links!LinksInv => Links!TokensFollow /\ Links!ReportOnce
BY DEF Links!LinksInv, Links!TokenInv, Links!MailInv, Links!TokensFollow, Links!ReportOnce

-----------------------------------------------------------------------------
(* WhatsApp: the account and the templates.                                *)
LEMMA NamesNamed == <<>> \notin Texts!Names
BY OwnAssumption DEF Texts!Names, Texts!BookingNames, Texts!BookingName

LEMMA IdleJob == Texts!Idle \in Texts!Job /\ Texts!Idle.at = "idle" /\ Texts!Idle.row = "none" /\ Texts!JobInv(Texts!Idle)
<1>1. <<>> \in Seq(Texts!Names)
  OBVIOUS
<1>2. Texts!Idle \in Texts!Job
  BY <1>1 DEF Texts!Idle, Texts!Job, Texts!Statuses
<1>3. QED BY <1>2 DEF Texts!Idle, Texts!JobInv, Texts!Naming, Texts!Holding

LEMMA TextsInit == Texts!Init => Texts!TextsInv
<1> SUFFICES ASSUME Texts!Init PROVE Texts!TextsInv OBVIOUS
<1>1. Texts!TypeOK
  BY IdleJob DEF Texts!Init, Texts!TypeOK, Texts!Unmade, Texts!NoRow, Texts!Statuses
<1>2. Texts!ConnectedIsVerified /\ \A i \in Ids : submitted[i].status # "APPROVED"
  BY DEF Texts!Init, Texts!ConnectedIsVerified, Texts!Unmade
<1>c. \A i \in Ids : submitted[i].name = <<>>
  BY DEF Texts!Init, Texts!Unmade
<1>3. \A n \in Texts!Names : Texts!RowInv(n)
  BY DEF Texts!Init, Texts!RowInv, Texts!NoRow
<1>4. \A q \in Requests : Texts!JobInv(question[q])
  BY IdleJob DEF Texts!Init
<1>5. QED BY <1>1, <1>2, <1>c, <1>3, <1>4 DEF Texts!TextsInv

\* The names of the booking templates of a language.
LEMMA BookingNamed ==
  ASSUME NEW l \in Languages PROVE Texts!Booking(l) \in Seq(Texts!Names) /\ Texts!Booking(l) # <<>>
<1>1. Len(Purposes) \in Nat /\ DOMAIN Purposes = 1..Len(Purposes) /\ Purposes # <<>>
  BY PurposesAssumption
<1>2. \A k \in 1..Len(Purposes) : Texts!BookingName(Purposes[k], l) \in Texts!Names
  BY <1>1 DEF Texts!Names, Texts!BookingNames
<1>3. Texts!Booking(l) \in [1..Len(Purposes) -> Texts!Names]
  BY <1>1, <1>2 DEF Texts!Booking
<1>4. Texts!Booking(l) \in Seq(Texts!Names)
  BY <1>1, <1>3, SeqDef
<1>5. Len(Purposes) # 0
  BY PurposesAssumption, EmptySeq
<1>6. DOMAIN Texts!Booking(l) # {}
  BY <1>1, <1>5 DEF Texts!Booking
<1>7. QED BY <1>4, <1>6

\* A step that moves one request, with the rows and what Meta has.
LEMMA TextFrame ==
  ASSUME Texts!TextsInv, NEW q \in Requests, NEW j \in Texts!Job, Texts!Go(q, j), UNCHANGED <<submitted, templates, approved, moved>>,
         whatsapp' \in [account : Numbers \cup {NoNumber}, connected : BOOLEAN], doubt' \in BOOLEAN, reviews' \in Nat,
         Texts!JobInv(j), Texts!ConnectedIsVerified'
  PROVE Texts!TextsInv'
<1>1. Texts!TypeOK /\ question' = [question EXCEPT ![q] = j]
  BY DEF Texts!TextsInv, Texts!Go
<1>2. Texts!TypeOK'
  BY <1>1 DEF Texts!TypeOK
<1>3. \A p \in Requests : Texts!JobInv(question'[p])
  BY <1>1 DEF Texts!TextsInv, Texts!TypeOK
<1>4. \A k : Texts!Made(templates[k].id, k)' <=> Texts!Made(templates[k].id, k)
  BY DEF Texts!Made
<1>5. \A p \in Requests : Texts!JobInv(question[p])'
  <2> SUFFICES ASSUME NEW p \in Requests PROVE Texts!JobInv(question[p])'
    OBVIOUS
  <2>1. Texts!JobInv(question'[p])
    BY <1>3
  <2>2. QED BY <2>1 DEF Texts!JobInv, Texts!Made
<1>6. \A n \in Texts!Names : Texts!RowInv(n)'
  BY DEF Texts!TextsInv, Texts!RowInv, Texts!Made
<1>7. QED BY <1>2, <1>5, <1>6 DEF Texts!TextsInv

\* The account's own promise, when neither it nor a question about it moves.
LEMMA VerdictFrame ==
  ASSUME Texts!TextsInv, NEW q \in Requests, NEW j \in Texts!Job, Texts!Go(q, j), whatsapp' = whatsapp, doubt' = doubt,
         question[q].at \notin {"verify", "verified"} \/ j.at \in {"verify", "verified"}
  PROVE Texts!ConnectedIsVerified'
<1>1. question' = [question EXCEPT ![q] = j] /\ Texts!TypeOK
  BY DEF Texts!TextsInv, Texts!Go
<1>2. Texts!Verifying \subseteq Texts!Verifying'
  BY <1>1 DEF Texts!Verifying, Texts!TypeOK
<1>3. QED BY <1>2 DEF Texts!TextsInv, Texts!ConnectedIsVerified

LEMMA AccountStep ==
  ASSUME Texts!TextsInv, NEW q \in Requests,
         (\E a \in Numbers : Texts!Connect(q, a) \/ Texts!SignUp(q, a)) \/ Texts!Verify(q) \/ Texts!VerifyRead(q) \/ Texts!VerifyStore(q)
  PROVE Texts!TextsInv'
<1>1. Texts!TypeOK /\ Texts!JobInv(question[q]) /\ question[q] \in Texts!Job
  BY DEF Texts!TextsInv, Texts!TypeOK
<1>2. UNCHANGED <<submitted, templates, approved, moved, reviews>>
  BY DEF Texts!Connect, Texts!SignUp, Texts!Verify, Texts!VerifyRead, Texts!VerifyStore, Texts!templates
<1>3. ASSUME NEW a \in Numbers, Texts!Connect(q, a) PROVE Texts!TextsInv'
  <2> DEFINE j == [Texts!Idle EXCEPT !.at = "verify"]
  <2>1. /\ whatsapp' = [whatsapp EXCEPT !.account = a] /\ Texts!Go(q, j) /\ doubt' = doubt
    BY <1>3 DEF Texts!Connect
  <2>2. j \in Texts!Job /\ j.at = "verify" /\ Texts!JobInv(j)
    BY IdleJob DEF Texts!Job, Texts!JobInv, Texts!Naming, Texts!Holding
  <2>3. q \in Texts!Verifying'
    BY <1>1, <2>1, <2>2 DEF Texts!Go, Texts!TypeOK, Texts!Verifying
  <2>4. Texts!ConnectedIsVerified'
    BY <2>3 DEF Texts!ConnectedIsVerified
  <2>5. whatsapp' \in [account : Numbers \cup {NoNumber}, connected : BOOLEAN]
    BY <1>1, <2>1 DEF Texts!TypeOK
  <2>6. QED BY <1>1, <1>2, <2>1, <2>2, <2>4, <2>5, TextFrame DEF Texts!TypeOK
<1>4. CASE Texts!Verify(q)
  <2> DEFINE j == [Texts!Idle EXCEPT !.at = "verify"]
  <2>1. Texts!Go(q, j) /\ whatsapp' = whatsapp /\ doubt' = doubt
    BY <1>4 DEF Texts!Verify
  <2>2. j \in Texts!Job /\ j.at = "verify" /\ Texts!JobInv(j)
    BY IdleJob DEF Texts!Job, Texts!JobInv, Texts!Naming, Texts!Holding
  <2>3. Texts!ConnectedIsVerified'
    BY <2>1, <2>2, VerdictFrame
  <2>4. QED BY <1>1, <1>2, <2>1, <2>2, <2>3, TextFrame DEF Texts!TypeOK
<1>5. CASE Texts!VerifyRead(q)
  <2>1. CASE whatsapp.account = NoNumber
    <3>1. Texts!Go(q, Texts!Idle) /\ whatsapp' = [whatsapp EXCEPT !.connected = FALSE] /\ doubt' = doubt
      BY <1>5, <2>1 DEF Texts!VerifyRead, Texts!Done
    <3>2. whatsapp' \in [account : Numbers \cup {NoNumber}, connected : BOOLEAN] /\ ~whatsapp'.connected
      BY <1>1, <3>1 DEF Texts!TypeOK
    <3>3. QED BY <1>1, <1>2, <3>1, <3>2, IdleJob, TextFrame DEF Texts!TypeOK, Texts!ConnectedIsVerified
  <2>2. CASE whatsapp.account # NoNumber
    <3> DEFINE j == [question[q] EXCEPT !.at = "verified", !.account = whatsapp.account]
    <3>1. Texts!Go(q, j) /\ whatsapp' = whatsapp /\ doubt' = doubt /\ question[q].at = "verify"
      BY <1>5, <2>2 DEF Texts!VerifyRead
    <3>2. whatsapp.account \in Numbers \cup {NoNumber}
      BY <1>1 DEF Texts!TypeOK
    <3>3. j \in Texts!Job
      BY <1>1, <3>2 DEF Texts!Job
    <3>4. j.at = "verified" /\ j.row = question[q].row /\ j.name = question[q].name /\ j.id = question[q].id /\ j.status = question[q].status
      BY <1>1 DEF Texts!Job
    <3>5. Texts!JobInv(j)
      BY <1>1, <3>4 DEF Texts!JobInv, Texts!Naming, Texts!Holding
    <3>6. Texts!ConnectedIsVerified'
      BY <3>1, <3>3, <3>4, VerdictFrame
    <3>7. QED BY <1>1, <1>2, <3>1, <3>3, <3>5, <3>6, TextFrame DEF Texts!TypeOK
  <2>3. QED BY <2>1, <2>2
<1>6. CASE Texts!VerifyStore(q)
  <2>1. /\ Texts!Go(q, Texts!Idle) /\ doubt' = (question[q].account # whatsapp.account)
        /\ \E yes \in {FALSE, (question[q].account \in Valid)} : whatsapp' = [whatsapp EXCEPT !.connected = yes]
    BY <1>6 DEF Texts!VerifyStore, Texts!Done, Texts!Verdicts, Texts!Connected
  <2>2. (question[q].account # whatsapp.account) \in BOOLEAN /\ (question[q].account \in Valid) \in BOOLEAN
    OBVIOUS
  <2>3. whatsapp' \in [account : Numbers \cup {NoNumber}, connected : BOOLEAN] /\ whatsapp'.account = whatsapp.account
        /\ (whatsapp'.connected => question[q].account \in Valid)
    BY <1>1, <2>1, <2>2 DEF Texts!TypeOK
  <2>4. Texts!ConnectedIsVerified'
    BY <2>1, <2>3 DEF Texts!ConnectedIsVerified
  <2>5. QED BY <1>2, <1>1, <2>1, <2>2, <2>3, <2>4, IdleJob, TextFrame DEF Texts!TypeOK
<1>7. QED BY <1>3, <1>4, <1>5, <1>6 DEF Texts!SignUp

LEMMA MoreLeft ==
  ASSUME NEW S, NEW s \in Seq(S), ~(Len(s) <= 1) PROVE Tail(s) \in Seq(S) /\ Tail(s) # <<>>
<1>1. Len(s) \in Nat /\ s # <<>>
  BY EmptySeq
<1>2. Tail(s) \in Seq(S) /\ Len(Tail(s)) = Len(s) - 1
  BY <1>1, HeadTailProperties
<1>k. \A k \in Nat : ~(k <= 1) => k - 1 # 0
  OBVIOUS
<1>3. Len(s) - 1 # 0
  BY <1>1, <1>k
<1>4. Len(Tail(s)) # 0
  BY <1>2, <1>3
<1>5. QED BY <1>2, <1>4, EmptySeq

\* What the platform does after a template: the next, or nothing.
LEMMA NextNameStep ==
  ASSUME Texts!TextsInv, NEW q \in Requests, Texts!NextName(q)
  PROVE \E j \in Texts!Job : Texts!Go(q, j) /\ Texts!JobInv(j) /\ j.at \in {"idle", "look"} /\ j.row = "none"
<1>1. question[q] \in Texts!Job
  BY DEF Texts!TextsInv, Texts!TypeOK
<1>2. CASE Len(question[q].todo) <= 1
  BY <1>2, IdleJob DEF Texts!NextName
<1>3. CASE ~(Len(question[q].todo) <= 1)
  <2> DEFINE j == [Texts!Idle EXCEPT !.at = "look", !.what = "ensure", !.todo = Tail(question[q].todo), !.account = question[q].account]
  <2>1. question[q].todo \in Seq(Texts!Names) /\ question[q].account \in Numbers \cup {NoNumber}
    BY <1>1 DEF Texts!Job
  <2>2. Tail(question[q].todo) \in Seq(Texts!Names) /\ Tail(question[q].todo) # <<>>
    BY <1>3, <2>1, MoreLeft
  <2>3. j \in Texts!Job /\ j.at = "look" /\ j.row = "none" /\ j.todo # <<>>
    BY <2>1, <2>2, IdleJob DEF Texts!Job
  <2>4. Texts!JobInv(j)
    BY <2>3 DEF Texts!JobInv, Texts!Naming, Texts!Holding
  <2>5. Texts!Go(q, j)
    BY <1>3 DEF Texts!NextName
  <2>6. QED BY <2>3, <2>4, <2>5
<1>4. QED BY <1>2, <1>3

\* The steps that neither ask Meta to make a template nor write a row.
LEMMA LookingStep ==
  ASSUME Texts!TextsInv, NEW q \in Requests, NEW j \in Texts!Job, Texts!Go(q, j), Texts!JobInv(j), UNCHANGED <<whatsapp, doubt, submitted, templates, approved, moved>>,
         reviews' \in Nat, question[q].at \notin {"verify", "verified"}
  PROVE Texts!TextsInv'
BY VerdictFrame, TextFrame DEF Texts!TextsInv, Texts!TypeOK

LEMMA MakingStep ==
  ASSUME Texts!TextsInv, NEW q \in Requests,
         \/ \E l \in Languages : Texts!Ensure(q, l)
         \/ \E n \in Own, image \in BOOLEAN, cards \in Carousels : Texts!Create(q, n, image, cards)
         \/ Texts!Look(q) \/ Texts!Upload(q) \/ Texts!Find(q)
  PROVE Texts!TextsInv'
<1>1. Texts!TypeOK /\ Texts!JobInv(question[q]) /\ question[q] \in Texts!Job /\ whatsapp.account \in Numbers \cup {NoNumber} /\ reviews \in Nat
  BY DEF Texts!TextsInv, Texts!TypeOK
<1>2. UNCHANGED <<whatsapp, doubt, submitted, templates, approved, moved, reviews>> /\ question[q].at \notin {"verify", "verified"}
  BY DEF Texts!Ensure, Texts!Create, Texts!Look, Texts!Upload, Texts!Find, Texts!templates
<1>3. ASSUME NEW l \in Languages, Texts!Ensure(q, l) PROVE Texts!TextsInv'
  <2> DEFINE j == [Texts!Idle EXCEPT !.at = "look", !.what = "ensure", !.todo = Texts!Booking(l), !.account = whatsapp.account]
  <2>1. Texts!Go(q, j)
    BY <1>3 DEF Texts!Ensure
  <2>2. j \in Texts!Job /\ j.at = "look" /\ j.row = "none" /\ j.todo # <<>>
    <3>1. whatsapp.account \in Numbers \cup {NoNumber} /\ Texts!Booking(l) \in Seq(Texts!Names) /\ Texts!Booking(l) # <<>>
      BY <1>1, BookingNamed
    <3>2. Texts!Idle \in Texts!Job /\ Texts!Idle.row = "none"
      BY IdleJob
    <3> DEFINE new(k, names, number) == [k EXCEPT !.at = "look", !.what = "ensure", !.todo = names, !.account = number]
    <3>3. ASSUME NEW k \in Texts!Job, NEW names \in Seq(Texts!Names), NEW number \in Numbers \cup {NoNumber}
          PROVE  /\ new(k, names, number) \in Texts!Job /\ new(k, names, number).at = "look"
                 /\ new(k, names, number).row = k.row /\ new(k, names, number).todo = names
      BY ONLY <3>3 DEF Texts!Job
    <3>4. j = new(Texts!Idle, Texts!Booking(l), whatsapp.account)
      OBVIOUS
    <3> HIDE DEF j, new
    <3>5. QED BY ONLY <3>1, <3>2, <3>3, <3>4, Zenon
  <2>3. Texts!JobInv(j)
    BY <2>2 DEF Texts!JobInv, Texts!Naming, Texts!Holding
  <2>4. QED BY <1>1, <1>2, <2>1, <2>2, <2>3, LookingStep
<1>4. ASSUME NEW n \in Own, NEW image \in BOOLEAN, NEW cards \in Carousels, Texts!Create(q, n, image, cards) PROVE Texts!TextsInv'
  <2>1. PICK at \in {"upload", "make"} : Texts!Go(q, [Texts!Idle EXCEPT !.at = at, !.what = "create", !.name = n, !.account = whatsapp.account])
    BY <1>4 DEF Texts!Create
  <2> DEFINE j == [Texts!Idle EXCEPT !.at = at, !.what = "create", !.name = n, !.account = whatsapp.account]
  <2>2. n \in Texts!Names
    BY DEF Texts!Names
  <2>3. j \in Texts!Job /\ j.at = at /\ j.row = "none" /\ j.name = n
    <3>1. at \in {"upload", "make"} /\ at \in {"idle", "verify", "verified", "look"} \cup Texts!Naming
      BY <2>1 DEF Texts!Naming
    <3>2. Texts!Idle \in Texts!Job
      BY IdleJob
    <3>3. j \in Texts!Job
      BY <1>1, <2>2, <3>1, <3>2, ZenonT(30) DEF Texts!Job
    <3>4. QED BY <1>1, <2>2, <3>2, <3>3 DEF Texts!Job, Texts!Idle
  <2>4. Texts!JobInv(j)
    BY <2>2, <2>3 DEF Texts!JobInv, Texts!Holding
  <2>5. QED BY <1>1, <1>2, <2>1, <2>3, <2>4, LookingStep
<1>5. CASE Texts!Look(q)
  <2> DEFINE n == Head(question[q].todo)
             mark == IF templates[n] = Texts!NoRow THEN "none" ELSE "kept"
             j == [question[q] EXCEPT !.at = "make", !.name = n, !.row = mark]
  <2>1. n \in Texts!Names
    BY <1>1, <1>5 DEF Texts!Look, Texts!JobInv, Texts!Job
  <2>2. CASE Texts!NextName(q)
    BY <1>1, <1>2, <2>2, NextNameStep, LookingStep
  <2>3. CASE Texts!Go(q, j)
    <3>1. j \in Texts!Job /\ j.at = "make" /\ j.name = n /\ j.row = mark
      <4>1. PICK x \in {"none", "kept"} : x = mark
        OBVIOUS
      <4>2. PICK m \in Texts!Names : m = n
        BY <2>1
      <4>3. "make" \in Texts!Naming
        BY DEF Texts!Naming
      <4>4. [question[q] EXCEPT !.at = "make", !.name = m, !.row = x] \in Texts!Job
        <5>1. question[q] \in Texts!Job
          BY <1>1
        <5> DEFINE atMake == [question[q] EXCEPT !.at = "make"]
                   named  == [atMake EXCEPT !.name = m]
                   marked == [named EXCEPT !.row = x]
        <5>2. [question[q] EXCEPT !.at = "make", !.name = m, !.row = x] = marked
          OBVIOUS
        <5>3. atMake \in Texts!Job
          BY ONLY <4>3, <5>1 DEF Texts!Job
        <5> HIDE DEF atMake
        <5>4. named \in Texts!Job
          BY ONLY <4>2, <5>3 DEF Texts!Job
        <5> HIDE DEF named
        <5>5. marked \in Texts!Job
          BY ONLY <4>1, <5>4 DEF Texts!Job
        <5>6. QED BY <5>2, <5>5, Zenon
      <4>5. /\ [question[q] EXCEPT !.at = "make", !.name = m, !.row = x].at = "make"
            /\ [question[q] EXCEPT !.at = "make", !.name = m, !.row = x].name = m
            /\ [question[q] EXCEPT !.at = "make", !.name = m, !.row = x].row = x
        BY <1>1 DEF Texts!Job
      <4>6. QED BY <4>1, <4>2, <4>4, <4>5
    <3>2. mark = "kept" => Texts!Made(templates[n].id, n)
      BY <2>1 DEF Texts!TextsInv, Texts!RowInv
    <3>3. Texts!JobInv(j)
      BY <2>1, <3>1, <3>2 DEF Texts!JobInv, Texts!Holding
    <3>4. QED BY <1>1, <1>2, <2>3, <3>1, <3>3, LookingStep
  <2>4. QED BY <1>5, <2>2, <2>3 DEF Texts!Look
<1>6. CASE Texts!Upload(q)
  <2> DEFINE j == [question[q] EXCEPT !.at = "make"]
  <2>1. CASE Texts!Go(q, Texts!Idle)
    BY <1>1, <1>2, <2>1, IdleJob, LookingStep
  <2>2. CASE Texts!Go(q, j)
    <3>1. j \in Texts!Job /\ j.at = "make" /\ j.name = question[q].name /\ j.row = question[q].row
      BY <1>1 DEF Texts!Job, Texts!Naming
    <3>2. Texts!JobInv(j)
      BY <1>1, <1>6, <3>1 DEF Texts!JobInv, Texts!Holding, Texts!Naming, Texts!Upload
    <3>3. QED BY <1>1, <1>2, <2>2, <3>1, <3>2, LookingStep
  <2>3. QED BY <1>6, <2>1, <2>2 DEF Texts!Upload, Texts!Done
<1>7. CASE Texts!Find(q)
  <2>1. CASE Texts!NextName(q)
    BY <1>1, <1>2, <2>1, NextNameStep, LookingStep
  <2>2. ASSUME NEW i \in Texts!At(question[q].account, question[q].name),
               Texts!Go(q, [question[q] EXCEPT !.at = "save", !.id = i, !.status = Texts!Told(submitted[i].status)])
        PROVE Texts!TextsInv'
    <3> DEFINE j == [question[q] EXCEPT !.at = "save", !.id = i, !.status = Texts!Told(submitted[i].status)]
    <3>1. i \in Ids /\ submitted[i].name = question[q].name /\ submitted[i].account = question[q].account /\ question[q].name \in Texts!Names /\ question[q].at = "find"
      BY <1>1, <1>7 DEF Texts!At, Texts!JobInv, Texts!Find, Texts!Naming
    <3>2. Texts!Told(submitted[i].status) \in {"APPROVED", "REJECTED", "PENDING"} /\ (Texts!Told(submitted[i].status) = "APPROVED" => submitted[i].status = "APPROVED")
      BY DEF Texts!Told
    <3>3. j \in Texts!Job /\ j.at = "save" /\ j.id = i /\ j.status = Texts!Told(submitted[i].status) /\ j.name = question[q].name /\ j.row = question[q].row
      BY <1>1, <3>1, <3>2, ZenonT(30) DEF Texts!Job, Texts!Naming, Texts!Statuses
    <3>4. Texts!JobInv(j)
      <4>1. submitted[i].status # "none"
        BY <3>1, NamesNamed DEF Texts!TextsInv
      <4>2. QED BY <1>1, <3>1, <3>2, <3>3, <4>1 DEF Texts!JobInv, Texts!Holding, Texts!Naming, Texts!TextsInv, Texts!Made
    <3>5. QED BY <1>1, <1>2, <2>2, <3>3, <3>4, LookingStep
  <2>3. QED BY <1>7, <2>1, <2>2 DEF Texts!Find
<1>8. QED BY <1>3, <1>4, <1>5, <1>6, <1>7

\* A template made at Meta.
LEMMA MadeKeeps ==
  ASSUME Texts!TextsInv, NEW q \in Requests, question[q].name \in Texts!Names, NEW i \in Ids, Texts!MadeAtMeta(q, i)
  PROVE /\ submitted' \in [Ids -> [account : Numbers \cup {NoNumber}, name : Texts!Names \cup {<<>>}, status : Texts!Statuses \cup {"PAUSED"}]]
        /\ \A k \in Ids : /\ submitted'[k].status = "APPROVED" => k \in approved
                          /\ submitted'[k].status = "none" => submitted'[k].name = <<>>
        /\ \A n \in Texts!Names : n = question[q].name => Texts!Made(i, n)'
        /\ \A k, n : Texts!Made(k, n) => Texts!Made(k, n)'
<1> DEFINE new == [account |-> question[q].account, name |-> question[q].name, status |-> "PENDING"]
<1>1. submitted[i] = Texts!Unmade /\ submitted' = [submitted EXCEPT ![i] = new] /\ Texts!TypeOK
  BY DEF Texts!MadeAtMeta, Texts!TextsInv
<1>2. new \in [account : Numbers \cup {NoNumber}, name : Texts!Names \cup {<<>>}, status : Texts!Statuses \cup {"PAUSED"}]
  BY <1>1 DEF Texts!TypeOK, Texts!Job, Texts!Statuses
<1>3. submitted'[i] = new /\ \A k \in Ids \ {i} : submitted'[k] = submitted[k]
  BY <1>1 DEF Texts!TypeOK
<1>4. submitted' \in [Ids -> [account : Numbers \cup {NoNumber}, name : Texts!Names \cup {<<>>}, status : Texts!Statuses \cup {"PAUSED"}]]
  BY <1>1, <1>2 DEF Texts!TypeOK
<1>5. submitted[i].status = "none"
  BY <1>1 DEF Texts!Unmade
<1>6. ASSUME NEW k \in Ids
      PROVE /\ submitted'[k].status = "APPROVED" => k \in approved
            /\ submitted'[k].status = "none" => submitted'[k].name = <<>>
  BY <1>3, <1>6 DEF Texts!TextsInv
<1>7. ASSUME NEW n \in Texts!Names, n = question[q].name PROVE Texts!Made(i, n)'
  BY <1>3, <1>7 DEF Texts!Made
<1>8. ASSUME NEW k, NEW n, Texts!Made(k, n) PROVE Texts!Made(k, n)'
  <2>1. k \in Ids /\ k # i
    BY <1>5, <1>8 DEF Texts!Made
  <2>2. submitted'[k] = submitted[k]
    BY <1>3, <2>1
  <2>3. QED BY <1>8, <2>2 DEF Texts!Made
<1>9. QED BY <1>4, <1>6, <1>7, <1>8

\* One request moves, and Meta's templates, the rows or both do, in a way that
\* keeps what was made, and every other request's hold on its row.
LEMMA WritingStep ==
  ASSUME Texts!TextsInv, NEW q \in Requests, NEW j \in Texts!Job, Texts!Go(q, j), UNCHANGED <<whatsapp, doubt, approved, reviews>>,
         question[q].at \notin {"verify", "verified"},
         submitted' \in [Ids -> [account : Numbers \cup {NoNumber}, name : Texts!Names \cup {<<>>}, status : Texts!Statuses \cup {"PAUSED"}]],
         \A k \in Ids : /\ submitted'[k].status = "APPROVED" => k \in approved
                        /\ submitted'[k].status = "none" => submitted'[k].name = <<>>,
         \A k, n : Texts!Made(k, n) => Texts!Made(k, n)',
         templates' \in [Texts!Names -> [id : Ids \cup {NoId}, status : Texts!Statuses]], moved' \subseteq Texts!Names,
         \A n \in Texts!Names : Texts!RowInv(n)',
         \A n \in Texts!Names : Texts!Made(templates[n].id, n) => Texts!Made(templates[n].id, n)',
         Texts!JobInv(j)'
  PROVE Texts!TextsInv'
<1>1. Texts!TypeOK /\ question' = [question EXCEPT ![q] = j]
  BY DEF Texts!TextsInv, Texts!Go
<1>2. Texts!TypeOK'
  BY <1>1 DEF Texts!TypeOK
<1>3. question'[q] = j /\ \A p \in Requests \ {q} : question'[p] = question[p]
  BY <1>1 DEF Texts!TypeOK
<1>4. ASSUME NEW p \in Requests PROVE Texts!JobInv(question[p])'
  <2>1. CASE p = q
    BY <1>3, <2>1 DEF Texts!JobInv, Texts!Made
  <2>2. CASE p # q
    BY <1>3, <2>2 DEF Texts!TextsInv, Texts!JobInv
  <2>3. QED BY <2>1, <2>2
<1>5. Texts!ConnectedIsVerified'
  BY VerdictFrame
<1>6. QED BY <1>2, <1>4, <1>5 DEF Texts!TextsInv

LEMMA MakeStep ==
  ASSUME Texts!TextsInv, NEW q \in Requests, (\E i \in Ids : Texts!Make(q, i)) \/ Texts!MakeFails(q)
  PROVE Texts!TextsInv'
<1>1. Texts!TypeOK /\ Texts!JobInv(question[q]) /\ question[q] \in Texts!Job /\ \A n \in Texts!Names : Texts!RowInv(n)
  BY DEF Texts!TextsInv, Texts!TypeOK
<1>2. UNCHANGED <<whatsapp, doubt, templates, approved, moved, reviews>> /\ question[q].at = "make" /\ question[q].name \in Texts!Names
  BY <1>1 DEF Texts!Make, Texts!MakeFails, Texts!JobInv, Texts!Naming
<1>3. ASSUME \A k, n : Texts!Made(k, n) => Texts!Made(k, n)' PROVE \A n \in Texts!Names : Texts!RowInv(n)'
  BY <1>1, <1>2, <1>3 DEF Texts!RowInv
<1>4. ASSUME NEW i \in Ids, Texts!Make(q, i) PROVE Texts!TextsInv'
  <2>0. [question[q] EXCEPT !.at = "save", !.id = i, !.status = "PENDING"] \in Texts!Job
    BY <1>1, ZenonT(30) DEF Texts!Job, Texts!Naming, Texts!Statuses
  <2>j. PICK j \in Texts!Job : j = [question[q] EXCEPT !.at = "save", !.id = i, !.status = "PENDING"]
    BY <2>0
  <2>1. Texts!MadeAtMeta(q, i) /\ Texts!Go(q, j)
    BY <1>4, <2>j DEF Texts!Make
  <2>2. j \in Texts!Job /\ j.at = "save" /\ j.id = i /\ j.status = "PENDING" /\ j.name = question[q].name /\ j.row = question[q].row
    BY <1>1, <2>j DEF Texts!Job
  <2>3. /\ submitted' \in [Ids -> [account : Numbers \cup {NoNumber}, name : Texts!Names \cup {<<>>}, status : Texts!Statuses \cup {"PAUSED"}]]
        /\ \A k \in Ids : /\ submitted'[k].status = "APPROVED" => k \in approved
                          /\ submitted'[k].status = "none" => submitted'[k].name = <<>>
        /\ \A n \in Texts!Names : n = question[q].name => Texts!Made(i, n)'
        /\ \A k, n : Texts!Made(k, n) => Texts!Made(k, n)'
    BY <1>2, <2>1, MadeKeeps
  <2>4. Texts!JobInv(j)'
    <3>1. PICK n \in Texts!Names : n = question[q].name
      BY <1>2
    <3>2. j.row = "kept" => Texts!Made(templates[n].id, n)'
      BY <1>1, <1>2, <2>2, <2>3, <3>1 DEF Texts!JobInv
    <3>3. QED BY <2>2, <2>3, <3>1, <3>2 DEF Texts!JobInv
  <2>5. QED BY <1>1, <1>2, <1>3, <2>1, <2>2, <2>3, <2>4, WritingStep DEF Texts!TypeOK
<1>5. CASE Texts!MakeFails(q)
  <2>1. /\ submitted' \in [Ids -> [account : Numbers \cup {NoNumber}, name : Texts!Names \cup {<<>>}, status : Texts!Statuses \cup {"PAUSED"}]]
        /\ \A k \in Ids : /\ submitted'[k].status = "APPROVED" => k \in approved
                          /\ submitted'[k].status = "none" => submitted'[k].name = <<>>
        /\ \A k, n : Texts!Made(k, n) => Texts!Made(k, n)'
    <3>1. CASE submitted' = submitted
      BY <1>1, <3>1 DEF Texts!TextsInv, Texts!TypeOK, Texts!Made
    <3>2. CASE \E i \in Ids : Texts!MadeAtMeta(q, i)
      BY <1>2, <3>2, MadeKeeps
    <3>3. QED BY <1>5, <3>1, <3>2 DEF Texts!MakeFails
  <2>2. \E j \in Texts!Job : Texts!Go(q, j) /\ Texts!JobInv(j)'
    <3>1. CASE Texts!Go(q, Texts!Idle)
      <4>1. Texts!JobInv(Texts!Idle)'
        BY IdleJob DEF Texts!JobInv, Texts!Idle, Texts!Naming, Texts!Holding
      <4>2. QED BY <3>1, <4>1, IdleJob
    <3>2. CASE Texts!Go(q, [question[q] EXCEPT !.at = "find"])
      <4>0. [question[q] EXCEPT !.at = "find"] \in Texts!Job
        BY <1>1 DEF Texts!Job, Texts!Naming
      <4>j. PICK j \in Texts!Job : j = [question[q] EXCEPT !.at = "find"]
        BY <4>0
      <4>1. j.at = "find" /\ j.name = question[q].name /\ j.row = question[q].row
        BY <1>1, <4>j DEF Texts!Job
      <4>2. Texts!JobInv(j)'
        BY <1>1, <1>2, <2>1, <4>1 DEF Texts!JobInv, Texts!Holding
      <4>3. QED BY <3>2, <4>j, <4>2
    <3>3. QED BY <1>5, <3>1, <3>2 DEF Texts!MakeFails, Texts!Done
  <2>3. PICK j \in Texts!Job : Texts!Go(q, j) /\ Texts!JobInv(j)'
    BY <2>2
  <2>4. QED BY <1>1, <1>2, <1>3, <2>1, <2>3, WritingStep DEF Texts!TypeOK
<1>6. QED BY <1>4, <1>5

\* The row of a name is written: the others' hold is what it was.
LEMMA RowWritten ==
  ASSUME Texts!TextsInv, NEW q \in Requests, NEW j \in Texts!Job, Texts!Go(q, j), UNCHANGED <<whatsapp, doubt, submitted, approved, reviews>>,
         question[q].at \notin {"verify", "verified"}, NEW n \in Texts!Names,
         NEW x \in [id : Ids \cup {NoId}, status : Texts!Statuses], templates' = [templates EXCEPT ![n] = x], Texts!Made(x.id, n),
         moved' = moved \ {n} \/ moved' = moved \cup {n},
         n \notin moved' /\ x.status = "APPROVED" => x.id \in approved, Texts!JobInv(j)'
  PROVE Texts!TextsInv'
<1>1. Texts!TypeOK
  BY DEF Texts!TextsInv
<1>2. templates'[n] = x /\ (\A m \in Texts!Names \ {n} : templates'[m] = templates[m]) /\ templates' \in [Texts!Names -> [id : Ids \cup {NoId}, status : Texts!Statuses]]
  BY <1>1 DEF Texts!TypeOK
<1>3. \A k, m : Texts!Made(k, m)' <=> Texts!Made(k, m)
  BY DEF Texts!Made
<1>4. ASSUME NEW m \in Texts!Names PROVE Texts!RowInv(m)' /\ (Texts!Made(templates[m].id, m) => Texts!Made(templates[m].id, m)')
  <2>1. CASE m = n
    BY <1>2, <2>1 DEF Texts!RowInv, Texts!Made
  <2>2. CASE m # n
    BY <1>2, <2>2 DEF Texts!RowInv, Texts!Made, Texts!TextsInv
  <2>3. QED BY <2>1, <2>2
<1>5. QED BY <1>1, <1>2, <1>3, <1>4, WritingStep DEF Texts!TextsInv, Texts!TypeOK


\* The row of the name is written with the template the request holds.
LEMMA SaveStep ==
  ASSUME Texts!TextsInv, NEW q \in Requests, Texts!Save(q) PROVE Texts!TextsInv'
<1> DEFINE saved == IF question[q].row = "none" THEN templates[question[q].name] = Texts!NoRow ELSE question[q].row = "kept"
<1>1. Texts!TypeOK /\ Texts!JobInv(question[q]) /\ question[q] \in Texts!Job /\ reviews \in Nat /\ question[q].at = "save"
  BY DEF Texts!TextsInv, Texts!TypeOK, Texts!Save
<1>2. PICK n \in Texts!Names : n = question[q].name
  BY <1>1 DEF Texts!JobInv, Texts!Naming
<1>3. UNCHANGED <<whatsapp, doubt, submitted, approved, reviews>>
  BY DEF Texts!Save
<1>4. CASE ~saved
  <2>1. Texts!Go(q, Texts!Idle) /\ UNCHANGED <<templates, moved>>
    BY <1>4 DEF Texts!Save, Texts!Done
  <2>2. QED BY <1>1, <1>3, <2>1, IdleJob, LookingStep
<1>5. CASE saved
  <2>0. [id |-> question[q].id, status |-> question[q].status] \in [id : Ids \cup {NoId}, status : Texts!Statuses]
    <3>1. question[q].id \in Ids \cup {NoId}
      BY <1>1 DEF Texts!Job
    <3>2. question[q].status \in Texts!Statuses
      BY <1>1 DEF Texts!JobInv, Texts!Job
    <3>3. QED BY <3>1, <3>2
  <2>1. PICK x \in [id : Ids \cup {NoId}, status : Texts!Statuses] : x.id = question[q].id /\ x.status = question[q].status
                                                             /\ x = [id |-> question[q].id, status |-> question[q].status]
    BY <2>0
  <2>2. templates' = [templates EXCEPT ![n] = x] /\ moved' = moved \ {n} /\ (Texts!NextName(q) \/ Texts!Go(q, Texts!Idle))
    BY <1>2, <1>5, <2>1 DEF Texts!Save, Texts!Done
  <2>3. Texts!Made(x.id, n) /\ (x.status = "APPROVED" => x.id \in approved)
    BY <1>1, <1>2, <2>1 DEF Texts!JobInv, Texts!Holding
  <2>4. PICK j \in Texts!Job : Texts!Go(q, j) /\ Texts!JobInv(j) /\ j.at \in {"idle", "look"} /\ j.row = "none"
    BY <2>2, IdleJob, NextNameStep
  <2>6. Texts!JobInv(j)'
    BY <2>4 DEF Texts!JobInv, Texts!Holding, Texts!Naming
  <2>7. QED BY <1>1, <1>3, <2>2, <2>3, <2>4, <2>6, RowWritten
<1>6. QED BY <1>4, <1>5

LEMMA AskingStep ==
  ASSUME Texts!TextsInv, NEW q \in Requests,
         \/ \E n \in Texts!Names : Texts!CheckStatus(q, n) \/ Texts!List(q, n) \/ Texts!Refresh(q, n) \/ Texts!AskFirst(q, n) \/ Texts!UseApproved(q, n)
         \/ Texts!Answer(q) \/ Texts!Send(q)
  PROVE Texts!TextsInv'
<1>1. Texts!TypeOK /\ Texts!JobInv(question[q]) /\ question[q] \in Texts!Job /\ whatsapp.account \in Numbers \cup {NoNumber} /\ reviews \in Nat
  BY DEF Texts!TextsInv, Texts!TypeOK
<1>2. UNCHANGED <<whatsapp, doubt, submitted, templates, approved, moved, reviews>> /\ question[q].at \notin {"verify", "verified"}
  BY DEF Texts!CheckStatus, Texts!List, Texts!Refresh, Texts!AskFirst, Texts!AskPending, Texts!UseApproved, Texts!Answer, Texts!Send, Texts!templates
<1>3. ASSUME NEW n \in Texts!Names, templates[n] # Texts!NoRow, NEW what \in {"check", "list", "send"}
      PROVE /\ Texts!Read(n, what) \in Texts!Job /\ Texts!Read(n, what).at = "ask" /\ Texts!Read(n, what).name = n
            /\ Texts!Read(n, what).id = templates[n].id /\ Texts!Read(n, what).row = "kept" /\ Texts!Made(templates[n].id, n)
  <2>1. templates[n].id \in Ids \cup {NoId} /\ Texts!Idle \in Texts!Job
    BY <1>1, IdleJob DEF Texts!TypeOK
  <2>2. Texts!Made(templates[n].id, n)
    BY <1>3 DEF Texts!TextsInv, Texts!RowInv
  <2>3. Texts!Read(n, what) = [Texts!Idle EXCEPT !.at = "ask", !.what = what, !.name = n, !.id = templates[n].id, !.row = "kept", !.account = whatsapp.account]
    BY DEF Texts!Read
  <2>4. /\ Texts!Read(n, what) \in Texts!Job /\ Texts!Read(n, what).at = "ask" /\ Texts!Read(n, what).name = n
        /\ Texts!Read(n, what).id = templates[n].id /\ Texts!Read(n, what).row = "kept"
    <3>1. PICK i \in Ids \cup {NoId}, a \in Numbers \cup {NoNumber} : i = templates[n].id /\ a = whatsapp.account
      BY <1>1, <2>1
    <3>2. Texts!Read(n, what) = [Texts!Idle EXCEPT !.at = "ask", !.what = what, !.name = n, !.id = i, !.row = "kept", !.account = a]
      BY <2>3, <3>1
    <3>3. "ask" \in {"idle", "verify", "verified", "look"} \cup Texts!Naming
      BY DEF Texts!Naming
    <3>4. Texts!Idle \in Texts!Job
      BY IdleJob
    <3>5. Texts!Read(n, what) \in Texts!Job
      BY <3>1, <3>2, <3>3, <3>4 DEF Texts!Job
    <3>6. QED BY <3>1, <3>2, <3>4, <3>5 DEF Texts!Job
  <2>5. QED BY <2>2, <2>4
<1>4. ASSUME NEW n \in Texts!Names, NEW what \in {"check", "list", "send"}, templates[n] # Texts!NoRow, Texts!Go(q, Texts!Read(n, what)) PROVE Texts!TextsInv'
  <2>1. Texts!JobInv(Texts!Read(n, what))
    BY <1>3, <1>4 DEF Texts!JobInv, Texts!Naming, Texts!Holding
  <2>2. QED BY <1>1, <1>2, <1>3, <1>4, <2>1, LookingStep
<1>5. ASSUME NEW n \in Texts!Names, Texts!CheckStatus(q, n) PROVE Texts!TextsInv'
  BY <1>4, <1>5 DEF Texts!CheckStatus
<1>6. ASSUME NEW n \in Texts!Names, NEW what \in {"list", "send"}, Texts!AskPending(q, n, what) PROVE Texts!TextsInv'
  <2>1. templates[n] # Texts!NoRow
    BY <1>6 DEF Texts!AskPending, Texts!NoRow
  <2>2. QED BY <1>4, <1>6, <2>1 DEF Texts!AskPending
<1>7. ASSUME NEW n \in Texts!Names, Texts!UseApproved(q, n) PROVE Texts!TextsInv'
  <2> DEFINE sure == n \notin moved
             j == [Texts!Read(n, "send") EXCEPT !.at = "send", !.sure = sure]
  <2>0. Texts!Go(q, j) /\ templates[n].status = "APPROVED"
    BY <1>7 DEF Texts!UseApproved
  <2>1. templates[n] # Texts!NoRow
    BY <2>0 DEF Texts!NoRow
  <2>2. sure \in BOOLEAN
    OBVIOUS
  <2>3. /\ Texts!Read(n, "send") \in Texts!Job /\ Texts!Read(n, "send").name = n
        /\ Texts!Read(n, "send").id = templates[n].id /\ Texts!Read(n, "send").row = "kept" /\ Texts!Made(templates[n].id, n)
    BY <1>3, <2>1
  <2>4. j \in Texts!Job
    BY <2>2, <2>3, ZenonT(30) DEF Texts!Job, Texts!Naming
  <2>5. j.at = "send" /\ j.name = n /\ j.id = templates[n].id /\ j.row = "kept" /\ (j.sure <=> sure)
    BY <2>3 DEF Texts!Job
  <2>6. sure => templates[n].id \in approved
    BY <2>0 DEF Texts!TextsInv, Texts!RowInv
  <2>7. Texts!JobInv(j)
    BY <2>3, <2>5, <2>6 DEF Texts!JobInv, Texts!Naming, Texts!Holding
  <2>8. QED BY <1>1, <1>2, <2>0, <2>4, <2>7, LookingStep
<1>8. CASE Texts!Answer(q)
  <2>1. CASE Texts!Go(q, Texts!Idle)
    BY <1>1, <1>2, <2>1, IdleJob, LookingStep
  <2>2. CASE Texts!Go(q, [question[q] EXCEPT !.at = "store", !.status = submitted[question[q].id].status])
    <3> DEFINE j == [question[q] EXCEPT !.at = "store", !.status = submitted[question[q].id].status]
    <3>1. question[q].at = "ask" /\ Texts!Made(question[q].id, question[q].name) /\ question[q].id \in Ids
      BY <1>1, <1>8 DEF Texts!Answer, Texts!JobInv, Texts!Holding, Texts!Made
    <3>2. submitted[question[q].id].status \in Texts!Statuses \cup {"PAUSED"}
      BY <1>1, <3>1 DEF Texts!TypeOK
    <3>3. j \in Texts!Job /\ j.at = "store" /\ j.status = submitted[question[q].id].status /\ j.name = question[q].name /\ j.row = question[q].row /\ j.id = question[q].id
      BY <1>1, <3>2 DEF Texts!Job, Texts!Naming
    <3>4. Texts!JobInv(j)
      BY <1>1, <3>1, <3>3 DEF Texts!JobInv, Texts!Naming, Texts!Holding, Texts!TextsInv
    <3>5. QED BY <1>1, <1>2, <2>2, <3>3, <3>4, LookingStep
  <2>3. QED BY <1>8, <2>1, <2>2 DEF Texts!Answer, Texts!Done
<1>9. CASE Texts!Send(q)
  BY <1>1, <1>2, <1>9, IdleJob, LookingStep DEF Texts!Send, Texts!Done
<1>10. QED BY <1>5, <1>6, <1>7, <1>8, <1>9 DEF Texts!List, Texts!Refresh, Texts!AskFirst

\* Meta's answer is written to the row that is of the name by then.
LEMMA StoreStep ==
  ASSUME Texts!TextsInv, NEW q \in Requests, Texts!Store(q) PROVE Texts!TextsInv'
<1> DEFINE stored == Texts!Written(q) /\ question[q].row = "kept"
<1>1. Texts!TypeOK /\ Texts!JobInv(question[q]) /\ question[q] \in Texts!Job /\ reviews \in Nat /\ question[q].at = "store"
  BY DEF Texts!TextsInv, Texts!TypeOK, Texts!Store
<1>2. PICK n \in Texts!Names : n = question[q].name
  BY <1>1 DEF Texts!JobInv, Texts!Naming
<1>3. UNCHANGED <<whatsapp, doubt, submitted, approved, reviews>>
  BY DEF Texts!Store
<1>4. CASE ~stored
  <2>1. Texts!Go(q, Texts!Idle) /\ UNCHANGED <<templates, moved>>
    BY <1>4 DEF Texts!Store, Texts!Done
  <2>2. QED BY <1>1, <1>3, <2>1, IdleJob, LookingStep
<1>5. CASE stored
  <2>1. templates[n] \in [id : Ids \cup {NoId}, status : Texts!Statuses] /\ Texts!Made(templates[n].id, n) /\ Texts!Made(question[q].id, n)
    BY <1>1, <1>2, <1>5 DEF Texts!TypeOK, Texts!JobInv, Texts!Holding
  <2>2. Texts!Told(question[q].status) \in Texts!Statuses /\ (Texts!Told(question[q].status) = "APPROVED" => question[q].id \in approved)
    BY <1>1 DEF Texts!Told, Texts!Statuses, Texts!JobInv
  <2>3. PICK x \in [id : Ids \cup {NoId}, status : Texts!Statuses] : x = [templates[n] EXCEPT !.status = Texts!Told(question[q].status)]
    BY <2>1, <2>2
  <2>4. x.id = templates[n].id /\ x.status = Texts!Told(question[q].status)
    BY <2>1, <2>3
  <2>5. templates' = [templates EXCEPT ![n] = x]
    BY <1>1, <1>2, <1>5, <2>3 DEF Texts!Store, Texts!TypeOK
  <2>6. moved' = IF templates[n].id = question[q].id THEN moved \ {n} ELSE moved \cup {n}
    BY <1>2, <1>5 DEF Texts!Store
  <2>7. n \notin moved' /\ x.status = "APPROVED" => x.id \in approved
    BY <2>2, <2>4, <2>6
  <2>8. templates'[n] = x
    BY <1>1, <2>5 DEF Texts!TypeOK
  <2>9. \E j \in Texts!Job : Texts!Go(q, j) /\ Texts!JobInv(j)'
    <3>1. CASE Texts!Go(q, Texts!Idle)
      <4>1. Texts!JobInv(Texts!Idle)'
        BY IdleJob DEF Texts!JobInv, Texts!Idle, Texts!Naming, Texts!Holding
      <4>2. QED BY <3>1, <4>1, IdleJob
    <3>2. CASE question[q].status = "APPROVED" /\ Texts!Go(q, [question[q] EXCEPT !.at = "send", !.sure = TRUE])
      <4>0. [question[q] EXCEPT !.at = "send", !.sure = TRUE] \in Texts!Job
        BY <1>1 DEF Texts!Job, Texts!Naming
      <4>1. PICK j \in Texts!Job : j = [question[q] EXCEPT !.at = "send", !.sure = TRUE]
        BY <4>0
      <4>2. j.at = "send" /\ j.name = n /\ j.row = "kept" /\ j.id = question[q].id
        BY <1>1, <1>2, <1>5, <4>1 DEF Texts!Job
      <4>3. question[q].id \in approved
        BY <1>1, <3>2 DEF Texts!JobInv
      <4>4. Texts!JobInv(j)'
        BY <1>3, <2>1, <2>4, <2>8, <4>2, <4>3 DEF Texts!JobInv, Texts!Naming, Texts!Holding, Texts!Made
      <4>5. QED BY <3>2, <4>1, <4>4
    <3>3. QED BY <1>5, <3>1, <3>2 DEF Texts!Store, Texts!Done
  <2>10. PICK j \in Texts!Job : Texts!Go(q, j) /\ Texts!JobInv(j)'
    BY <2>9
  <2>11. QED BY <1>1, <1>3, <2>1, <2>4, <2>5, <2>6, <2>7, <2>10, RowWritten
<1>6. QED BY <1>4, <1>5

\* Those who had read a deleted row find it no more.
LEMMA DeleteStep ==
  ASSUME Texts!TextsInv, NEW n \in Texts!Names, Texts!Delete(n) PROVE Texts!TextsInv'
<1>1. /\ Texts!TypeOK /\ UNCHANGED <<whatsapp, doubt, submitted, approved, reviews>> /\ templates' = [templates EXCEPT ![n] = Texts!NoRow] /\ moved' = moved \ {n}
      /\ question' = [q \in Requests |-> IF question[q].name = n /\ question[q].row = "kept" THEN [question[q] EXCEPT !.row = "gone"] ELSE question[q]]
  BY DEF Texts!Delete, Texts!TextsInv
<1>2. Texts!NoRow \in [id : Ids \cup {NoId}, status : Texts!Statuses]
  BY DEF Texts!NoRow, Texts!Statuses
<1>3. templates' \in [Texts!Names -> [id : Ids \cup {NoId}, status : Texts!Statuses]] /\ templates'[n] = Texts!NoRow /\ \A m \in Texts!Names \ {n} : templates'[m] = templates[m]
  BY <1>1, <1>2 DEF Texts!TypeOK
<1>4. ASSUME NEW q \in Requests PROVE question'[q] \in Texts!Job /\ Texts!JobInv(question[q])' /\ question'[q].at = question[q].at
  <2>1. Texts!JobInv(question[q]) /\ question[q] \in Texts!Job
    BY <1>1 DEF Texts!TextsInv, Texts!TypeOK
  <2>2. CASE question[q].name = n /\ question[q].row = "kept"
    <3>1. question'[q] = [question[q] EXCEPT !.row = "gone"]
      BY <1>1, <2>2
    <3>2. question'[q] \in Texts!Job
      BY <2>1, <3>1 DEF Texts!Job
    <3>3. /\ question'[q].at = question[q].at /\ question'[q].name = question[q].name /\ question'[q].id = question[q].id /\ question'[q].status = question[q].status
          /\ question'[q].row = "gone" /\ question'[q].todo = question[q].todo /\ question'[q].sure = question[q].sure
      BY <2>1, <3>1 DEF Texts!Job
    <3>4. Texts!JobInv(question[q])'
      BY <1>1, <2>1, <3>3 DEF Texts!JobInv, Texts!Made
    <3>5. QED BY <3>2, <3>3, <3>4
  <2>3. CASE ~(question[q].name = n /\ question[q].row = "kept")
    <3>1. question'[q] = question[q]
      BY <1>1, <2>3
    <3>2. QED BY <1>1, <1>3, <2>1, <2>3, <3>1 DEF Texts!JobInv, Texts!Made
  <2>4. QED BY <2>2, <2>3
<1>5. question' \in [Requests -> Texts!Job]
  BY <1>1, <1>4
<1>6. Texts!TypeOK'
  BY <1>1, <1>3, <1>5 DEF Texts!TypeOK
<1>7. \A m \in Texts!Names : Texts!RowInv(m)'
  BY <1>1, <1>3 DEF Texts!TextsInv, Texts!RowInv, Texts!Made, Texts!NoRow
<1>8. Texts!Verifying' = Texts!Verifying
  BY <1>4 DEF Texts!Verifying
<1>9. Texts!ConnectedIsVerified'
  BY <1>1, <1>8 DEF Texts!TextsInv, Texts!ConnectedIsVerified
<1>10. QED BY <1>1, <1>4, <1>6, <1>7, <1>9 DEF Texts!TextsInv

LEMMA OutsideStep ==
  ASSUME Texts!TextsInv,
         \/ Texts!Disconnect
         \/ \E i \in Ids, said \in {"APPROVED", "REJECTED", "PENDING", "PAUSED"} : Texts!Review(i, said)
         \/ \E q \in Requests : Texts!Break(q)
  PROVE Texts!TextsInv'
<1>1. Texts!TypeOK
  BY DEF Texts!TextsInv
<1>2. CASE Texts!Disconnect
  <2>1. whatsapp' = [account |-> NoNumber, connected |-> FALSE] /\ UNCHANGED <<doubt, question, submitted, templates, approved, moved, reviews>>
    BY <1>2 DEF Texts!Disconnect, Texts!templates
  <2>2. Texts!TypeOK' /\ Texts!ConnectedIsVerified'
    BY <1>1, <2>1 DEF Texts!TypeOK, Texts!ConnectedIsVerified
  <2>3. QED BY <2>1, <2>2 DEF Texts!TextsInv, Texts!RowInv, Texts!JobInv, Texts!Made
<1>3. ASSUME NEW i \in Ids, NEW said \in {"APPROVED", "REJECTED", "PENDING", "PAUSED"}, Texts!Review(i, said) PROVE Texts!TextsInv'
  <2>1. /\ submitted[i] # Texts!Unmade /\ submitted' = [submitted EXCEPT ![i].status = said] /\ reviews' = reviews + 1
        /\ approved' = (IF said = "APPROVED" THEN approved \cup {i} ELSE approved) /\ UNCHANGED <<whatsapp, doubt, templates, question, moved>>
    BY <1>3 DEF Texts!Review, Texts!Event
  <2>2. said \in Texts!Statuses \cup {"PAUSED"} /\ reviews' \in Nat
    BY <1>1, <2>1 DEF Texts!Statuses, Texts!TypeOK
  <2>3. /\ submitted' \in [Ids -> [account : Numbers \cup {NoNumber}, name : Texts!Names \cup {<<>>}, status : Texts!Statuses \cup {"PAUSED"}]]
        /\ submitted'[i].status = said /\ submitted'[i].name = submitted[i].name
        /\ \A k \in Ids \ {i} : submitted'[k] = submitted[k]
    BY <1>1, <2>1, <2>2 DEF Texts!TypeOK
  <2>4. Texts!TypeOK'
    BY <1>1, <2>1, <2>2, <2>3 DEF Texts!TypeOK
  <2>5. ASSUME NEW k, NEW n, Texts!Made(k, n) PROVE Texts!Made(k, n)'
    <3>1. k \in Ids
      BY <2>5 DEF Texts!Made
    <3>2. QED BY <2>3, <2>5, <3>1 DEF Texts!Made
  <2>6. \A k \in Ids : /\ submitted'[k].status = "APPROVED" => k \in approved'
                       /\ submitted'[k].status = "none" => submitted'[k].name = <<>>
    BY <2>1, <2>3 DEF Texts!TextsInv
  <2>7. \A n \in Texts!Names : Texts!RowInv(n)'
    BY <2>1, <2>5 DEF Texts!TextsInv, Texts!RowInv
  <2>8. \A q \in Requests : Texts!JobInv(question[q])'
    BY <2>1, <2>5 DEF Texts!TextsInv, Texts!JobInv
  <2>9. Texts!ConnectedIsVerified'
    BY <2>1 DEF Texts!TextsInv, Texts!ConnectedIsVerified, Texts!Verifying
  <2>10. QED BY <2>4, <2>6, <2>7, <2>8, <2>9 DEF Texts!TextsInv
<1>4. ASSUME NEW q \in Requests, Texts!Break(q) PROVE Texts!TextsInv'
  <2>1. /\ reviews' = reviews + 1 /\ Texts!Go(q, Texts!Idle) /\ doubt' = (doubt \/ q \in Texts!Verifying)
        /\ UNCHANGED <<whatsapp, submitted, templates, approved, moved>>
    BY <1>4 DEF Texts!Break, Texts!Event, Texts!Done
  <2>2. (doubt \/ q \in Texts!Verifying) \in BOOLEAN /\ reviews' \in Nat
    BY <1>1, <2>1 DEF Texts!TypeOK
  <2>3. Texts!Verifying' = Texts!Verifying \ {q}
    BY <1>1, <2>1, IdleJob DEF Texts!Go, Texts!Verifying, Texts!TypeOK
  <2>4. Texts!ConnectedIsVerified'
    BY <2>1, <2>3 DEF Texts!TextsInv, Texts!ConnectedIsVerified
  <2>5. QED BY <1>1, <2>1, <2>2, <2>4, IdleJob, TextFrame DEF Texts!TypeOK
<1>5. QED BY <1>2, <1>3, <1>4

LEMMA TextsStep ==
  ASSUME Texts!TextsInv, [Texts!Next]_texts PROVE Texts!TextsInv'
<1>1. CASE UNCHANGED texts
  <2>1. Texts!TypeOK' /\ Texts!ConnectedIsVerified'
    BY <1>1 DEF texts, Texts!TextsInv, Texts!TypeOK, Texts!ConnectedIsVerified, Texts!Verifying
  <2>2. QED BY <1>1, <2>1 DEF texts, Texts!TextsInv, Texts!RowInv, Texts!JobInv, Texts!Made
<1>2. ASSUME NEW q \in Requests, Texts!Handle(q) PROVE Texts!TextsInv'
  BY <1>2, AccountStep, MakingStep, MakeStep, SaveStep, AskingStep, StoreStep, OutsideStep DEF Texts!Handle
<1>3. ASSUME NEW q \in Requests, Texts!Ask(q) PROVE Texts!TextsInv'
  BY <1>3, AccountStep, MakingStep, AskingStep DEF Texts!Ask
<1>4. QED BY <1>1, <1>2, <1>3, DeleteStep, OutsideStep DEF Texts!Next

LEMMA TextsPromise == Texts!TextsInv => Texts!ConnectedIsVerified /\ Texts!TemplatesFollowMeta
BY DEF Texts!TextsInv, Texts!RowInv, Texts!JobInv, Texts!Made, Texts!Holding, Texts!TemplatesFollowMeta

-----------------------------------------------------------------------------
(* What the components promise, side by side.                              *)

\* A behaviour of them all is one of each.
LEMMA SideBySide ==
  ASSUME [InboxNext]_<<talk, rules, boosts, links, texts>>
  PROVE /\ [Talk!Next]_talk /\ [Rule!Next]_rules /\ [Boosts!Next]_boosts /\ [Links!Next]_links /\ [Texts!Next]_texts
BY DEF InboxNext, TalkStep, RuleStep, BoostStep, LinkStep, TextStep

LEMMA TalkAlways == InboxSpec => []Talk!TalkInv
<1>1. InboxInit => Talk!TalkInv
  BY TalkInit DEF InboxInit
<1>2. Talk!TalkInv /\ [InboxNext]_<<talk, rules, boosts, links, texts>> => Talk!TalkInv'
  BY SideBySide, TalkInvStep
<1>3. QED BY <1>1, <1>2, PTL DEF InboxSpec

\* A customer's message is answered by the flow once, however often the
\* webhook repeats it and whether or not a synchronization finds it too: only
\* the request that records it (social-inbox.service.ts) goes on to the flow.
THEOREM FlowAnswersOnceHolds == InboxSpec => []FlowAnswersOnce
<1>1. Talk!TalkInv => FlowAnswersOnce
  BY DEF Talk!TalkInv, Talk!AnswersInv, FlowAnswersOnce
<1>2. QED BY <1>1, TalkAlways, PTL

\* The flow says nothing to a message that came after an answer of the staff
\* in the last hours, except where that answer's echo was recorded before the
\* answer itself.
THEOREM QuietAfterStaffHolds == InboxSpec => []QuietAfterStaff
<1>1. Talk!TalkInv => QuietAfterStaff
  BY DEF Talk!TalkInv, Talk!StaffInv, QuietAfterStaff
<1>2. QED BY <1>1, TalkAlways, PTL

\* A customer's message that counts as read was shown to the staff, or was
\* passed over by the marking of its whole thread, or lies behind the messages
\* a thread shows.
THEOREM ReadWasShownHolds == InboxSpec => []ReadWasShown
<1>1. Talk!TalkInv => ReadWasShown
  BY DEF Talk!TalkInv, ReadWasShown
<1>2. QED BY <1>1, TalkAlways, PTL

\* A rule sends an author one message, however many of his comments match and
\* however often the webhook repeats them: the hit is written before the
\* message is sent.
THEOREM OneMessagePerRuleHolds == InboxSpec => []OneMessagePerRule
<1>1. InboxInit => Rule!RulesInv
  BY RulesInvInit DEF InboxInit
<1>2. Rule!RulesInv /\ [InboxNext]_<<talk, rules, boosts, links, texts>> => Rule!RulesInv'
  BY SideBySide, RulesInvStep
<1>3. Rule!RulesInv => OneMessagePerRule
  BY DEF Rule!RulesInv, OneMessagePerRule
<1>4. QED BY <1>1, <1>2, <1>3, PTL DEF InboxSpec

\* A campaign that spends has a row the merchant can stop it by, and the row
\* tells what Meta was last told, except where a request was cut off or
\* overlapped another.
THEOREM AdsFollowMetaHolds == InboxSpec => []AdsFollowMeta
<1>1. InboxInit => Boosts!AdsInv
  BY AdsInit DEF InboxInit
<1>2. Boosts!AdsInv /\ [InboxNext]_<<talk, rules, boosts, links, texts>> => Boosts!AdsInv'
  BY SideBySide, AdsInvStep
<1>3. Boosts!AdsInv => AdsFollowMeta
  BY AdsPromise DEF AdsFollowMeta
<1>4. QED BY <1>1, <1>2, <1>3, PTL DEF InboxSpec

\* A connected account keeps the token TikTok takes next, unless renewals
\* overlapped or one was cut off, and an address gets a month's report once
\* (updateTokens stores both tokens, claimMonthly is one statement).
THEOREM AccountsStayUsableHolds == InboxSpec => []AccountsStayUsable
<1>1. InboxInit => Links!LinksInv
  BY LinksInit DEF InboxInit
<1>2. Links!LinksInv /\ [InboxNext]_<<talk, rules, boosts, links, texts>> => Links!LinksInv'
  BY SideBySide, LinksStep
<1>3. Links!LinksInv => AccountsStayUsable
  BY LinksPromise DEF AccountsStayUsable
<1>4. QED BY <1>1, <1>2, <1>3, PTL DEF InboxSpec

\* "Connected" is Meta's answer about the account the company has, and a
\* template's row, its approval and the messages sent by it are of a template
\* Meta made by that name and approved, but for the overlaps the ghosts name.
THEOREM WhatsappFollowsMetaHolds == InboxSpec => []WhatsappFollowsMeta
<1>1. InboxInit => Texts!TextsInv
  BY TextsInit DEF InboxInit
<1>2. Texts!TextsInv /\ [InboxNext]_<<talk, rules, boosts, links, texts>> => Texts!TextsInv'
  BY SideBySide, TextsStep
<1>3. Texts!TextsInv => WhatsappFollowsMeta
  BY TextsPromise DEF WhatsappFollowsMeta
<1>4. QED BY <1>1, <1>2, <1>3, PTL DEF InboxSpec
=============================================================================
