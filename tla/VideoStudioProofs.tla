--------------------------- MODULE VideoStudioProofs ---------------------------
(***************************************************************************)
(* Proofs about VideoStudio, for any sets of jobs, clients and processes,  *)
(* any price, any limits and any number of crashes.                        *)
(***************************************************************************)
EXTENDS VideoStudio, FiniteSetTheorems, TLAPS

\* Every action keeps the variables in their types.
THEOREM TypeCorrect == Spec => []TypeOK
<1>1. Init => TypeOK
  BY DEF Init, TypeOK, Statuses, Places
<1>2. TypeOK /\ [Next]_vars => TypeOK'
  <2> SUFFICES ASSUME TypeOK, [Next]_vars PROVE TypeOK'
    OBVIOUS
  <2> USE FlagAssumption, CostAssumption, BoundAssumption, GrantAssumption
      DEF TypeOK, ledger, rows, memory, history, Goto, Actors, Statuses, Places, Leave, FinishPending, Won
  <2>1. ASSUME NEW a \in Actors, Sweep(a) PROVE TypeOK'
    <3>1. CASE Arrive(a)      BY <3>1 DEF Arrive
    <3>2. CASE ReadStale(a)   BY <3>2 DEF ReadStale, Pending
    <3>3. CASE CloseStale(a)  BY <3>3 DEF CloseStale
    <3>4. CASE ReturnStale(a) BY <3>4 DEF ReturnStale, RefundOf
    <3>5. CASE SweepDone(a)   BY <3>5 DEF SweepDone
    <3>6. QED BY <2>1, <3>1, <3>2, <3>3, <3>4, <3>5 DEF Sweep
  <2>2. ASSUME NEW a \in Actors, SweepThrows(a) PROVE TypeOK'
    BY <2>2 DEF SweepThrows
  <2>3. ASSUME NEW a \in Actors, RefundFails(a) PROVE TypeOK'
    BY <2>3 DEF RefundFails
  <2>4. ASSUME NEW j \in Jobs, Start(j) PROVE TypeOK'
    <3>1. CASE Admit(j)  BY <3>1 DEF Admit
    <3>2. CASE Refuse(j) BY <3>2 DEF Refuse
    <3>3. CASE Spend(j)  BY <3>3 DEF Spend, Debit
    <3>4. CASE Create(j) BY <3>4 DEF Create
    <3>5. QED BY <2>4, <3>1, <3>2, <3>3, <3>4 DEF Start
  <2>5. ASSUME NEW j \in Jobs, Run(j) PROVE TypeOK'
    <3>1. CASE Generate(j) BY <3>1 DEF Generate
    <3>2. CASE Save(j)     BY <3>2 DEF Save
    <3>3. CASE Finish(j)   BY <3>3 DEF Finish
    <3>4. CASE Fail(j)     BY <3>4 DEF Fail
    <3>5. CASE Refund(j)   BY <3>5 DEF Refund, RefundOf
    <3>6. QED BY <2>5, <3>1, <3>2, <3>3, <3>4, <3>5 DEF Run
  <2>6. ASSUME NEW j \in Jobs, Fault(j) PROVE TypeOK'
    <3>1. CASE CreateFails(j)  BY <3>1 DEF CreateFails
    <3>2. CASE FinishThrows(j) BY <3>2 DEF FinishThrows
    <3>3. CASE FailThrows(j)   BY <3>3 DEF FailThrows
    <3>4. QED BY <2>6, <3>1, <3>2, <3>3 DEF Fault
  <2>7. ASSUME NEW j \in Jobs, Age(j) PROVE TypeOK'
    BY <2>7 DEF Age
  <2>8. ASSUME NEW p \in Procs, Crash(p) PROVE TypeOK'
    BY <2>8 DEF Crash
  <2>9. ASSUME NEW n \in GrantSizes, Grant(n) PROVE TypeOK'
    BY <2>9 DEF Grant
  <2>10. CASE UNCHANGED vars
    BY <2>10 DEF vars
  <2>11. QED
    BY <2>1, <2>2, <2>3, <2>4, <2>5, <2>6, <2>7, <2>8, <2>9, <2>10 DEF Next
<1>3. QED
  BY <1>1, <1>2, PTL DEF Spec
-----------------------------------------------------------------------------
\* The inductive invariant is preserved by every step.
LEMMA VideoInvStep ==
  ASSUME VideoInv, TypeOK', [Next]_vars
  PROVE  VideoInv'
<1> USE JobsAssumption, FlagAssumption, CostAssumption
    DEF VideoInv, TypeOK, JobInv, Charged, OweInv, OwePlaces, OweClosed, OweAlone, Early, BeforeWork, Actors,
        Statuses, Places, Goto, ledger, rows, memory, history
<1>1. ASSUME NEW a \in Actors, Arrive(a) PROVE VideoInv'
  <2>1. ASSUME NEW k \in Jobs PROVE JobInv(k)'
    BY <1>1 DEF Arrive
  <2>2. OweInv'
    BY <1>1 DEF Arrive
  <2>3. QED BY <2>1, <2>2
<1>2. ASSUME NEW a \in Actors, ReadStale(a) PROVE VideoInv'
  <2>1. ASSUME NEW k \in Jobs PROVE JobInv(k)'
    BY <1>2 DEF ReadStale
  <2>2. OweInv'
    BY <1>2 DEF ReadStale
  <2>3. QED BY <2>1, <2>2
<1>3. ASSUME NEW a \in Actors, CloseStale(a) PROVE VideoInv'
  <2>1. ASSUME NEW k \in Jobs PROVE JobInv(k)'
    BY <1>3 DEF CloseStale, FinishPending, Won
  <2>2. OweInv'
    <3> PICK j \in todo[a] :
          /\ FinishPending(j, "FAILED")
          /\ IF Won(j) THEN owes' = [owes EXCEPT ![a] = {j}] /\ Goto(a, "returning")
                       ELSE UNCHANGED <<owes, pc>>
      BY <1>3 DEF CloseStale
    <3>1. j \in Jobs /\ pc[a] = "closing" /\ UNCHANGED <<spends, refunds>>
      BY <1>3 DEF CloseStale
    <3>2. CASE Won(j)
      <4>1. /\ gen' = [gen EXCEPT ![j] = "FAILED"]
            /\ owes' = [owes EXCEPT ![a] = {j}] /\ pc' = [pc EXCEPT ![a] = "returning"]
            /\ gen[j] = "PENDING"
        BY <3>2 DEF FinishPending, Won
      <4>2. \A b \in Actors : j \notin owes[b]
        BY <4>1
      <4>3. OwePlaces'
        BY <4>1
      <4>4. ASSUME NEW b \in Actors, NEW k \in owes'[b]
            PROVE  /\ owes'[b] = {k} /\ spends'[k] = (IF Unlimited THEN 0 ELSE 1) /\ refunds'[k] = 0
                   /\ gen'[k] = "FAILED" \/ (gen'[k] = "absent" /\ b = k /\ pc'[k] = "undo")
        <5>1. CASE b = a
          <6>1. k = j /\ owes'[b] = {j} /\ gen'[j] = "FAILED"
            BY <3>1, <4>1, <4>4, <5>1
          <6>2. Charged(j) /\ refunds[j] = 0
            BY <3>1, <4>1
          <6>3. QED BY <3>1, <6>1, <6>2
        <5>2. CASE b # a
          <6>1. k \in owes[b] /\ k # j /\ owes'[b] = owes[b] /\ k \in Jobs
            BY <4>1, <4>2, <4>4, <5>2
          <6>2. gen'[k] = gen[k] /\ (b = k => pc'[k] = pc[k])
            BY <4>1, <5>2, <6>1
          <6>3. QED BY <3>1, <6>1, <6>2
        <5>3. QED BY <5>1, <5>2
      <4>5. OweAlone'
        BY <4>1, <4>2
      <4>6. QED BY <4>3, <4>4, <4>5
    <3>3. CASE ~Won(j)
      BY <3>1, <3>3 DEF FinishPending
    <3>4. QED BY <3>2, <3>3
  <2>3. QED BY <2>1, <2>2
<1>4. ASSUME NEW a \in Actors, ReturnStale(a) PROVE VideoInv'
  <2>1. ASSUME NEW k \in Jobs PROVE JobInv(k)'
    BY <1>4 DEF ReturnStale, RefundOf
  <2>2. OweInv'
    BY <1>4 DEF ReturnStale, RefundOf
  <2>3. QED BY <2>1, <2>2
<1>5. ASSUME NEW a \in Actors, SweepDone(a) PROVE VideoInv'
  <2>1. ASSUME NEW k \in Jobs PROVE JobInv(k)'
    BY <1>5 DEF SweepDone
  <2>2. OweInv'
    BY <1>5 DEF SweepDone
  <2>3. QED BY <2>1, <2>2
<1>6. ASSUME NEW a \in Actors, SweepThrows(a) PROVE VideoInv'
  <2>1. ASSUME NEW k \in Jobs PROVE JobInv(k)'
    BY <1>6 DEF SweepThrows, FinishPending, Won
  <2>2. OweInv'
    BY <1>6 DEF SweepThrows, FinishPending, Won
  <2>3. QED BY <2>1, <2>2
<1>7. ASSUME NEW a \in Actors, RefundFails(a) PROVE VideoInv'
  <2>1. ASSUME NEW k \in Jobs PROVE JobInv(k)'
    BY <1>7 DEF RefundFails, Leave
  <2>2. OweInv'
    BY <1>7 DEF RefundFails, Leave
  <2>3. QED BY <2>1, <2>2
<1>8. ASSUME NEW j \in Jobs, Admit(j) PROVE VideoInv'
  <2>1. ASSUME NEW k \in Jobs PROVE JobInv(k)'
    BY <1>8 DEF Admit
  <2>2. OweInv'
    BY <1>8 DEF Admit
  <2>3. QED BY <2>1, <2>2
<1>9. ASSUME NEW j \in Jobs, Refuse(j) PROVE VideoInv'
  <2>1. ASSUME NEW k \in Jobs PROVE JobInv(k)'
    BY <1>9 DEF Refuse
  <2>2. OweInv'
    BY <1>9 DEF Refuse
  <2>3. QED BY <2>1, <2>2
<1>10. ASSUME NEW j \in Jobs, Spend(j) PROVE VideoInv'
  <2>1. ASSUME NEW k \in Jobs PROVE JobInv(k)'
    BY <1>10 DEF Spend, Debit
  <2>2. OweInv'
    BY <1>10 DEF Spend, Debit
  <2>3. QED BY <2>1, <2>2
<1>11. ASSUME NEW j \in Jobs, Create(j) PROVE VideoInv'
  <2>1. ASSUME NEW k \in Jobs PROVE JobInv(k)'
    BY <1>11 DEF Create
  <2>2. OweInv'
    BY <1>11 DEF Create
  <2>3. QED BY <2>1, <2>2
<1>12. ASSUME NEW j \in Jobs, Generate(j) PROVE VideoInv'
  <2>1. ASSUME NEW k \in Jobs PROVE JobInv(k)'
    BY <1>12 DEF Generate
  <2>2. OweInv'
    BY <1>12 DEF Generate
  <2>3. QED BY <2>1, <2>2
<1>13. ASSUME NEW j \in Jobs, Save(j) PROVE VideoInv'
  <2>1. ASSUME NEW k \in Jobs PROVE JobInv(k)'
    BY <1>13 DEF Save
  <2>2. OweInv'
    BY <1>13 DEF Save
  <2>3. QED BY <2>1, <2>2
<1>14. ASSUME NEW j \in Jobs, Finish(j) PROVE VideoInv'
  <2>1. ASSUME NEW k \in Jobs PROVE JobInv(k)'
    BY <1>14 DEF Finish, FinishPending, Won, Leave
  <2>2. OweInv'
    BY <1>14 DEF Finish, FinishPending, Won, Leave
  <2>3. QED BY <2>1, <2>2
<1>15. ASSUME NEW j \in Jobs, Fail(j) PROVE VideoInv'
  <2>1. ASSUME NEW k \in Jobs PROVE JobInv(k)'
    BY <1>15 DEF Fail, FinishPending, Won, Leave
  <2>2. OweInv'
    <3>1. pc[j] = "fail" /\ UNCHANGED <<spends, refunds>>
      BY <1>15 DEF Fail
    <3>2. CASE Won(j)
      <4>1. /\ gen' = [gen EXCEPT ![j] = "FAILED"]
            /\ owes' = [owes EXCEPT ![j] = {j}] /\ pc' = [pc EXCEPT ![j] = "refund"]
            /\ gen[j] = "PENDING"
        BY <1>15, <3>2 DEF Fail, FinishPending, Won
      <4>2. \A b \in Actors : j \notin owes[b]
        BY <4>1
      <4>3. OwePlaces'
        BY <4>1
      <4>4. OweClosed'
        BY <3>1, <4>1, <4>2
      <4>5. OweAlone'
        BY <4>1, <4>2
      <4>6. QED BY <4>3, <4>4, <4>5
    <3>3. CASE ~Won(j)
      BY <1>15, <3>1, <3>3 DEF Fail, FinishPending
    <3>4. QED BY <3>2, <3>3
  <2>3. QED BY <2>1, <2>2
<1>16. ASSUME NEW j \in Jobs, Refund(j) PROVE VideoInv'
  <2>1. ASSUME NEW k \in Jobs PROVE JobInv(k)'
    BY <1>16 DEF Refund, RefundOf, Leave
  <2>2. OweInv'
    BY <1>16 DEF Refund, RefundOf, Leave
  <2>3. QED BY <2>1, <2>2
<1>17. ASSUME NEW j \in Jobs, CreateFails(j) PROVE VideoInv'
  <2>1. ASSUME NEW k \in Jobs PROVE JobInv(k)'
    BY <1>17 DEF CreateFails
  <2>2. OweInv'
    BY <1>17 DEF CreateFails
  <2>3. QED BY <2>1, <2>2
<1>18. ASSUME NEW j \in Jobs, FinishThrows(j) PROVE VideoInv'
  <2>1. ASSUME NEW k \in Jobs PROVE JobInv(k)'
    BY <1>18 DEF FinishThrows, FinishPending, Won
  <2>2. OweInv'
    BY <1>18 DEF FinishThrows, FinishPending, Won
  <2>3. QED BY <2>1, <2>2
<1>19. ASSUME NEW j \in Jobs, FailThrows(j) PROVE VideoInv'
  <2>1. ASSUME NEW k \in Jobs PROVE JobInv(k)'
    BY <1>19 DEF FailThrows, FinishPending, Won, Leave
  <2>2. OweInv'
    BY <1>19 DEF FailThrows, FinishPending, Won, Leave
  <2>3. QED BY <2>1, <2>2
<1>20. ASSUME NEW j \in Jobs, Age(j) PROVE VideoInv'
  <2>1. ASSUME NEW k \in Jobs PROVE JobInv(k)'
    BY <1>20 DEF Age
  <2>2. OweInv'
    BY <1>20 DEF Age
  <2>3. QED BY <2>1, <2>2
<1>21. ASSUME NEW p \in Procs, Crash(p) PROVE VideoInv'
  <2>1. ASSUME NEW k \in Jobs PROVE JobInv(k)'
    BY <1>21 DEF Crash
  <2>2. OweInv'
    <3>1. \A a \in Actors : owes'[a] # {} => /\ owes'[a] = owes[a] /\ pc'[a] = pc[a]
      BY <1>21 DEF Crash
    <3>2. UNCHANGED <<gen, spends, refunds>>
      BY <1>21 DEF Crash
    <3>3. OwePlaces'
      BY <3>1
    <3>4. ASSUME NEW b \in Actors, NEW c \in Actors, owes'[b] \cap owes'[c] # {} PROVE b = c
      BY <3>1, <3>4
    <3>5. ASSUME NEW b \in Actors, NEW k \in owes'[b]
          PROVE  /\ owes'[b] = {k} /\ spends'[k] = (IF Unlimited THEN 0 ELSE 1) /\ refunds'[k] = 0
                 /\ gen'[k] = "FAILED" \/ (gen'[k] = "absent" /\ b = k /\ pc'[k] = "undo")
      <4>1. owes'[b] = owes[b] /\ pc'[b] = pc[b] /\ k \in owes[b]
        BY <3>1, <3>5
      <4>2. QED BY <3>2, <4>1
    <3>6. QED BY <3>3, <3>4, <3>5
  <2>3. QED BY <2>1, <2>2
<1>22. ASSUME NEW m \in GrantSizes, Grant(m) PROVE VideoInv'
  BY <1>22 DEF Grant
<1>23. CASE UNCHANGED vars
  BY <1>23 DEF vars
<1>24. QED
  <2> HIDE JobsAssumption, FlagAssumption, CostAssumption
       DEF VideoInv, TypeOK, JobInv, Charged, OweInv, OwePlaces, OweClosed, OweAlone, Early, BeforeWork, Actors, Statuses, Places, Goto, ledger, rows, memory, history
  <2>1. QED
    BY <1>1, <1>2, <1>3, <1>4, <1>5, <1>6, <1>7, <1>8, <1>9, <1>10, <1>11, <1>12,
       <1>13, <1>14, <1>15, <1>16, <1>17, <1>18, <1>19, <1>20, <1>21, <1>22, <1>23
       DEF Next, Sweep, Start, Run, Fault

\* The inductive invariant holds in every reachable state.
THEOREM VideoInvHolds == Spec => []VideoInv
<1>1. Init => VideoInv
  BY JobsAssumption DEF Init, VideoInv, TypeOK, JobInv, Charged, OweInv, OwePlaces, OweClosed,
     OweAlone, Early, BeforeWork, Actors, Statuses, Places
<1>2. VideoInv /\ TypeOK' /\ [Next]_vars => VideoInv'
  BY VideoInvStep
<1>3. QED
  BY <1>1, <1>2, TypeCorrect, PTL DEF Spec

\* No job is refunded twice, or refunded without a charge.
THEOREM NoDoubleReturnHolds == Spec => []NoDoubleReturn
<1>1. VideoInv => NoDoubleReturn
  BY DEF VideoInv, JobInv, NoDoubleReturn
<1>2. QED
  BY <1>1, VideoInvHolds, PTL

\* A finished video is stored, paid for and not refunded.
THEOREM DeliveredHolds == Spec => []Delivered
<1>1. VideoInv => Delivered
  BY FlagAssumption DEF VideoInv, TypeOK, JobInv, Charged, Delivered
<1>2. QED
  BY <1>1, VideoInvHolds, PTL

\* A failed job's credits are back, or somebody still owes them, or a crash or a
\* failed call came in between.
THEOREM FailedIsReturnedHolds == Spec => []FailedIsReturned
<1>1. Init => FailedIsReturned
  BY DEF Init, FailedIsReturned
<1>2. VideoInv /\ FailedIsReturned /\ TypeOK' /\ [Next]_vars => FailedIsReturned'
  <2> SUFFICES ASSUME VideoInv, FailedIsReturned, TypeOK', [Next]_vars,
                      NEW k \in Jobs, gen'[k] = "FAILED"
               PROVE  Unlimited \/ refunds'[k] = 1 \/ (\E b \in Actors : k \in owes'[b]) \/ k \in interrupted'
    BY DEF FailedIsReturned, Owed
  <2> DEFINE Goal == Unlimited \/ refunds'[k] = 1 \/ (\E b \in Actors : k \in owes'[b]) \/ k \in interrupted'
  <2> USE FlagAssumption
      DEF VideoInv, TypeOK, JobInv, Charged, OweInv, OwePlaces, OweClosed, FailedIsReturned, Owed,
          Actors, ledger, rows, memory, history, Goto, FinishPending, Won
  <2>1. ASSUME NEW a \in Actors, Sweep(a) PROVE Goal
    <3>1. CASE Arrive(a) \/ ReadStale(a) \/ SweepDone(a)
      BY <3>1 DEF Arrive, ReadStale, SweepDone
    <3>2. CASE CloseStale(a)
      <4> PICK j \in todo[a] :
            /\ FinishPending(j, "FAILED")
            /\ IF Won(j) THEN owes' = [owes EXCEPT ![a] = {j}] /\ Goto(a, "returning")
                         ELSE UNCHANGED <<owes, pc>>
        BY <3>2 DEF CloseStale
      <4>1. owes[a] = {} /\ UNCHANGED <<refunds, interrupted>> /\ j \in Jobs
        BY <3>2 DEF CloseStale
      <4>2. CASE Won(j) /\ k = j
        BY <4>1, <4>2
      <4>3. CASE Won(j) /\ k # j
        <5>1. gen[k] = "FAILED"
          BY <4>1, <4>3
        <5>0. owes \in [Actors -> SUBSET Jobs] /\ owes' = [owes EXCEPT ![a] = {j}]
          BY <4>3
        <5>2. ASSUME NEW b \in Actors, k \in owes[b] PROVE k \in owes'[b]
          <6> HIDE DEF VideoInv, TypeOK, JobInv, OweInv, FailedIsReturned
          <6>1. b # a /\ b \in DOMAIN owes
            BY <4>1, <5>0, <5>2
          <6>2. QED BY <5>0, <5>2, <6>1
        <5>3. Unlimited \/ refunds[k] = 1 \/ (\E b \in Actors : k \in owes[b]) \/ k \in interrupted
          BY <5>1
        <5>4. QED BY <4>1, <5>2, <5>3
      <4>4. CASE ~Won(j)
        BY <4>1, <4>4
      <4>5. QED BY <4>2, <4>3, <4>4
    <3>3. CASE ReturnStale(a)
      BY <3>3 DEF ReturnStale, RefundOf
    <3>4. QED BY <2>1, <3>1, <3>2, <3>3 DEF Sweep
  <2>2. ASSUME NEW a \in Actors, SweepThrows(a) PROVE Goal
    BY <2>2 DEF SweepThrows
  <2>3. ASSUME NEW a \in Actors, RefundFails(a) PROVE Goal
    BY <2>3 DEF RefundFails
  <2>4. ASSUME NEW j \in Jobs, Start(j) \/ Fault(j) \/ Age(j) PROVE Goal
    <3>1. CASE CreateFails(j)
      BY <3>1 DEF CreateFails
    <3>2. CASE Start(j) \/ FinishThrows(j) \/ FailThrows(j) \/ Age(j)
      BY <3>2 DEF Start, Admit, Refuse, Spend, Debit, Create, FinishThrows, FailThrows, Age
    <3>3. QED BY <2>4, <3>1, <3>2 DEF Fault
  <2>5. ASSUME NEW j \in Jobs, Run(j) PROVE Goal
    <3>1. CASE Generate(j) \/ Save(j) \/ Finish(j)
      BY <3>1 DEF Generate, Save, Finish
    <3>2. CASE Fail(j)
      BY <3>2 DEF Fail
    <3>3. CASE Refund(j)
      BY <3>3 DEF Refund, RefundOf
    <3>4. QED BY <2>5, <3>1, <3>2, <3>3 DEF Run
  <2>6. ASSUME NEW p \in Procs, Crash(p) PROVE Goal
    BY <2>6 DEF Crash
  <2>7. ASSUME NEW n \in GrantSizes, Grant(n) PROVE Goal
    BY <2>7 DEF Grant
  <2>8. CASE UNCHANGED vars
    BY <2>8 DEF vars
  <2>9. QED
    BY <2>1, <2>2, <2>3, <2>4, <2>5, <2>6, <2>7, <2>8 DEF Next
<1>3. QED
  BY <1>1, <1>2, TypeCorrect, VideoInvHolds, PTL DEF Spec

\* A closed job is never closed again.
THEOREM ClosedOnceHolds == Spec => ClosedOnce
<1>1. VideoInv /\ [Next]_vars => [\A j \in Jobs : gen[j] \in {"DONE", "FAILED"} => gen'[j] = gen[j]]_gen
  <2> SUFFICES ASSUME VideoInv, Next, NEW k \in Jobs, gen[k] \in {"DONE", "FAILED"}
               PROVE  gen'[k] = gen[k]
    BY DEF vars
  <2> USE DEF VideoInv, TypeOK, JobInv, BeforeWork, rows, memory, history, FinishPending, Won
  <2>1. ASSUME NEW a \in Actors, Sweep(a) \/ SweepThrows(a) \/ RefundFails(a) PROVE gen'[k] = gen[k]
    BY <2>1 DEF Sweep, Arrive, ReadStale, CloseStale, ReturnStale, SweepDone, SweepThrows, RefundFails
  <2>2. ASSUME NEW j \in Jobs, Start(j) \/ Run(j) PROVE gen'[k] = gen[k]
    BY <2>2 DEF Start, Admit, Refuse, Spend, Create, Run, Generate, Save, Finish, Fail, Refund
  <2>3. ASSUME NEW j \in Jobs, Fault(j) \/ Age(j) PROVE gen'[k] = gen[k]
    BY <2>3 DEF Fault, CreateFails, FinishThrows, FailThrows, Age
  <2>4. ASSUME NEW p \in Procs, Crash(p) PROVE gen'[k] = gen[k]
    BY <2>4 DEF Crash
  <2>5. ASSUME NEW n \in GrantSizes, Grant(n) PROVE gen'[k] = gen[k]
    BY <2>5 DEF Grant
  <2>6. QED BY <2>1, <2>2, <2>3, <2>4, <2>5 DEF Next
<1>2. QED
  BY <1>1, VideoInvHolds, PTL DEF Spec, ClosedOnce

-----------------------------------------------------------------------------
\* What a step may do to the charges: nothing, or one move of one charge with
\* the balance moving along.
Same == \A k \in Jobs : ChargeOf(k)' = ChargeOf(k)
Moved(j, from, to) ==
  /\ ChargeOf(j) = from /\ ChargeOf(j)' = to
  /\ \A k \in Jobs \ {j} : ChargeOf(k)' = ChargeOf(k)
ChargeStep ==
  \/ Same /\ UNCHANGED <<balance, granted>>
  \/ Same /\ balance' >= 0 /\ granted' = granted + (balance' - balance)
  \/ \E j \in Jobs :
       /\ granted' = granted
       /\ \/ Moved(j, "none", "held") /\ balance >= Cost /\ balance' = balance - Cost
          \/ Moved(j, "held", "kept") /\ balance' = balance
          \/ Moved(j, "held", "returned") /\ balance' = balance + Cost

LEMMA EveryChargeStep ==
  ASSUME VideoInv, TypeOK', [Next]_vars
  PROVE  ChargeStep
<1> USE JobsAssumption, FlagAssumption, CostAssumption
    DEF VideoInv, TypeOK, JobInv, Charged, Actors, ledger, rows, memory, history, ChargeOf, Same, Moved,
        Early, BeforeWork
<1>1. ASSUME NEW j \in Jobs, RefundOf(j), UNCHANGED gen, refunds[j] = 0, Charged(j),
             gen[j] # "DONE"
      PROVE  ChargeStep
  <2>1. CASE Unlimited
    BY <1>1, <2>1 DEF RefundOf, ChargeStep
  <2>2. CASE ~Unlimited
    <3>1. ChargeOf(j) = "held" /\ ChargeOf(j)' = "returned"
      BY <1>1, <2>2 DEF RefundOf
    <3>2. Moved(j, "held", "returned") /\ balance' = balance + Cost /\ granted' = granted
      BY <1>1, <2>2, <3>1 DEF RefundOf
    <3>3. QED BY <3>2 DEF ChargeStep
  <2>3. QED BY <2>1, <2>2
<1>2. ASSUME NEW a \in Actors, Sweep(a) \/ SweepThrows(a) \/ RefundFails(a) PROVE ChargeStep
  <2>1. CASE Arrive(a) \/ ReadStale(a) \/ CloseStale(a) \/ SweepDone(a) \/ SweepThrows(a) \/ RefundFails(a)
    <3>1. Same /\ UNCHANGED <<balance, granted>>
      BY <2>1 DEF Arrive, ReadStale, CloseStale, SweepDone, SweepThrows, RefundFails, FinishPending, Won
    <3>2. QED BY <3>1 DEF ChargeStep
  <2>2. CASE ReturnStale(a)
    <3> PICK j \in owes[a] : RefundOf(j)
      BY <2>2 DEF ReturnStale
    <3>1. j \in Jobs /\ refunds[j] = 0 /\ Charged(j) /\ gen[j] # "DONE"
      BY DEF OweInv, OweClosed
    <3>2. QED BY <1>1, <2>2, <3>1 DEF ReturnStale
  <2>3. QED BY <1>2, <2>1, <2>2 DEF Sweep
<1>3. ASSUME NEW j \in Jobs, Start(j) PROVE ChargeStep
  <2>1. CASE Spend(j) /\ ~Unlimited
    <3>1. ChargeOf(j) = "none" /\ ChargeOf(j)' = "held"
      BY <2>1 DEF Spend, Debit
    <3>2. Moved(j, "none", "held") /\ balance >= Cost /\ balance' = balance - Cost /\ granted' = granted
      BY <2>1, <3>1 DEF Spend, Debit
    <3>3. QED BY <3>2 DEF ChargeStep
  <2>2. CASE (Spend(j) /\ Unlimited) \/ Admit(j) \/ Refuse(j) \/ Create(j)
    <3>1. Same /\ UNCHANGED <<balance, granted>>
      BY <2>2 DEF Spend, Debit, Admit, Refuse, Create
    <3>2. QED BY <3>1 DEF ChargeStep
  <2>3. QED BY <1>3, <2>1, <2>2 DEF Start
<1>4. ASSUME NEW j \in Jobs, Run(j) PROVE ChargeStep
  <2>1. CASE Refund(j)
    <3>1. refunds[j] = 0 /\ Charged(j) /\ gen[j] # "DONE"
      BY <2>1 DEF Refund, OweInv, OweClosed
    <3>2. QED BY <1>1, <2>1, <3>1 DEF Refund
  <2>2. CASE Finish(j) /\ Won(j) /\ ~Unlimited
    <3>1. ChargeOf(j) = "held" /\ ChargeOf(j)' = "kept"
      BY <2>2 DEF Finish, FinishPending, Won
    <3>2. Moved(j, "held", "kept") /\ UNCHANGED <<balance, granted>>
      BY <2>2, <3>1 DEF Finish, FinishPending, Won
    <3>3. QED BY <3>2 DEF ChargeStep
  <2>3. CASE Generate(j) \/ Save(j) \/ (Finish(j) /\ (~Won(j) \/ Unlimited)) \/ Fail(j)
    <3>1. Same /\ UNCHANGED <<balance, granted>>
      BY <2>3 DEF Generate, Save, Finish, Fail, FinishPending, Won
    <3>2. QED BY <3>1 DEF ChargeStep
  <2>4. QED BY <1>4, <2>1, <2>2, <2>3 DEF Run
<1>5. ASSUME NEW j \in Jobs, Fault(j) \/ Age(j) PROVE ChargeStep
  <2>1. Same /\ UNCHANGED <<balance, granted>>
    BY <1>5 DEF Fault, CreateFails, FinishThrows, FailThrows, Age
  <2>2. QED BY <2>1 DEF ChargeStep
<1>6. ASSUME NEW p \in Procs, Crash(p) PROVE ChargeStep
  BY <1>6 DEF Crash, ChargeStep
<1>7. ASSUME NEW n \in GrantSizes, Grant(n) PROVE ChargeStep
  BY <1>7, GrantAssumption DEF Grant, ChargeStep
<1>8. CASE UNCHANGED vars
  BY <1>8 DEF vars, ChargeStep
<1>9. QED
  BY <1>2, <1>3, <1>4, <1>5, <1>6, <1>7, <1>8 DEF Next

\* Credits are conserved: the balance is what was granted less the unreturned
\* charges, whatever races, fails or crashes.
THEOREM CreditsAccountedHolds == Spec => []CreditsAccounted
<1>1. Init => CreditsAccounted
  <2>1. ASSUME Init PROVE Unreturned = {}
    BY <2>1 DEF Init, Unreturned
  <2>2. Cost * 0 = 0
    BY CostAssumption
  <2>3. ASSUME Init PROVE Cardinality(Unreturned) = 0
    BY <2>1, <2>3, FS_EmptySet
  <2>4. QED BY <2>2, <2>3 DEF Init, CreditsAccounted
<1>2. VideoInv /\ TypeOK' /\ VideoInv' /\ CreditsAccounted /\ [Next]_vars => CreditsAccounted'
  <2> SUFFICES ASSUME VideoInv, TypeOK', VideoInv', CreditsAccounted, [Next]_vars
               PROVE  CreditsAccounted'
    OBVIOUS
  <2> DEFINE Taken == {j \in Jobs : ChargeOf(j) \in {"held", "kept"}}
  <2> USE CostAssumption
  <2>1. ChargeStep
    BY EveryChargeStep
  <2>2. Unreturned = Taken /\ Unreturned' = Taken'
    BY DEF VideoInv, TypeOK, JobInv, Unreturned, ChargeOf
  <2>3. IsFiniteSet(Taken) /\ Cardinality(Taken) \in Nat /\ balance \in Int /\ granted \in Int
        /\ balance' \in Int /\ granted' \in Int
    BY JobsAssumption, FS_Subset, FS_CardinalityType DEF VideoInv, TypeOK
  <2>4. balance >= 0 /\ balance + Cost * Cardinality(Taken) = granted
    BY <2>2 DEF CreditsAccounted
  <2>5. balance' >= 0 /\ balance' + Cost * Cardinality(Taken') = granted' => CreditsAccounted'
    BY <2>2 DEF CreditsAccounted
  <2> HIDE DEF Taken
  <2>6. CASE Same /\ (UNCHANGED <<balance, granted>> \/ (balance' >= 0 /\ granted' = granted + (balance' - balance)))
    <3>1. Taken' = Taken
      BY <2>6 DEF Same, Taken
    <3>2. Cost * Cardinality(Taken) \in Int
      BY <2>3
    <3>3. CASE UNCHANGED <<balance, granted>>
      BY <2>4, <2>5, <3>1, <3>3
    <3>4. CASE balance' >= 0 /\ granted' = granted + (balance' - balance)
      BY <2>3, <2>4, <2>5, <3>1, <3>2, <3>4
    <3>5. QED BY <2>6, <3>3, <3>4
  <2>7. ASSUME NEW j \in Jobs, Moved(j, "none", "held"), balance >= Cost, balance' = balance - Cost,
               granted' = granted
        PROVE  CreditsAccounted'
    <3>1. Taken' = Taken \cup {j} /\ j \notin Taken
      BY <2>7 DEF Moved, Taken
    <3>2. Cardinality(Taken') = Cardinality(Taken) + 1
      BY <2>3, <3>1, FS_AddElement
    <3>3. QED BY <2>3, <2>4, <2>5, <2>7, <3>2
  <2>8. ASSUME NEW j \in Jobs, Moved(j, "held", "kept"), balance' = balance, granted' = granted
        PROVE  CreditsAccounted'
    <3>1. Taken' = Taken
      BY <2>8 DEF Moved, Taken
    <3>2. QED BY <2>3, <2>4, <2>5, <2>8, <3>1
  <2>9. ASSUME NEW j \in Jobs, Moved(j, "held", "returned"), balance' = balance + Cost, granted' = granted
        PROVE  CreditsAccounted'
    <3>1. Taken' = Taken \ {j} /\ j \in Taken
      BY <2>9 DEF Moved, Taken
    <3>2. Cardinality(Taken') = Cardinality(Taken) - 1
      BY <2>3, <3>1, FS_RemoveElement
    <3>3. Cost * (Cardinality(Taken) - 1) = Cost * Cardinality(Taken) - Cost
          /\ Cost * Cardinality(Taken) \in Int
      BY <2>3
    <3>4. balance' >= 0
      BY <2>3, <2>4, <2>9
    <3>5. QED BY <2>3, <2>4, <2>5, <2>9, <3>2, <3>3, <3>4
  <2>10. QED
    BY <2>1, <2>6, <2>7, <2>8, <2>9 DEF ChargeStep
<1>3. QED
  BY <1>1, <1>2, TypeCorrect, VideoInvHolds, PTL DEF Spec

\* The studio implements the promise CreditHold makes about every charge.
THEOREM HoldsCreditsHolds == Spec => HoldsCredits
<1> USE DEF Hold!Init, Hold!Next, Hold!vars, Hold!Adjust, Hold!Hold, Hold!Keep, Hold!Return, Hold!Move
<1>1. Init => Hold!Init
  BY DEF Init, ChargeOf
<1>2. VideoInv /\ TypeOK' /\ [Next]_vars => [Hold!Next]_Hold!vars
  <2> SUFFICES ASSUME VideoInv, TypeOK', [Next]_vars PROVE [Hold!Next]_Hold!vars
    OBVIOUS
  <2> DEFINE charge == [j \in Jobs |-> ChargeOf(j)]
  <2>1. ChargeStep
    BY EveryChargeStep
  <2>2. Same => charge' = charge
    BY DEF Same
  <2>3. ASSUME NEW j \in Jobs, NEW from, NEW to, Moved(j, from, to)
        PROVE  charge[j] = from /\ charge' = [charge EXCEPT ![j] = to]
    BY <2>3 DEF Moved
  <2>4. CASE Same
    BY <2>1, <2>2, <2>4 DEF ChargeStep, TypeOK, Moved, Same
  <2>5. CASE ~Same
    <3> PICK j \in Jobs :
          /\ granted' = granted
          /\ \/ Moved(j, "none", "held") /\ balance >= Cost /\ balance' = balance - Cost
             \/ Moved(j, "held", "kept") /\ balance' = balance
             \/ Moved(j, "held", "returned") /\ balance' = balance + Cost
      BY <2>1, <2>5 DEF ChargeStep
    <3>1. QED BY <2>3
  <2>6. QED BY <2>4, <2>5
<1>3. QED
  BY <1>1, <1>2, TypeCorrect, VideoInvHolds, PTL DEF Spec, HoldsCredits, Hold!Spec

=============================================================================
