----------------------------- MODULE MCCampaigns -----------------------------
(* Small instances of Campaigns: a request on one server, the scheduler of   *)
(* another.  In the calm part nothing crashes and the lists vary; in the    *)
(* storm a server crashes, and there is one person who may leave.           *)
EXTENDS Campaigns

CONSTANTS s1, s2, r1, k2, p1, p2
MCOn    == [a \in Attempts |-> IF a = k2 THEN s2 ELSE s1]
MCLists == {People, {p1}}

VARIABLE part
mcvars == <<part, vars>>
storm  == part = "storm"
Storm  == INSTANCE Campaigns WITH People <- {p1}, Lists <- {{p1}}, Leavers <- {p1}, MaxCrashes <- 1

MCInit == part \in {"calm", "storm"} /\ Init
MCNext ==
  \/ ~storm /\ Next /\ UNCHANGED part
  \/ storm /\ Storm!Next /\ UNCHANGED part
\* The fairness of Campaigns, for the storm.
MCSpec ==
  /\ MCInit /\ [][MCNext]_mcvars
  /\ \A a \in Attempts : WF_mcvars(storm /\ Storm!Work(a) /\ UNCHANGED part)
  /\ \A j \in Jobs : WF_mcvars(storm /\ Storm!Start(j) /\ UNCHANGED part)
  /\ WF_mcvars(storm /\ Storm!Age /\ UNCHANGED part)
  /\ WF_mcvars(storm /\ (\E s \in Servers : Storm!Expire(s)) /\ UNCHANGED part)

\* What the storm may not prevent.
SendingEndsThen     == storm => SendingEnds
ScheduledStartsThen == storm => ScheduledStarts
=============================================================================
