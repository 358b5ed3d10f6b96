------------------------------ MODULE MCBooking ------------------------------
(* Small instances of Booking, slots of one resource at times 1 and 2: two   *)
(* bookings while time stands still, or one booking and the reminders of   *)
(* two servers.                                                            *)
EXTENDS Booking

CONSTANTS b1, b2, s1, s2, g1, m1, v1, v2
MCAt == [s \in Slots |-> IF s = s1 THEN 1 ELSE 2]

VARIABLE part
mcvars == <<part, vars>>
timed  == part = "timed"
Desk   == INSTANCE Booking WITH Servers <- {}, MaxTime <- 0
Jobs   == INSTANCE Booking WITH Bookings <- {b1}

MCInit == part \in {"desk", "timed"} /\ Init
MCNext ==
  \/ ~timed /\ Desk!Next /\ UNCHANGED part
  \/ timed /\ Jobs!Next /\ UNCHANGED part
\* The fairness of Booking, where time passes.
MCSpec ==
  /\ MCInit /\ [][MCNext]_mcvars
  /\ WF_mcvars(timed /\ Jobs!Tick /\ UNCHANGED part)
  /\ \A v \in Servers : WF_mcvars(timed /\ Jobs!Remind(v) /\ UNCHANGED part)

\* The booking of the timed part is reminded of.
ThisOneReminded == timed => Jobs!EveryBookingReminded
=============================================================================
