----------------------------- MODULE FlowEngine -----------------------------
(***************************************************************************)
(* What the WhatsApp flow engine decides for one message of a customer:    *)
(* a pure function of the flows, the customer's session and the message.   *)
(*                                                                         *)
(* A flow is [start, nodes], a node [type, options, next] where options    *)
(* is the sequence of the steps its buttons lead to.  A message tells      *)
(* which flows' keywords it contains (keys), which option of which step    *)
(* it presses (press = <<step, option>>), which option it names by its     *)
(* number or label (names), and whether it is an answer (says).            *)
(***************************************************************************)
EXTENDS Integers, Sequences, SequencesExt

CONSTANTS Nowhere    \* no step: the flow ends here

MaxSend == 5

\* No session, and a session: the flow and the step that waits for the customer.
NoSession == [flow |-> Nowhere, node |-> Nowhere]

FlowProblem(f) ==
  \/ f.start \notin DOMAIN f.nodes
  \/ \E n \in DOMAIN f.nodes :
       LET node == f.nodes[n] IN
         \/ node.type = "question" /\ node.options # <<>>
         \/ node.type = "handoff" /\ (node.options # <<>> \/ node.next # Nowhere)
         \/ ((ToSet(node.options) \cup {node.next}) \ {Nowhere}) \ DOMAIN f.nodes # {}

\* 0 when the message picks no option of the step.
PickOption(f, n, m) ==
  LET options == f.nodes[n].options IN
    IF m.press[1] = n /\ m.press[2] \in DOMAIN options THEN m.press[2]
    ELSE IF m.names \in DOMAIN options THEN m.names ELSE 0

\* One turn of the loop: a step is sent, which waits for the customer, hands
\* over or leads on by itself; none is sent twice, and no more than MaxSend.
Turn(f, walk) ==
  LET n    == walk.next
      more == [walk EXCEPT !.send = Append(@, n)] IN
    IF n = Nowhere \/ n \in ToSet(walk.send) THEN walk
    ELSE IF f.nodes[n].type = "handoff" THEN [more EXCEPT !.next = Nowhere, !.handoff = TRUE]
    ELSE IF f.nodes[n].type = "question" \/ f.nodes[n].options # <<>> THEN [more EXCEPT !.next = Nowhere, !.at = n]
    ELSE [more EXCEPT !.next = f.nodes[n].next]
Walk(f, n) ==
  LET walk[k \in 0..MaxSend] ==
        IF k = 0 THEN [send |-> <<>>, next |-> n, at |-> Nowhere, handoff |-> FALSE] ELSE Turn(f, walk[k - 1])
  IN walk[MaxSend]

Step(id, walk, started) ==
  [kind |-> "step", flow |-> id, send |-> walk.send, at |-> walk.at, handoff |-> walk.handoff,
   started |-> started, completed |-> walk.at = Nowhere]
Again(id, n) == Step(id, [send |-> <<n>>, at |-> n, handoff |-> FALSE], FALSE)
NoStep == [kind |-> "none", flow |-> Nowhere, send |-> <<>>, at |-> Nowhere, handoff |-> FALSE,
           started |-> FALSE, completed |-> FALSE]

\* flows[id] for the ids of order, the enabled ones by sortOrder.
StartedBy(order, m) ==
  LET hits == SelectSeq(order, LAMBDA id : id \in m.keys) IN
    IF hits = <<>> THEN Nowhere ELSE Head(hits)

DecideFlow(flows, order, session, m) ==
  LET id      == IF session.flow \in ToSet(order) THEN session.flow ELSE Nowhere
      here    == IF id # Nowhere /\ session.node \in DOMAIN flows[id].nodes THEN session.node ELSE Nowhere
      trigger == StartedBy(order, m)
      asked   == here # Nowhere /\ flows[id].nodes[here].type = "question"
      picked  == IF here = Nowhere THEN 0 ELSE PickOption(flows[id], here, m) IN
    IF trigger # Nowhere /\ ~asked /\ picked = 0
    THEN Step(trigger, Walk(flows[trigger], flows[trigger].start), TRUE)
    ELSE IF here = Nowhere THEN NoStep
    ELSE IF asked
    THEN IF m.says THEN Step(id, Walk(flows[id], flows[id].nodes[here].next), FALSE) ELSE Again(id, here)
    ELSE IF picked = 0 THEN Again(id, here)
    ELSE Step(id, Walk(flows[id], flows[id].nodes[here].options[picked]), FALSE)
=============================================================================
