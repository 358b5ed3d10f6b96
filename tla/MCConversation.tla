---------------------------- MODULE MCConversation ----------------------------
(* A company with a second number, a menu flow that asks for a name or hands *)
(* over, and a customer's messages.                                        *)
EXTENDS Conversation, TLC

CONSTANTS hello, press, stop, menu, name, bye, team
Step1(t, o, n) == [type |-> t, options |-> o, next |-> n]
MCFlows == [f \in {"f1"} |->
  [start |-> menu,
   nodes |-> [n \in {menu, name, bye, team} |->
                CASE n = menu -> Step1("message", <<name, team>>, Nowhere)
                  [] n = name -> Step1("question", <<>>, bye)
                  [] n = bye  -> Step1("message", <<>>, Nowhere)
                  [] n = team -> Step1("handoff", <<>>, Nowhere)]]]
ASSUME FlowsAreSound == \A f \in DOMAIN MCFlows : ~FlowProblem(MCFlows[f])
MCOrder == <<"f1">>
Text(via, rule, keys) == [via |-> via, opt |-> "none", typed |-> TRUE, rule |-> rule, keys |-> keys,
                          press |-> <<Nowhere, 0>>, names |-> 0, says |-> TRUE]
MCWhat == [m \in Messages |->
  CASE m = hello -> Text(Main, TRUE, {"f1"})
    [] m = press -> [Text("n2", FALSE, {}) EXCEPT !.press = <<menu, 2>>]
    [] m = stop  -> [Text(Main, FALSE, {}) EXCEPT !.opt = "out"]]
HandlerSymmetry == Permutations(Handlers)
=============================================================================
