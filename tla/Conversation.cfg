CONSTANTS
  hello = hello
  press = press
  stop = stop
  menu = menu
  name = name
  bye = bye
  team = team
  Nowhere = Nowhere
  NoMessage = NoMessage
  Handlers = {h1, h2}
  Messages = {hello, press, stop}
  What <- MCWhat
  Flows <- MCFlows
  FlowOrder <- MCOrder
  Main = "n1"
  Extras = {"n2"}
  OutIds = {o1}
  MaxReplies = 1
  MaxDeliveries = 2
  MaxEvents = 2
SPECIFICATION TalkSpec
INVARIANTS StatusIsOrderFree AnsweredOnce 
SYMMETRY HandlerSymmetry
CHECK_DEADLOCK FALSE
