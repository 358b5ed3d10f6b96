----------------------------- MODULE Conversation -----------------------------
(***************************************************************************)
(* One customer's WhatsApp conversation with a company.  Meta delivers his *)
(* messages to the webhook, more than once and several at a time; each     *)
(* handler keeps the message, updates the contact book and then asks the   *)
(* flows, the AI agent and the keyword bot, in this order, for an answer.  *)
(* The team reads along, answers itself and takes the conversation over.   *)
(* Meta reports what became of a sent message, in any order.               *)
(*                                                                         *)
(* A step is what happens between two calls of the database or of Meta     *)
(* that others may interleave with.  Every delivery is a handler of its    *)
(* own; a body with several messages is several deliveries of one handler. *)
(***************************************************************************)
EXTENDS Integers, FiniteSets, Sequences, FlowEngine

CONSTANTS Handlers,       \* webhook requests being processed
          Messages,       \* the customer's messages
          What,           \* What[m]: its number, kind, words and pressed button
          Flows,          \* Flows[f]: the steps of flow f
          FlowOrder,      \* their ids by sortOrder
          Main, Extras,   \* the company's WhatsApp numbers
          OutIds,         \* ids Meta gives to sent messages
          NoMessage,
          MaxReplies,     \* maxRepliesPerHour
          MaxDeliveries,
          MaxEvents       \* changes by the team, the clock and faults

ASSUME NothingAssumption == NoMessage \notin Messages /\ Nowhere \notin OutIds

VARIABLES
  shop,       \* the company: its settings, numbers, bot, agent and flows
  conv,       \* whatsapp_conversations: status and aiPausedUntil
  contact,    \* whatsapp_contacts: none, in or out (optedOut)
  session,    \* whatsapp_flow_sessions, unless a day old
  kept, last, \* the recorded messages; the latest of them
  rows,       \* rows[o]: the status of sent message o; none: not recorded
  aiRecent, fallbackRecent,   \* ai rows of the last hour; a fallback in 12 hours
  job,        \* job[h]: what handler h is doing
  news,       \* Meta's news on o since it was recorded
  voices, overlapped, broken, \* layers that answered m; m was taken twice at once, or an error met it
  budget      \* deliveries and events so far

talk == <<shop, conv, contact, session, kept, last, rows, aiRecent, fallbackRecent, job,
          news, voices, overlapped, broken, budget>>

SentStatuses == {"none", "sent", "delivered", "read", "failed"}
Idle == [at |-> "idle", m |-> NoMessage, kind |-> "none", step |-> NoStep, todo |-> <<>>,
         out |-> Nowhere, ok |-> FALSE, spoke |-> FALSE, handoff |-> FALSE,
         human |-> FALSE, blind |-> FALSE]

Settings  == [main |-> "on", extras |-> [n \in Extras |-> "on"], active |-> TRUE, bot |-> TRUE,
              fallback |-> TRUE, rules |-> TRUE, agent |-> TRUE, flows |-> DOMAIN Flows]
OpenTalk  == [status |-> "open", paused |-> FALSE]
NoContact == "none"

TalkInit ==
  /\ shop = Settings /\ conv = OpenTalk
  /\ contact = NoContact /\ session = NoSession /\ kept = {} /\ last = NoMessage
  /\ rows = [o \in OutIds |-> "none"] /\ aiRecent = 0 /\ fallbackRecent = FALSE
  /\ job = [h \in Handlers |-> Idle]
  /\ news = [o \in OutIds |-> {}]
  /\ voices = [m \in Messages |-> 0] /\ overlapped = {} /\ broken = {}
  /\ budget = [deliveries |-> 0, events |-> 0]

Spend(what, max) == budget[what] < max /\ budget' = [budget EXCEPT ![what] = @ + 1]
Become(h, j) == job' = [job EXCEPT ![h] = j]
MoveOn(h, place) == Become(h, [job[h] EXCEPT !.at = place])
traces  == <<news, voices, overlapped, broken>>
book    == <<kept, last, rows, aiRecent, fallbackRecent>>

-----------------------------------------------------------------------------
(* Which number sends, and who has the conversation.                       *)

\* The number the customer wrote to last, if it is an extra one that works.
LastExtra == IF last = NoMessage \/ What[last].via \notin Extras THEN Nowhere
             ELSE IF shop.extras[What[last].via] = "on" THEN What[last].via ELSE Nowhere
\* An extra number without a token of its own uses the main one's.
Sender == IF shop.main = "on" THEN (IF LastExtra # Nowhere THEN LastExtra ELSE Main) ELSE Nowhere
OwnsIncoming(n) == shop.main # "none" /\ n # Main => shop.extras[n] = "on"

WithHuman(c) == c.status = "handoff" \/ c.paused
\* No handler may go on believing that a person has the conversation.
SetConv(c) == conv' = c
HumanLeaves(j, c) == [h \in Handlers |-> [j[h] EXCEPT !.human = @ /\ WithHuman(c)]]

-----------------------------------------------------------------------------
(* The webhook.                                                            *)

\* Meta repeats messages: one that is recorded is left alone.
AnyIsFresh(m) == TRUE                                        \* mutant
Fresh(m) == m \notin kept
Receive(h, m) ==
  /\ job[h].at = "idle" /\ Spend("deliveries", MaxDeliveries)
  /\ OwnsIncoming(What[m].via) /\ Fresh(m)
  /\ Become(h, [Idle EXCEPT !.at = "record", !.m = m, !.human = WithHuman(conv)])
  /\ overlapped' = IF \E g \in Handlers : job[g].at = "record" /\ job[g].m = m
                   THEN overlapped \cup {m} ELSE overlapped
  /\ UNCHANGED <<shop, conv, contact, session, book, news, voices, broken>>

\* recordWhatsappMessage upserts, and never throws: an error leaves no row.
Record(h) ==
  LET m == job[h].m IN
  /\ job[h].at = "record" /\ MoveOn(h, "contact")
  /\ \/ /\ kept' = kept \cup {m} /\ last' = IF m \in kept THEN last ELSE m
        /\ UNCHANGED <<broken, budget>>
     \/ /\ Spend("events", MaxEvents) /\ broken' = broken \cup {m}
        /\ UNCHANGED <<kept, last>>
  /\ UNCHANGED <<shop, conv, contact, session, rows, aiRecent, fallbackRecent, news, voices, overlapped>>

\* STOP and START change the subscription; everybody who writes is in the book.
Listed(m) == IF What[m].opt # "none" THEN What[m].opt
             ELSE IF contact = NoContact THEN "in" ELSE contact
Contact(h) ==
  LET m == job[h].m IN
  /\ job[h].at = "contact"
  /\ \/ /\ contact' = Listed(m)
        /\ MoveOn(h, IF What[m].opt # "none" THEN "confirm" ELSE "flow")
        /\ UNCHANGED <<broken, budget>>
     \/ /\ Spend("events", MaxEvents) /\ broken' = broken \cup {m}
        /\ contact' \in {contact, Listed(m)} /\ MoveOn(h, "flow")
  /\ UNCHANGED <<shop, conv, session, book, news, voices, overlapped>>

Confirm(h) ==
  /\ job[h].at = "confirm"
  /\ Become(h, IF Sender = Nowhere THEN Idle ELSE [job[h] EXCEPT !.at = "send", !.kind = "opt"])
  /\ UNCHANGED <<shop, conv, contact, session, book, traces, budget>>

\* FlowService.handleInbound up to its first message.
EnabledFlows == SelectSeq(FlowOrder, LAMBDA f : f \in shop.flows)
Flow(h) ==
  LET m == job[h].m
      d == DecideFlow(Flows, EnabledFlows, session, What[m]) IN
  /\ job[h].at = "flow"
  /\ IF ~What[m].typed \/ EnabledFlows = <<>> \/ WithHuman(conv) \/ d.kind = "none"
        \/ ~shop.active \/ Sender = Nowhere
     THEN MoveOn(h, "agent")
     ELSE Become(h, [job[h] EXCEPT !.at = IF d.send = <<>> THEN "save" ELSE "send",
                                   !.kind = "flow", !.step = d, !.todo = d.send])
  /\ UNCHANGED <<shop, conv, contact, session, book, traces, budget>>

\* AiAgentService.handleInbound up to the reply.
PausedIsOpen(c) == c.status = "handoff"                      \* mutant
LeaveToHuman(c) == WithHuman(c)
Agent(h) ==
  LET m == job[h].m
      opened == [conv EXCEPT !.status = IF @ = "closed" THEN "open" ELSE @] IN
  /\ job[h].at = "agent"
  /\ IF LeaveToHuman(conv)
     THEN SetConv(opened) /\ job' = HumanLeaves([job EXCEPT ![h] = Idle], opened)
     ELSE IF ~shop.agent \/ ~What[m].typed \/ ~shop.active \/ Sender = Nowhere
     THEN SetConv(opened) /\ MoveOn(h, "bot")
     ELSE IF aiRecent >= MaxReplies
     THEN SetConv([opened EXCEPT !.status = "handoff"]) /\ Become(h, Idle)
     ELSE SetConv(opened) /\ MoveOn(h, "think")
  /\ UNCHANGED <<shop, contact, session, book, traces, budget>>

\* The credit is charged and, if the provider fails, given back: the bot answers.
\* A booking that was confirmed to the customer needs no words of the agent.
Think(h) ==
  /\ job[h].at = "think"
  /\ \/ MoveOn(h, "bot")
     \/ \E handoff, silent \in BOOLEAN :
          Become(h, [job[h] EXCEPT !.kind = "ai", !.handoff = handoff,
                                   !.at = IF silent THEN "end" ELSE "send"])
  /\ UNCHANGED <<shop, conv, contact, session, book, traces, budget>>

\* runBot: a keyword's reply, or the default one every twelve hours.
Bot(h) ==
  LET m == job[h].m IN
  /\ job[h].at = "bot"
  /\ Become(h, IF ~shop.bot \/ shop.main # "on" \/ ~shop.active \/ ~What[m].typed \/ Sender = Nowhere
               THEN Idle
               ELSE IF What[m].rule /\ shop.rules THEN [job[h] EXCEPT !.at = "send", !.kind = "bot"]
               ELSE IF ~shop.fallback \/ fallbackRecent THEN Idle
               ELSE [job[h] EXCEPT !.at = "send", !.kind = "bot-fallback"])
  /\ UNCHANGED <<shop, conv, contact, session, book, traces, budget>>

\* Meta accepts the message under an id of its own, or refuses it.
SendAnswer(h) ==
  LET j == job[h]
      free == {o \in OutIds : rows[o] = "none" /\ \A g \in Handlers : job[g].out # o} IN
  /\ j.at = "send"
  /\ \E ok \in BOOLEAN, o \in free \cup {Nowhere} :
       /\ o # Nowhere => ok
       /\ Become(h, [j EXCEPT !.at = "log", !.ok = ok, !.out = o, !.spoke = TRUE])
  /\ voices' = IF j.spoke \/ j.kind = "opt" THEN voices ELSE [voices EXCEPT ![j.m] = @ + 1]
  /\ UNCHANGED <<shop, conv, contact, session, book, news, overlapped, broken, budget>>

\* The flow goes on with its next message, unless this one was refused.
AfterLog(j) ==
  LET rest == IF j.todo = <<>> THEN <<>> ELSE Tail(j.todo)
      next == [j EXCEPT !.out = Nowhere, !.ok = FALSE, !.todo = rest] IN
    IF j.kind = "flow"
    THEN IF j.ok /\ rest # <<>> THEN [next EXCEPT !.at = "send"] ELSE [next EXCEPT !.at = "save", !.todo = <<>>]
    ELSE IF j.kind = "ai" THEN [next EXCEPT !.at = "end"] ELSE Idle
Log(h) ==
  LET j == job[h] IN
  /\ j.at = "log" /\ Become(h, AfterLog(j))
  /\ \/ /\ rows' = IF j.out = Nowhere THEN rows ELSE [rows EXCEPT ![j.out] = "sent"]
        /\ aiRecent' = IF j.kind = "ai" THEN aiRecent + 1 ELSE aiRecent
        /\ fallbackRecent' = (fallbackRecent \/ j.kind = "bot-fallback")
        /\ UNCHANGED budget
     \/ Spend("events", MaxEvents) /\ UNCHANGED <<rows, aiRecent, fallbackRecent>>
  /\ UNCHANGED <<shop, conv, contact, session, kept, last, traces>>

FlowSave(h) ==
  /\ job[h].at = "save"
  /\ session' = IF job[h].step.at = Nowhere THEN NoSession
                ELSE [flow |-> job[h].step.flow, node |-> job[h].step.at]
  /\ MoveOn(h, "end")
  /\ UNCHANGED <<shop, conv, contact, book, traces, budget>>

\* tagContact, complete, handoff and the webhook's noteInbound.
FlowEnd(h) ==
  /\ job[h].at = "end" /\ job[h].kind = "flow"
  /\ contact' \in {contact, IF contact = NoContact THEN "in" ELSE contact}
  /\ LET c == [conv EXCEPT !.status = IF job[h].step.handoff THEN "handoff"
                                      ELSE IF @ = "closed" THEN "open" ELSE @]
     IN  SetConv(c) /\ job' = HumanLeaves([job EXCEPT ![h] = Idle], c)
  /\ UNCHANGED <<shop, session, book, traces, budget>>

AgentEnd(h) ==
  /\ job[h].at = "end" /\ job[h].kind = "ai"
  /\ SetConv([conv EXCEPT !.status = IF job[h].handoff THEN "handoff" ELSE @])
  /\ Become(h, Idle)
  /\ UNCHANGED <<shop, contact, session, book, traces, budget>>

\* An error of the flow lets the agent answer, one of the agent the bot: the
\* webhook catches them.  Another error ends the request.
Fails(h) ==
  LET j == job[h] IN
  /\ Spend("events", MaxEvents) /\ broken' = broken \cup {j.m}
  /\ \/ /\ j.at = "flow" \/ (j.kind = "flow" /\ j.at \in {"save", "end"})
        /\ Become(h, [Idle EXCEPT !.at = "agent", !.m = j.m, !.human = j.human])
     \/ /\ j.at \in {"agent", "think"} \/ (j.kind = "ai" /\ j.at = "end")
        /\ Become(h, [Idle EXCEPT !.at = "bot", !.m = j.m, !.human = j.human, !.blind = TRUE])
     \/ /\ j.at \in {"record", "confirm", "bot"}
        /\ Become(h, Idle)
  /\ UNCHANGED <<shop, conv, contact, session, book, news, voices, overlapped>>

\* The process restarts: Meta has its 200 already and does not ask again.
Restart ==
  /\ Spend("events", MaxEvents) /\ job' = [h \in Handlers |-> Idle]
  /\ broken' = broken \cup {job[h].m : h \in {g \in Handlers : job[g].at # "idle"}}
  /\ UNCHANGED <<shop, conv, contact, session, book, news, voices, overlapped>>

\* Meta's news on a recorded message: failed always counts, the others only forward.
Rank(s) == CASE s = "sent" -> 1 [] s = "delivered" -> 2 [] s = "read" -> 3 [] OTHER -> 0
AlwaysMoves(old, new) == TRUE                                \* mutant
Moves(old, new) == new = "failed" \/ (old \in {"sent", "delivered", "read"} /\ Rank(old) < Rank(new))
StatusNews(o, s) ==
  /\ rows[o] # "none" /\ s \notin news[o]
  /\ news' = [news EXCEPT ![o] = @ \cup {s}]
  /\ rows' = IF Moves(rows[o], s) THEN [rows EXCEPT ![o] = s] ELSE rows
  /\ UNCHANGED <<shop, conv, contact, session, kept, last, aiRecent, fallbackRecent, job,
                 voices, overlapped, broken, budget>>
-----------------------------------------------------------------------------
(* The team, the merchant and the clock.                                   *)

MerchantLeaves == <<session, book, traces>>
\* A reply or a template from the team inbox that Meta accepted.
HumanReply ==
  /\ Spend("events", MaxEvents) /\ shop.main = "on"
  /\ SetConv([conv EXCEPT !.paused = TRUE])
  /\ UNCHANGED <<shop, contact, job, MerchantLeaves>>

\* PATCH /conversations/:phone.
PatchConversation(c) ==
  /\ Spend("events", MaxEvents) /\ c # conv
  /\ SetConv(c) /\ job' = HumanLeaves(job, c)
  /\ UNCHANGED <<shop, contact, MerchantLeaves>>
ChangeStatus == \E s \in {"open", "handoff", "closed"} : PatchConversation([conv EXCEPT !.status = s])
ResumeAi     == PatchConversation([conv EXCEPT !.paused = FALSE, !.status = "open"])

\* Creating, importing or synchronising contacts leaves a listed one's choice alone.
AddContact    == /\ Spend("events", MaxEvents) /\ contact = NoContact /\ contact' = "in"
                 /\ UNCHANGED <<shop, conv, job, MerchantLeaves>>
ImportContacts == /\ Spend("events", MaxEvents)
                  /\ contact' = IF contact = "none" THEN "in" ELSE contact
                  /\ UNCHANGED <<shop, conv, job, MerchantLeaves>>
UpdateContact == /\ Spend("events", MaxEvents) /\ contact # "none"
                 /\ contact' = IF contact = "in" THEN "out" ELSE "in"
                 /\ UNCHANGED <<shop, conv, job, MerchantLeaves>>
RemoveContact == /\ Spend("events", MaxEvents) /\ contact # "none" /\ contact' = "none"
                 /\ UNCHANGED <<shop, conv, job, MerchantLeaves>>

\* Editing or removing a flow ends its sessions; switching it off does not.
ToggleFlow(f) ==
  /\ Spend("events", MaxEvents)
  /\ shop' = [shop EXCEPT !.flows = IF f \in @ THEN @ \ {f} ELSE @ \cup {f}]
  /\ UNCHANGED <<conv, contact, job, MerchantLeaves>>
UpdateFlow(f) ==
  /\ Spend("events", MaxEvents) /\ f = session.flow /\ session' = NoSession
  /\ shop' \in {shop, [shop EXCEPT !.flows = @ \ {f}]}
  /\ UNCHANGED <<conv, contact, job, book, traces>>

\* The main number: none, off (Meta refused it) or on.
SaveCredentials == shop' \in {[shop EXCEPT !.main = to] : to \in {"on", "off"}}
EmbeddedSignup  == shop' \in {[shop EXCEPT !.main = to] : to \in {"on", "off"}}
Disconnect      == shop' = [shop EXCEPT !.main = "none"]
VerifyAgain     == shop.main # "none" /\ shop' \in {[shop EXCEPT !.main = to] : to \in {"on", "off"}}
\* An extra number.
AddNumber(n)    == shop.extras[n] = "none" /\ shop' \in {[shop EXCEPT !.extras[n] = to] : to \in {"on", "off"}}
Reverify(n)     == shop.extras[n] # "none" /\ shop' \in {[shop EXCEPT !.extras[n] = to] : to \in {"on", "off"}}
RemoveNumber(n) == shop.extras[n] # "none" /\ shop' = [shop EXCEPT !.extras[n] = "none"]
\* The bot and its rules, the agent, the account.
Switch(what)    == shop' = [shop EXCEPT ![what] = ~@]
ChangeShop ==
  /\ Spend("events", MaxEvents)
  /\ \/ SaveCredentials \/ EmbeddedSignup \/ Disconnect \/ VerifyAgain
     \/ \E n \in Extras : AddNumber(n) \/ Reverify(n) \/ RemoveNumber(n)
     \/ \E what \in {"bot", "fallback", "rules", "agent", "active"} : Switch(what)
  /\ UNCHANGED <<conv, contact, job, MerchantLeaves>>

\* An hour, twelve hours or a day pass.
HourPasses ==
  /\ aiRecent > 0 /\ Spend("events", MaxEvents)
  /\ \E n \in 0..(aiRecent - 1) : aiRecent' = n
  /\ UNCHANGED <<shop, conv, contact, session, kept, last, rows, fallbackRecent, job, traces>>
HalfDayPasses ==
  /\ conv.paused \/ fallbackRecent
  /\ Spend("events", MaxEvents)
  /\ \E p \in {FALSE, conv.paused} : SetConv([conv EXCEPT !.paused = p])
  /\ job' = HumanLeaves(job, conv')
  /\ fallbackRecent' \in {FALSE, fallbackRecent}
  /\ UNCHANGED <<shop, contact, session, kept, last, rows, aiRecent, traces>>
SessionExpires ==
  /\ session # NoSession /\ Spend("events", MaxEvents) /\ session' = NoSession
  /\ UNCHANGED <<shop, conv, contact, job, book, traces>>

Webhook(h) ==
  \/ \E m \in Messages : Receive(h, m)
  \/ Record(h) \/ Contact(h) \/ Confirm(h) \/ Flow(h) \/ Agent(h) \/ Think(h) \/ Bot(h)
  \/ SendAnswer(h) \/ Log(h) \/ FlowSave(h) \/ FlowEnd(h) \/ AgentEnd(h) \/ Fails(h)
Team ==
  \/ HumanReply \/ ChangeStatus \/ ResumeAi \/ AddContact \/ ImportContacts \/ UpdateContact \/ RemoveContact
  \/ (\E f \in DOMAIN Flows : ToggleFlow(f) \/ UpdateFlow(f)) \/ ChangeShop
TalkNext ==
  \/ \E h \in Handlers : Webhook(h)
  \/ \E o \in OutIds, s \in SentStatuses \ {"none"} : StatusNews(o, s)
  \/ Team \/ Restart \/ HourPasses \/ HalfDayPasses \/ SessionExpires

TalkSpec == TalkInit /\ [][TalkNext]_talk
-----------------------------------------------------------------------------
(* What must hold.                                                         *)

\* The status of a recorded message tells the furthest of Meta's news, in
\* whatever order and however often they came: failed if it failed at all.
StatusIsOrderFree ==
  \A o \in OutIds : rows[o] # "none" =>
    IF "failed" \in news[o] THEN rows[o] = "failed"
    ELSE \A s \in news[o] \cup {"sent"} : Rank(s) <= Rank(rows[o])

\* One message is answered by one of the flow, the agent and the bot, and once:
\* apart from messages that two requests took before either recorded them, and
\* those whose handling met an error.
AnsweredOnce == \A m \in Messages : voices[m] > 1 => m \in overlapped \cup broken

\* While a person has the conversation from the moment a message comes in,
\* nothing automatic is sent for it but the confirmation of STOP and START:
\* unless the agent's own check failed, and the bot answers in its place.
QuietWithHuman ==
  \A h \in Handlers : job[h].at = "send" /\ job[h].kind # "opt" => ~job[h].human \/ job[h].blind
-----------------------------------------------------------------------------
(* Why: a message neither taken twice at once nor met by an error has one  *)
(* handler, which answers it once; and a handler that believes a person    *)
(* has the conversation is right, and does not get past the agent's check. *)

JobOK(j) ==
  /\ j = [at |-> j.at, m |-> j.m, kind |-> j.kind, step |-> j.step, todo |-> j.todo, out |-> j.out, ok |-> j.ok,
          spoke |-> j.spoke, handoff |-> j.handoff, human |-> j.human, blind |-> j.blind]
  /\ j.at = "idle" \/ j.m \in Messages
  /\ j.spoke \in BOOLEAN /\ j.human \in BOOLEAN /\ j.blind \in BOOLEAN
  /\ j.out = Nowhere \/ (j.out \in OutIds /\ j.at = "log")
  /\ j.spoke => j.at \in {"send", "log", "save", "end"}
  /\ j.kind = "opt" => j.at \in {"send", "log"}
  /\ (j.human /\ ~j.blind) => j.at \in {"record", "contact", "confirm", "flow", "agent"} \/ j.kind = "opt"
TalkOK ==
  /\ conv \in [status : {"open", "handoff", "closed"}, paused : BOOLEAN]
  /\ kept \subseteq Messages /\ overlapped \subseteq Messages /\ broken \subseteq Messages
  /\ rows \in [OutIds -> SentStatuses] /\ news \in [OutIds -> SUBSET SentStatuses]
  /\ voices \in [Messages -> Nat]
  /\ job = [h \in Handlers |-> job[h]] /\ \A h \in Handlers : JobOK(job[h])
HumanInv == \A h \in Handlers : job[h].human => WithHuman(conv)
VoiceInv(m) ==
  /\ \A g, h \in Handlers : job[g].m = m /\ job[h].m = m => g = h
  /\ m \notin kept => voices[m] = 0 /\ \A h \in Handlers : job[h].m = m => job[h].at = "record"
  /\ voices[m] <= 1 /\ \A h \in Handlers : job[h].m = m /\ ~job[h].spoke => voices[m] = 0
SentInv ==
  /\ \A h \in Handlers : job[h].out # Nowhere =>
       rows[job[h].out] = "none" /\ \A g \in Handlers : job[g].out = job[h].out => g = h
  /\ \A o \in OutIds : rows[o] = "none" => news[o] = {}
TalkInv ==
  /\ TalkOK /\ HumanInv /\ SentInv /\ StatusIsOrderFree
  /\ \A m \in Messages \ (overlapped \cup broken) : VoiceInv(m)
=============================================================================
