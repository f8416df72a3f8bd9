---------------------------- MODULE MetaInbound ----------------------------
(***************************************************************************)
(* Messenger, Instagram and WhatsApp in front of the bot: the webhook      *)
(* handlers, and the four helpers each of which is some keys in Redis --   *)
(* the chat cursor, the loop guard, the registry of what was sent, and the *)
(* AI disclosure.                                                          *)
(*                                                                         *)
(* A call is one message event (Meta delivers an event again when the      *)
(* answer was late, so two calls may be the same message), one echo, or    *)
(* one action of the dashboard.  The bot's own turn is LiveChat's subject; *)
(* here it is what the handlers see of it.  One bot, one window of time    *)
(* per timer: the time to live of the disclosure (a week) never ends.      *)
(***************************************************************************)
EXTENDS Requests

CONSTANTS
  Contacts,          \* visitors as Meta names them
  Replies,           \* what the model may answer
  MaxReplies,        \* MAX_REPLIES_PER_WINDOW
  DuplicateLookback

ASSUME NoneIsNoAnswer == None \notin {"unusable", "replied", "tookOver"}

VARIABLES
  chat,       \* Seq(row of CustomerChats with its transcript)
  touched,    \* the conversations, the one updated last first
  cursor,     \* [Contacts -> conversation and whether it is younger than the idle window]
  minted,     \* {conversation minted, for whom, by which call, after how many idle windows}
  idled,      \* [Contacts -> idle windows passed]
  rate,       \* [Contacts -> replies counted in the loop guard's window]
  window,     \* [Contacts -> windows that ended]
  last,       \* [Contacts -> Seq(reply), the newest first]
  disclosed,  \* conversations whose disclosure is taken
  ours,       \* sends whose id the registry holds
  sent,       \* Seq(send): what the Graph API accepted
  counted,    \* Seq(<<send's call, contact, window>>): replies the loop guard recorded
  minutes,    \* voiceMessageMinutesUsed
  testBot,    \* a bot answers on the number of the app review
  testLog,    \* the review's conversation, as the calls it shows
  expired     \* how often the other keys of Redis, and the 120 s of an echo, ran out

inboundVars == <<chat, touched, cursor, minted, idled, rate, window, last, disclosed, ours, sent,
                 counted, minutes, testBot, testLog, expired>>
conversations == <<chat, touched>>
cursors == <<cursor, minted, idled>>
guard == <<rate, window, last, counted, expired>>
tests == <<testBot, testLog>>

Listens == {"messenger", "instagram", "whatsapp", "legacy"}
Pages == {"messenger", "instagram"}
Echoes == {"ownerEcho", "ownEcho", "appEcho"}
Talks == Listens \cup {"test"}
InboundOps == Talks \cup Echoes \cup {"handover", "agent", "close", "setTest", "unsetTest", "clearTest"}

Who(q) == Does(q).who
Legacy(v) == <<v, 0>>
NoCursor == [id |-> None, fresh |-> FALSE]
\* Redis answers, or fails where the plan lets it.
Redis == IF plan.redis THEN {TRUE} ELSE BOOLEAN

InboundInit ==
  /\ chat = <<>> /\ touched = <<>> /\ sent = <<>> /\ counted = <<>>
  /\ cursor = [v \in Contacts |-> NoCursor] /\ minted = {} /\ idled = [v \in Contacts |-> 0]
  /\ rate = [v \in Contacts |-> 0] /\ window = [v \in Contacts |-> 0] /\ last = [v \in Contacts |-> <<>>]
  /\ disclosed = {} /\ ours = {} /\ minutes = 0 /\ testBot = FALSE /\ testLog = {}
  /\ expired = 0

Line(from, text, q) == [from |-> from, text |-> text, by |-> q, recent |-> TRUE]
Touch(i) == <<i>> \o SelectSeq(touched, LAMBDA j : j # i)
RowsOf(id) == {i \in DOMAIN chat : chat[i].id = id}
Least(S) == CHOOSE i \in S : \A j \in S : i <= j

-----------------------------------------------------------------------------
(* A message                                                               *)

\* By the minute, at least one.
incrementQuota == minutes' = minutes + 1
\* A voice note in which nothing is heard, or that cannot be read, costs nothing.
transcribe(heard) == IF heard THEN incrementQuota ELSE UNCHANGED minutes
extractTextOrTranscribe(q, heard) == IF Does(q).voice THEN transcribe(heard) ELSE UNCHANGED minutes

shouldRateLimit(v) == rate[v] >= MaxReplies

\* No usable text, or nothing in the voice note; a schedule that is closed; a
\* budget that is spent; or the conversation is asked for.
Admit(q) ==
  /\ \/ Answers(q, Listens, "unusable") /\ extractTextOrTranscribe(q, FALSE)
     \/ Answers(q, Listens, "closed") /\ extractTextOrTranscribe(q, TRUE)
     \/ \E up \in Redis :
          /\ IF up /\ shouldRateLimit(Who(q)) THEN Answers(q, Listens, "limited")
             ELSE Starts(q, Listens, "cursor",
                         [id |-> None, row |-> 0, text |-> None, first |-> FALSE,
                          window |-> window[Who(q)]])
          /\ extractTextOrTranscribe(q, TRUE)
  /\ UNCHANGED <<conversations, cursors, guard, disclosed, ours, sent, tests>>

Next1(v) == <<v, 1 + Cardinality({m \in minted : m.who = v})>>

\* resolveChatId: look ...
ReadCursor(q) ==
  /\ At(q, Talks, "cursor")
  /\ \E up \in Redis :
       LET c == cursor[Who(q)]
       IN IF ~up THEN Goes(q, "chat", [Loc(q) EXCEPT !.id = Legacy(Who(q))])
          ELSE Goes(q, "setex", [Loc(q) EXCEPT !.id = IF c.fresh THEN c.id ELSE <<>>])
  /\ UNCHANGED inboundVars

KeptCursor(v, id) == [id |-> id, fresh |-> TRUE]

\* ... and store it again, or a new one; a failure falls back to the old shape.
WriteCursor(q) ==
  /\ At(q, Talks, "setex")
  /\ \E up \in Redis :
       LET v == Who(q)
           mints == Loc(q).id = <<>>
           id == IF mints THEN Next1(v) ELSE Loc(q).id
       IN IF up THEN /\ Goes(q, "chat", [Loc(q) EXCEPT !.id = id])
                     /\ cursor' = [cursor EXCEPT ![v] = KeptCursor(v, id)]
                     /\ minted' = IF mints THEN minted \cup {[id |-> id, who |-> v, by |-> q, idle |-> idled[v]]}
                                  ELSE minted
          ELSE Goes(q, "chat", [Loc(q) EXCEPT !.id = Legacy(v)]) /\ UNCHANGED <<cursor, minted>>
  /\ UNCHANGED <<conversations, idled, guard, disclosed, ours, sent, minutes, tests>>

\* Without an answer a channel is silent; the review's number apologises.
Unanswered(q, end) == IF Does(q).op = "test" THEN Goes(q, "send", Loc(q)) ELSE Ends(q, end)

\* chat() as far as its first answer: a human's conversation takes the line
\* and stays silent, a closed one opens again.
BeginTurn(q) ==
  /\ At(q, Talks, "chat")
  /\ LET found == RowsOf(Loc(q).id)
         i == Least(found)
         human == found # {} /\ chat[i].status = "HUMAN_ACTIVE"
         reopened == IF chat[i].status = "CLOSED" THEN "BOT_ACTIVE" ELSE chat[i].status
     IN \/ /\ found = {} /\ Goes(q, "answer", Loc(q)) /\ UNCHANGED conversations
        \/ /\ found # {}
           /\ IF human THEN Unanswered(q, "silent") ELSE Goes(q, "answer", [Loc(q) EXCEPT !.row = i])
           /\ chat' = [chat EXCEPT ![i].status = reopened,
                                   ![i].lines = Append(@, Line("user", Does(q).text, q))]
           /\ touched' = Touch(i)
        \/ plan.failures /\ Ends(q, "failed") /\ UNCHANGED conversations
  /\ UNCHANGED <<cursors, guard, disclosed, ours, sent, minutes, tests>>

\* The rest of chat(): the answer joins the conversation that is there by now,
\* or the one it creates.  An answer without content is not sent.
EndTurn(q) ==
  /\ At(q, Talks, "answer")
  /\ \E t \in Replies :
       LET found == RowsOf(Loc(q).id)
           i == IF found = {} THEN Len(chat) + 1 ELSE Least(found)
           bot == Line("bot", t, q)
           both == <<Line("user", Does(q).text, q), bot>>
           id == Loc(q).id
       IN /\ Goes(q, IF Does(q).op = "test" THEN "send" ELSE "duplicate", [Loc(q) EXCEPT !.text = t])
          /\ chat' = IF found = {} THEN Append(chat, [id |-> id, who |-> Who(q), status |-> "BOT_ACTIVE",
                                                     agent |-> FALSE, lines |-> both])
                     ELSE [chat EXCEPT ![i].lines = @ \o (IF Loc(q).row = 0 THEN both ELSE <<bot>>)]
          /\ touched' = Touch(i)
  /\ UNCHANGED <<cursors, guard, disclosed, ours, sent, minutes, tests>>
NoAnswer(q) ==
  /\ plan.failures /\ At(q, Talks, "answer") /\ Unanswered(q, "empty") /\ UNCHANGED inboundVars

isDuplicateReply(v, t) == \E i \in DOMAIN last[v] : last[v][i] = t

\* Mutation: the disclosure is taken before the reply is compared.
SuppressDisclosed(q) == Ends(q, "suppressed") /\ disclosed' = disclosed \cup {Loc(q).id}
Suppress(q) == Ends(q, "suppressed") /\ UNCHANGED disclosed
Deduplicate(q) ==
  /\ At(q, Listens, "duplicate")
  /\ \E up \in Redis : IF up /\ isDuplicateReply(Who(q), Loc(q).text) THEN Suppress(q)
                       ELSE Goes(q, "disclose", Loc(q)) /\ UNCHANGED disclosed
  /\ UNCHANGED <<conversations, cursors, guard, ours, sent, minutes, tests>>

\* SET NX: the first to ask carries the line, before anything is sent.
Takes(q) ==
  /\ disclosed' = disclosed \cup {Loc(q).id}
  /\ Goes(q, "send", [Loc(q) EXCEPT !.first = Loc(q).id \notin disclosed])
withDisclosure(q) ==
  /\ At(q, Listens, "disclose")
  /\ \E up \in Redis : IF up THEN Takes(q) ELSE Goes(q, "send", Loc(q)) /\ UNCHANGED disclosed
  /\ UNCHANGED <<conversations, cursors, guard, ours, sent, minutes, tests>>

Accepted(q, text) ==
  sent' = Append(sent, [by |-> q, to |-> Who(q), id |-> Loc(q).id, text |-> text, first |-> Loc(q).first])
sendMetaMessage(q) ==
  /\ At(q, Pages, "send")
  /\ Accepted(q, Loc(q).text) /\ Goes(q, "record", Loc(q))
  /\ UNCHANGED <<conversations, cursors, guard, disclosed, ours, minutes, tests>>
\* WhatsApp echoes nothing the API sends: nothing is recorded.
sendWhatsAppMessage(q) ==
  /\ At(q, {"whatsapp", "legacy"}, "send")
  /\ Accepted(q, Loc(q).text) /\ Goes(q, "count", Loc(q))
  /\ UNCHANGED <<conversations, cursors, guard, disclosed, ours, minutes, tests>>
SendFails(q) ==
  /\ plan.failures /\ At(q, Talks \cup {"agent"}, "send") /\ Ends(q, "failed")
  /\ UNCHANGED inboundVars

Remember(q, up) == ours' = IF up THEN ours \cup {q} ELSE ours
Record(q) ==
  /\ At(q, Pages \cup {"agent"}, "record")
  /\ \E up \in Redis : Remember(q, up)
  /\ IF Does(q).op = "agent" THEN Ends(q, "sent") ELSE Goes(q, "count", Loc(q))
  /\ UNCHANGED <<conversations, cursors, guard, disclosed, sent, minutes, tests>>

Newest(s, n) == SubSeq(s, 1, IF Len(s) < n THEN Len(s) ELSE n)
recordReply(q) ==
  /\ At(q, Listens, "count") /\ Ends(q, "replied")
  /\ LET v == Who(q)
     IN \E up \in Redis :
          IF up THEN /\ rate' = [rate EXCEPT ![v] = @ + 1]
                     /\ last' = [last EXCEPT ![v] = Newest(<<Loc(q).text>> \o @, DuplicateLookback)]
                     /\ counted' = Append(counted, [by |-> q, window |-> window[v]])
          ELSE UNCHANGED <<rate, last, counted>>
  /\ UNCHANGED <<conversations, cursors, window, expired, disclosed, ours, sent, minutes, tests>>

-----------------------------------------------------------------------------
(* Echoes: what a page or a business phone sent, seen again                *)

\* An echo of what this system sent through a page, or of what the owner typed
\* in the app of a page or of a business phone; the last are not looked up.
EchoText(q) == IF Does(q).op = "ownEcho" THEN sent[CHOOSE i \in DOMAIN sent : sent[i].by = Does(q).of].text
               ELSE Does(q).text
BeginEcho(q) ==
  /\ Starting(q, Echoes)
  /\ Does(q).op = "ownEcho" => \E i \in DOMAIN sent : sent[i].by = Does(q).of
  /\ \E up \in IF Does(q).op = "appEcho" THEN {FALSE} ELSE Redis :
       IF up /\ Does(q).of \in ours THEN Enter(q, "done", None, "ours")
       ELSE Enter(q, "find", [text |-> EchoText(q), row |-> 0], None)
  /\ UNCHANGED inboundVars

OpenRows(v) == SelectSeq(touched, LAMBDA i : chat[i].who = v /\ chat[i].status # "CLOSED")
FindEchoed(q) ==
  /\ At(q, Echoes, "find")
  /\ IF OpenRows(Who(q)) = <<>> THEN Ends(q, "nobody")
     ELSE Goes(q, "dedupe", [Loc(q) EXCEPT !.row = Head(OpenRows(Who(q)))])
  /\ UNCHANGED inboundVars

\* Only the lines of an agent are compared, and for 120 seconds.
Mirrored(i, text) == \E k \in DOMAIN chat[i].lines :
  LET l == chat[i].lines[k] IN l.from = "agent" /\ l.text = text /\ l.recent
DedupeEcho(q) ==
  /\ At(q, Echoes, "dedupe")
  /\ IF Mirrored(Loc(q).row, Loc(q).text) THEN Ends(q, "repeated") ELSE Goes(q, "mirror", Loc(q))
  /\ UNCHANGED inboundVars
MirrorEcho(q) ==
  /\ At(q, Echoes, "mirror") /\ Goes(q, "takeOver", Loc(q))
  /\ chat' = [chat EXCEPT ![Loc(q).row].lines = Append(@, Line("agent", Loc(q).text, q))]
  /\ UNCHANGED <<touched, cursors, guard, disclosed, ours, sent, minutes, tests>>
\* Mutation: the echo is only mirrored.
OwnedStill(status) == status
Owned(status) == "HUMAN_ACTIVE"
TakeOver(q) ==
  /\ At(q, Echoes, "takeOver") /\ Ends(q, "tookOver")
  /\ chat' = [chat EXCEPT ![Loc(q).row].status = Owned(@)] /\ touched' = Touch(Loc(q).row)
  /\ UNCHANGED <<cursors, guard, disclosed, ours, sent, minutes, tests>>

-----------------------------------------------------------------------------
(* The dashboard: a conversation is taken, written in and closed           *)

Handover(q) ==
  /\ Answers(q, {"handover"}, "given")
  /\ \E i \in DOMAIN chat : /\ chat[i].who = Who(q)
                            /\ chat' = [chat EXCEPT ![i].status = "HUMAN_ACTIVE", ![i].agent = TRUE]
                            /\ touched' = Touch(i)
  /\ UNCHANGED <<cursors, guard, disclosed, ours, sent, minutes, tests>>
AgentReads(q) ==
  /\ \E i \in DOMAIN chat :
       /\ chat[i].who = Who(q) /\ chat[i].agent /\ chat[i].status = "HUMAN_ACTIVE"
       /\ Starts(q, {"agent"}, "line", [row |-> i, id |-> chat[i].id, text |-> Does(q).text, first |-> FALSE])
  /\ UNCHANGED inboundVars
\* The line is there before the message leaves.
AgentWrites(q) ==
  /\ At(q, {"agent"}, "line") /\ Goes(q, "send", Loc(q))
  /\ chat' = [chat EXCEPT ![Loc(q).row].lines = Append(@, Line("agent", Loc(q).text, q))]
  /\ touched' = Touch(Loc(q).row)
  /\ UNCHANGED <<cursors, guard, disclosed, ours, sent, minutes, tests>>
deliverToExternalChannel(q) ==
  /\ At(q, {"agent"}, "send")
  /\ Accepted(q, Loc(q).text) /\ IF Does(q).page # None THEN Goes(q, "record", Loc(q)) ELSE Ends(q, "sent")
  /\ UNCHANGED <<conversations, cursors, guard, disclosed, ours, minutes, tests>>
Close(q) ==
  /\ Answers(q, {"close"}, "closed")
  /\ \E i \in DOMAIN chat : /\ chat[i].who = Who(q) /\ chat[i].agent
                            /\ chat' = [chat EXCEPT ![i].status = "CLOSED"] /\ touched' = Touch(i)
  /\ UNCHANGED <<cursors, guard, disclosed, ours, sent, minutes, tests>>

-----------------------------------------------------------------------------
(* The number of the app review                                            *)

noTests == <<conversations, cursors, guard, disclosed, ours, sent, minutes>>
setTestBot(q) == Starts(q, {"setTest"}, "clear", None) /\ testBot' = TRUE /\ UNCHANGED <<noTests, testLog>>
ClearOnSet(q) == At(q, {"setTest"}, "clear") /\ Ends(q, "set") /\ testLog' = {} /\ UNCHANGED <<noTests, testBot>>
UnsetTestBot(q) == Answers(q, {"unsetTest"}, "unset") /\ testBot' = FALSE /\ testLog' = {} /\ UNCHANGED noTests
clearTestMessages(q) == Answers(q, {"clearTest"}, "cleared") /\ testLog' = {} /\ UNCHANGED <<noTests, testBot>>

BeginTest(q) ==
  /\ IF testBot THEN Starts(q, {"test"}, "cursor", [id |-> None, row |-> 0, text |-> None, first |-> FALSE])
     ELSE Answers(q, {"test"}, "unrouted")
  /\ UNCHANGED inboundVars
SendTest(q) ==
  /\ At(q, {"test"}, "send") /\ Accepted(q, Loc(q).text) /\ Goes(q, "log", Loc(q))
  /\ UNCHANGED <<conversations, cursors, guard, disclosed, ours, minutes, tests>>
\* appendTestMessages: the whole log is read ...
ReadTestLog(q) ==
  /\ At(q, {"test"}, "log") /\ Goes(q, "append", [log |-> testLog]) /\ UNCHANGED inboundVars
Appended(log, q) == log \cup {q}
\* ... and written with the two messages.
WriteTestLog(q) ==
  /\ At(q, {"test"}, "append") /\ Ends(q, "logged")
  /\ testLog' = Appended(Loc(q).log, q) /\ UNCHANGED <<noTests, testBot>>

-----------------------------------------------------------------------------
(* Time                                                                    *)

\* Nothing of a turn lies between two looks at the clock that are this far apart.
Resolving == \E q \in Calls : call[q].pc = "setex"
IdlePasses(v) ==
  /\ idled[v] < plan.windows /\ ~Resolving
  /\ cursor' = [cursor EXCEPT ![v].fresh = FALSE] /\ idled' = [idled EXCEPT ![v] = @ + 1]
  /\ UNCHANGED <<plan, call, conversations, minted, guard, disclosed, ours, sent, minutes, tests>>
WindowEnds(v) ==
  /\ rate[v] > 0 /\ window[v] < plan.windows
  /\ rate' = [rate EXCEPT ![v] = 0] /\ window' = [window EXCEPT ![v] = @ + 1]
  /\ UNCHANGED <<plan, call, conversations, cursors, last, counted, expired, disclosed, ours, sent, minutes, tests>>
Expires == expired < plan.windows /\ expired' = expired + 1
RepliesForgotten(v) ==
  /\ Expires /\ Len(last[v]) > 0 /\ last' = [last EXCEPT ![v] = <<>>]
  /\ UNCHANGED <<plan, call, conversations, cursors, rate, window, counted, disclosed, ours, sent, minutes, tests>>
IdsForgotten ==
  /\ Expires /\ ours # {} /\ ours' = {}
  /\ UNCHANGED <<plan, call, conversations, cursors, rate, window, last, counted, disclosed, sent, minutes, tests>>
LinesAge ==
  /\ Expires /\ Len(chat) > 0
  /\ chat' = [i \in DOMAIN chat |->
                [chat[i] EXCEPT !.lines = [k \in DOMAIN @ |-> [@[k] EXCEPT !.recent = FALSE]]]]
  /\ UNCHANGED <<plan, call, touched, cursors, rate, window, last, counted, disclosed, ours, sent, minutes, tests>>
InboundClock == IdsForgotten \/ LinesAge \/ \E v \in Contacts : IdlePasses(v) \/ WindowEnds(v) \/ RepliesForgotten(v)

-----------------------------------------------------------------------------
(* The handlers                                                            *)

Turn(q) == ReadCursor(q) \/ WriteCursor(q) \/ BeginTurn(q) \/ EndTurn(q) \/ NoAnswer(q)
Message(q) == Admit(q) \/ Turn(q) \/ Deduplicate(q) \/ withDisclosure(q) \/ SendFails(q) \/ recordReply(q)
PageSend(q) == sendMetaMessage(q) \/ Record(q)

handlePageWebhook(q) == Does(q).op = "messenger" /\ (Message(q) \/ PageSend(q))
handleInstagramWebhook(q) == Does(q).op = "instagram" /\ (Message(q) \/ PageSend(q))
handleWhatsAppWebhook(q) == Does(q).op = "whatsapp" /\ (Message(q) \/ sendWhatsAppMessage(q))
handleLegacyWebhook(q) == Does(q).op = "legacy" /\ (Message(q) \/ sendWhatsAppMessage(q))
Echo(q) == BeginEcho(q) \/ FindEchoed(q) \/ DedupeEcho(q) \/ MirrorEcho(q) \/ TakeOver(q)
handleOwnerEcho(q) == Does(q).op \in {"ownerEcho", "ownEcho"} /\ Echo(q)
handleMessageEchoes(q) == Does(q).op = "appEcho" /\ Echo(q)
handleTestModeMessages(q) ==
  Does(q).op = "test" /\ (BeginTest(q) \/ Turn(q) \/ SendTest(q) \/ SendFails(q) \/ ReadTestLog(q) \/ WriteTestLog(q))
sendAgentMessage(q) ==
  /\ Does(q).op = "agent"
  /\ AgentReads(q) \/ AgentWrites(q) \/ deliverToExternalChannel(q) \/ SendFails(q) \/ Record(q)
TestMode(q) == setTestBot(q) \/ ClearOnSet(q) \/ UnsetTestBot(q) \/ clearTestMessages(q)

InboundStep(q) ==
  /\ \/ handlePageWebhook(q) \/ handleInstagramWebhook(q) \/ handleWhatsAppWebhook(q) \/ handleLegacyWebhook(q)
     \/ handleOwnerEcho(q) \/ handleMessageEchoes(q) \/ handleTestModeMessages(q) \/ TestMode(q)
     \/ Handover(q) \/ sendAgentMessage(q) \/ Close(q)
     \/ Does(q).op \in InboundOps /\ Dies(q) /\ UNCHANGED inboundVars
  /\ UNCHANGED plan
InboundNext == InboundClock \/ \E q \in Calls : InboundStep(q)

-----------------------------------------------------------------------------
(* Properties                                                              *)

\* Each variable of this module has the shape its conversations and keys have.
InboundTypeOK ==
  /\ \A i \in DOMAIN chat : /\ chat[i].who \in Contacts /\ chat[i].agent \in BOOLEAN
                            /\ chat[i].status \in {"BOT_ACTIVE", "HUMAN_ACTIVE", "CLOSED"}
  /\ DOMAIN touched = DOMAIN chat /\ {touched[i] : i \in DOMAIN touched} = DOMAIN chat
  /\ \A v \in Contacts : /\ cursor[v].fresh => \E x \in minted : x.id = cursor[v].id
                         /\ Len(last[v]) <= DuplicateLookback /\ rate[v] \in Nat /\ idled[v] \in Nat
  /\ \A i \in DOMAIN sent : sent[i].by \in Calls /\ sent[i].to \in Contacts /\ sent[i].first \in BOOLEAN
  /\ ours \subseteq Calls /\ testLog \subseteq Calls /\ testBot \in BOOLEAN /\ minutes \in Nat

BotSends == {i \in DOMAIN sent : Does(sent[i].by).op \in Listens}

\* The disclosure that an answer comes from an AI opens a conversation once
\* (withDisclosure): no second answer in it carries the line again.
DisclosedOnce ==
  \A i, k \in BotSends : i # k /\ sent[i].first /\ sent[k].first => sent[i].id # sent[k].id

\* With Redis up, an answer goes out in a conversation where nothing sent so
\* far carries the disclosure only if the call that took the line failed, died
\* or is on its way (withDisclosure marks it before the message is sent).
DisclosedUnlessLost ==
  plan.redis => \A i \in BotSends :
    \/ \E k \in BotSends : k <= i /\ sent[k].first /\ sent[k].id = sent[i].id
    \/ \E r \in Calls \ {sent[i].by} :
         /\ Does(r).op \in Listens /\ Begun(r) /\ Loc(r) # None
         /\ Loc(r).first /\ Loc(r).id = sent[i].id
         /\ Overlap(r, sent[i].by) \/ call[r].pc = "dead" \/ call[r].end = "failed"

\* A contact that has not been idle is in one conversation: two are started
\* for the same visit only by messages that look for it at the same time
\* (resolveChatId reads the cursor and stores it in two commands).
OneThreadUnlessRacing ==
  \A a, b \in minted : a # b /\ a.who = b.who /\ a.idle = b.idle => Overlap(a.by, b.by)

\* With Redis up, an answer goes out although the replies of the window were
\* spent only if some were still on their way when its message came in
\* (shouldRateLimit before the turn, recordReply after the send).
BudgetOverrunOnlyRacing ==
  plan.redis => \A i \in BotSends :
    LET q == sent[i].by
    IN Cardinality({k \in DOMAIN counted : /\ Who(counted[k].by) = Who(q) /\ counted[k].by \in call[q].since
                                           /\ counted[k].window = Loc(q).window}) < MaxReplies

\* With Redis up, a reply that was sent and recorded before a message came in
\* is not its answer too, unless as many others as are remembered went out.
RepeatedOnlyRacing ==
  plan.redis /\ expired = 0 => \A i, j \in BotSends :
    /\ i < j /\ sent[i].to = sent[j].to /\ sent[i].text = sent[j].text
    /\ sent[i].by \in call[sent[j].by].since /\ call[sent[i].by].end = "replied"
    => Cardinality({k \in BotSends : k < j /\ k # i /\ sent[k].to = sent[i].to}) >= DuplicateLookback

\* With Redis up and the ids remembered, what this system sent through a page
\* silences the bot as if the owner had typed it only when its echo is read
\* before the send's id is recorded, or the pod died in between.
OwnEchoTakesOverOnlyEarly ==
  plan.redis /\ expired = 0 => \A q \in Calls :
    Does(q).op = "ownEcho" /\ call[q].end = "tookOver"
      => Overlap(q, Does(q).of) \/ call[Does(q).of].pc = "dead"

\* The echo of an agent's own message is not written again into the
\* conversation the agent wrote it in, whatever Redis does: the line is there
\* before the message leaves.
AgentLineOnce ==
  expired = 0 => \A q \in Calls :
    /\ Does(q).op = "ownEcho" /\ call[q].end = "tookOver" /\ Does(Does(q).of).op = "agent"
    => Loc(q).row # Loc(Does(q).of).row

\* Once the owner has answered from the app, the bot answers no later message
\* of the contact, until the conversation is closed, has been idle for long, or
\* Redis is down; a contact with two conversations is answered in the other.
OwnerSilencesBot ==
  plan.redis => \A i \in BotSends, r \in Calls :
    /\ Does(r).op \in {"ownerEcho", "appEcho"} /\ call[r].end = "tookOver"
    /\ r \in call[sent[i].by].since /\ Who(r) = sent[i].to
    => \/ idled[Who(r)] > 0 \/ \E x \in Calls : Does(x).op = "close" /\ Begun(x)
       \/ Cardinality({x \in minted : x.who = Who(r)}) > 1

\* What a contact gets from the bot is bounded and in one piece: one
\* conversation, one disclosure at its start, no answer beyond the budget and
\* none repeated, but where messages overlap or Redis is down.
AnswersBounded ==
  DisclosedOnce /\ DisclosedUnlessLost /\ OneThreadUnlessRacing /\ BudgetOverrunOnlyRacing /\ RepeatedOnlyRacing

\* An echo is told apart: the bot's and an agent's own message is nobody's
\* takeover and no second line, the owner's is a takeover and silences the bot.
EchoesUnderstood == OwnEchoTakesOverOnlyEarly /\ AgentLineOnce /\ OwnerSilencesBot
=============================================================================
