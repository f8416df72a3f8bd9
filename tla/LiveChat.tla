------------------------------ MODULE LiveChat ------------------------------
(***************************************************************************)
(* One visitor conversation (one chatId of one bot) between the visitor,   *)
(* the bot and the human agents of a team.                                 *)
(*                                                                         *)
(* The conversation is stored as CustomerChats rows.  Nothing in the       *)
(* database makes the row of a chatId unique, and no handler holds a lock  *)
(* or a transaction across its awaits, so every handler is split at the    *)
(* awaits where another one can interleave:                                *)
(*   - visitor turns: chat() and chatStream() of bot.service.ts            *)
(*   - dashboard requests: handover, agent message, close and delete of    *)
(*     report.service.ts, and the read receipt                             *)
(*   - the visitor's satisfaction answer of widget.service.ts              *)
(*   - the owner answering from the Meta app (webhook echo)                *)
(*   - the two auto-close crons of widget.service.ts, on every pod         *)
(*                                                                         *)
(* Which agent an automatic handover picks is left open here (any agent,   *)
(* or nobody).                                                             *)
(***************************************************************************)
EXTENDS Naturals, FiniteSets

CONSTANTS
    Rows,          \* slots for CustomerChats rows of this chatId
    Preexisting,   \* the row earlier turns have left with the bot, if any
    Turns,         \* visitor messages, each sent at most once
    Kinds,         \* transports in use: a subset of {"batch", "stream"}
    Desk,          \* dashboard requests, each issued at most once
    DeskOps,       \* requests the dashboard may issue
    Agents,        \* the team's agents
    Pods,          \* backend replicas: each runs both crons
    EchoTakeover,  \* META_ECHO_TAKEOVER_ENABLED, or a coexistence number
    Overlap,       \* may the client send a turn before the last is answered?
    NoRow, NoAgent

AllDeskOps == {"handover", "message", "close", "delete"}
Jobs == {"autoCloseInactiveBotChats", "autoCloseStaleHandoffChats"}

ASSUME ConstantsAssumption ==
    /\ Preexisting \subseteq Rows
    /\ \A r, s \in Preexisting : r = s
    /\ Kinds \subseteq {"batch", "stream"}
    /\ DeskOps \subseteq AllDeskOps
    /\ EchoTakeover \in BOOLEAN
    /\ Overlap \in BOOLEAN
    /\ NoRow \notin Rows
    /\ NoAgent \notin Agents

VARIABLES
    (* columns of CustomerChats *)
    status,     \* chatStatus, or "absent" for a row not created yet
    agent,      \* agentUserId
    unread,     \* agentUnreadCount
    deleted,    \* the rows with isDeleted
    idle,       \* age of updatedAt: 0, 1 (10 minutes or more), 2 (30 or more)
    (* other tables *)
    userSaved,  \* how often a turn's user message is in a row's transcript
    botSaved,   \* how often a turn's bot reply is in a row's transcript
    spoke,      \* the agents with a message in a row's transcript
    billed,     \* the turns whose tokens the subscription has recorded
    flow,       \* the conversation's PerChatFlowState of kind HANDOFF: its
                \* state and the agentUserId in its payload
    (* requests in flight *)
    turn,       \* each visitor turn: where it is, what it has read
    desk,       \* each dashboard request: where it is, what it has read
    survey,     \* the rows a satisfaction answer has found, {} if none pends
    echo,       \* the row an owner echo has found, NoRow if none pends
    scan,       \* per pod and cron: the rows found and not yet closed
    (* history, read by the properties only *)
    creator,    \* the turn that created a row
    rivals,     \* the turns about to create a row when this one was created
    before,     \* the turns in flight when a row last went to a human
    taken,      \* the rows that have ever been with a human
    assignees   \* the agents a row has ever been assigned to

rowVars == <<status, agent, unread, deleted, idle>>
savedVars == <<userSaved, botSaved>>
history == <<creator, rivals, before, taken, assignees>>
vars == <<rowVars, savedVars, spoke, billed, flow, turn, desk, survey, echo,
          scan, history>>

Statuses == {"BOT_ACTIVE", "HUMAN_ACTIVE", "CLOSED"}
TurnSteps == {"idle", "reopen", "bypass", "count", "check", "gateway",
              "raced", "create", "append", "request", "assign", "confirm",
              "promote", "done", "failed"}
TurnState == [pc : TurnSteps, kind : {"batch", "stream"},
              row : Rows \cup {NoRow}, early : BOOLEAN, handover : BOOLEAN,
              agent : Agents \cup {NoAgent}]
DeskState == [pc : {"idle", "write", "seen", "done"}, op : AllDeskOps,
              row : Rows \cup {NoRow}, agent : Agents \cup {NoAgent}]

TypeOK ==
    /\ status \in [Rows -> Statuses \cup {"absent"}]
    /\ agent \in [Rows -> Agents \cup {NoAgent}]
    /\ unread \in [Rows -> Nat]
    /\ deleted \in SUBSET Rows
    /\ idle \in [Rows -> 0..2]
    /\ userSaved \in [Rows \X Turns -> Nat]
    /\ botSaved \in [Rows \X Turns -> Nat]
    /\ spoke \in [Rows -> SUBSET Agents]
    /\ billed \in SUBSET Turns
    /\ flow \in [state : {"none", "REQUESTED", "ASSIGNED"},
                 agent : Agents \cup {NoAgent}]
    /\ turn \in [Turns -> TurnState]
    /\ desk \in [Desk -> DeskState]
    /\ survey \in SUBSET Rows
    /\ echo \in Rows \cup {NoRow}
    /\ scan \in [Pods \X Jobs -> SUBSET Rows]
    /\ creator \in [Rows -> SUBSET Turns]
    /\ rivals \in [Rows -> SUBSET Turns]
    /\ before \in [Rows -> SUBSET Turns]
    /\ taken \in SUBSET Rows
    /\ assignees \in [Rows -> SUBSET Agents]

(***************************************************************************)
(* The rows the handlers' `isDeleted: false` queries can return, and the   *)
(* turns that have begun and not ended.                                    *)
(***************************************************************************)
Live(r) == status[r] # "absent" /\ r \notin deleted

LiveRows == {r \in Rows : Live(r)}
InFlight(t) == turn[t].pc \notin {"idle", "done", "failed"}

\* A stream is answered when the gateway's is: chatStream() ends the response
\* and stores the turn afterwards.
Answered(t) ==
    \/ ~InFlight(t)
    \/ /\ turn[t].kind = "stream"
       /\ turn[t].pc \notin {"reopen", "bypass", "count", "check", "gateway"}

Init ==
    /\ status = [r \in Rows |->
                    IF r \in Preexisting THEN "BOT_ACTIVE" ELSE "absent"]
    /\ agent = [r \in Rows |-> NoAgent]
    /\ unread = [r \in Rows |-> 0]
    /\ deleted = {}
    /\ idle = [r \in Rows |-> 0]
    /\ userSaved = [p \in Rows \X Turns |-> 0]
    /\ botSaved = [p \in Rows \X Turns |-> 0]
    /\ spoke = [r \in Rows |-> {}]
    /\ billed = {}
    /\ flow = [state |-> "none", agent |-> NoAgent]
    /\ turn = [t \in Turns |-> [pc |-> "idle", kind |-> "batch", row |-> NoRow,
                                early |-> FALSE, handover |-> FALSE,
                                agent |-> NoAgent]]
    /\ desk = [d \in Desk |-> [pc |-> "idle", op |-> "close", row |-> NoRow,
                               agent |-> NoAgent]]
    /\ survey = {}
    /\ echo = NoRow
    /\ scan = [p \in Pods \X Jobs |-> {}]
    /\ creator = [r \in Rows |-> {}]
    /\ rivals = [r \in Rows |-> {}]
    /\ before = [r \in Rows |-> {}]
    /\ taken = {}
    /\ assignees = [r \in Rows |-> {}]

(***************************************************************************)
(* What several handlers do to a row.  Every update of a row bumps         *)
(* updatedAt (the column is @updatedAt), so it makes the row fresh.        *)
(***************************************************************************)
Touch(r) == idle' = [idle EXCEPT ![r] = 0]

SaveUserMessage(r, t) == userSaved' = [userSaved EXCEPT ![<<r, t>>] = @ + 1]

GoHuman(r) ==
    /\ status' = [status EXCEPT ![r] = "HUMAN_ACTIVE"]
    /\ before' = IF status[r] = "HUMAN_ACTIVE"
                 THEN before
                 ELSE [before EXCEPT ![r] = {u \in Turns : InFlight(u)}]
    /\ taken' = taken \cup {r}
    /\ Touch(r)

\* Mutation: the update forgets agentUserId.
AssignStatusOnly(r, a) == GoHuman(r) /\ UNCHANGED <<agent, assignees>>

Assign(r, a) ==
    /\ GoHuman(r)
    /\ agent' = [agent EXCEPT ![r] = a]
    /\ assignees' = [assignees EXCEPT ![r] = @ \cup {a}]

-----------------------------------------------------------------------------
(***************************************************************************)
(* A visitor turn: chat() ("batch") and chatStream() ("stream").           *)
(***************************************************************************)

\* Mutation: the bypass for chats with a human is missing.
FirstStepNoBypass(r) == IF status[r] = "CLOSED" THEN "reopen" ELSE "check"

\* Mutation: every chat that is not the bot's is reopened.
FirstStepReopensAll(r) == IF status[r] = "BOT_ACTIVE" THEN "check" ELSE "reopen"

\* What a turn does next depends on the status it has just read.
FirstStep(r) ==
    CASE status[r] = "CLOSED" -> "reopen"
      [] status[r] = "HUMAN_ACTIVE" -> "bypass"
      [] OTHER -> "check"

\* Find the conversation's row.  findFirst has no order: with several rows it
\* may return any of them.
Lookup(t) ==
    /\ turn[t].pc = "idle"
    /\ Overlap \/ \A u \in Turns : Answered(u)
    /\ \E k \in Kinds :
        \/ \E r \in LiveRows :
            turn' = [turn EXCEPT
                        ![t].kind = k, ![t].row = r, ![t].pc = FirstStep(r)]
        \/ /\ LiveRows = {}
           /\ turn' = [turn EXCEPT ![t].kind = k, ![t].pc = "check"]
    /\ UNCHANGED <<rowVars, savedVars, spoke, billed, flow, desk, survey, echo,
                   scan, history>>

\* A closed chat is reopened by id: the update does not look at the row again.
Reopen(t) ==
    /\ turn[t].pc = "reopen"
    /\ status' = [status EXCEPT ![turn[t].row] = "BOT_ACTIVE"]
    /\ Touch(turn[t].row)
    /\ turn' = [turn EXCEPT ![t].pc = "check"]
    /\ UNCHANGED <<agent, unread, deleted, savedVars, spoke, billed, flow,
                   desk, survey, echo, scan, history>>

\* The chat is with a human: save the message for the agent ...
BypassSave(t) ==
    /\ turn[t].pc = "bypass"
    /\ SaveUserMessage(turn[t].row, t)
    /\ turn' = [turn EXCEPT ![t].pc = "count"]
    /\ UNCHANGED <<rowVars, botSaved, spoke, billed, flow, desk, survey, echo,
                   scan, history>>

\* ... then count it as unread.
BypassCount(t) ==
    /\ turn[t].pc = "count"
    /\ unread' = [unread EXCEPT ![turn[t].row] = @ + 1]
    /\ Touch(turn[t].row)
    /\ turn' = [turn EXCEPT ![t].pc = "done"]
    /\ UNCHANGED <<status, agent, deleted, savedVars, spoke, billed, flow,
                   desk, survey, echo, scan, history>>

SavesEarly(t) == turn[t].kind = "batch" /\ turn[t].row # NoRow

\* Mutation: the early save counts the message as unread, as the bypass does.
CallGatewayCounting(t) ==
    /\ turn[t].pc = "check" /\ SavesEarly(t)
    /\ SaveUserMessage(turn[t].row, t)
    /\ unread' = [unread EXCEPT ![turn[t].row] = @ + 1]
    /\ Touch(turn[t].row)
    /\ turn' = [turn EXCEPT ![t].pc = "gateway", ![t].early = TRUE]
    /\ UNCHANGED <<status, agent, deleted, botSaved, spoke, billed,
                   flow, desk, survey, echo, scan, history>>

\* The token quota admits the turn.  A batch turn on a known row saves the
\* user message before it calls the gateway.
CallGateway(t) ==
    /\ turn[t].pc = "check"
    /\ IF SavesEarly(t)
       THEN /\ SaveUserMessage(turn[t].row, t)
            /\ Touch(turn[t].row)
            /\ turn' = [turn EXCEPT ![t].pc = "gateway", ![t].early = TRUE]
       ELSE /\ turn' = [turn EXCEPT ![t].pc = "gateway"]
            /\ UNCHANGED <<userSaved, idle>>
    /\ UNCHANGED <<status, agent, unread, deleted, botSaved, spoke, billed,
                   flow, desk, survey, echo, scan, history>>

\* Mutation: a turn that saved nothing early is taken for a new chat.
AfterGatewayByEarlySave(t) == IF turn[t].early THEN "append" ELSE "create"

\* A turn that found no row looks for it again before it creates one.
AfterGateway(t) == IF turn[t].row = NoRow THEN "raced" ELSE "append"

\* The gateway answers, perhaps asking for a human, and trackTokenUsage
\* commits the turn's tokens (a stream that carried none has none to commit).
\* It may then still refuse the turn (spending limit): that is TurnFails in the
\* next state.
GatewayReply(t) ==
    /\ turn[t].pc = "gateway"
    /\ billed' = billed \cup {t}
    /\ \E h \in BOOLEAN :
        turn' = [turn EXCEPT
                    ![t].handover = h, ![t].pc = AfterGateway(t)]
    /\ UNCHANGED <<rowVars, savedVars, spoke, flow, desk, survey, echo, scan,
                   history>>

\* findRacedChat: look once more for a row before creating one.
RaceCheck(t) ==
    /\ turn[t].pc = "raced"
    /\ \/ \E r \in LiveRows :
            turn' = [turn EXCEPT ![t].row = r, ![t].pc = "append"]
       \/ /\ LiveRows = {}
          /\ turn' = [turn EXCEPT ![t].pc = "create"]
    /\ UNCHANGED <<rowVars, savedVars, spoke, billed, flow, desk, survey, echo,
                   scan, history>>

AfterReply(t) == IF turn[t].handover THEN "request" ELSE "done"

\* Create the row with both messages in it.
CreateRow(t) ==
    /\ turn[t].pc = "create"
    /\ \E r \in Rows :
        /\ status[r] = "absent"
        /\ status' = [status EXCEPT ![r] = "BOT_ACTIVE"]
        /\ SaveUserMessage(r, t)
        /\ botSaved' = [botSaved EXCEPT ![<<r, t>>] = @ + 1]
        /\ Touch(r)
        /\ turn' = [turn EXCEPT ![t].row = r, ![t].pc = AfterReply(t)]
        /\ creator' = [creator EXCEPT ![r] = {t}]
        /\ rivals' = [rivals EXCEPT ![r] =
                         {u \in Turns : turn[u].pc = "create"}]
    /\ UNCHANGED <<agent, unread, deleted, spoke, billed, flow, desk, survey,
                   echo, scan, before, taken, assignees>>

\* Mutation: the user message is appended again although it was saved early.
SaveAlways(t) == SaveUserMessage(turn[t].row, t)

\* Mutation: the user message is never appended with the reply.
SaveNever(t) == UNCHANGED userSaved

SaveUnlessEarly(t) ==
    IF turn[t].early THEN UNCHANGED userSaved
                     ELSE SaveUserMessage(turn[t].row, t)

\* Append the reply, and the user message unless it was saved early.
AppendReply(t) ==
    /\ turn[t].pc = "append"
    /\ botSaved' = [botSaved EXCEPT ![<<turn[t].row, t>>] = @ + 1]
    /\ SaveUnlessEarly(t)
    /\ Touch(turn[t].row)
    /\ turn' = [turn EXCEPT ![t].pc = AfterReply(t)]
    /\ UNCHANGED <<status, agent, unread, deleted, spoke, billed, flow, desk,
                   survey, echo, scan, history>>

\* Auto-handover, first half: the HANDOFF flow is REQUESTED from any state.
RequestHandoff(t) ==
    /\ turn[t].pc = "request"
    /\ flow' = [state |-> "REQUESTED", agent |-> NoAgent]
    /\ turn' = [turn EXCEPT ![t].pc = "assign"]
    /\ UNCHANGED <<rowVars, savedVars, spoke, billed, desk, survey, echo, scan,
                   history>>

\* An assignee is found and valid: the row is his, whatever it has become.
AssignAgent(t) ==
    /\ turn[t].pc = "assign"
    /\ \E a \in Agents :
        /\ Assign(turn[t].row, a)
        /\ turn' = [turn EXCEPT ![t].pc = "confirm", ![t].agent = a]
    /\ UNCHANGED <<unread, deleted, savedVars, spoke, billed, flow, desk,
                   survey, echo, scan, creator, rivals>>

\* Nobody can take the chat: the turn ends with the flow still REQUESTED.
NobodyToAssign(t) ==
    /\ turn[t].pc = "assign"
    /\ turn' = [turn EXCEPT ![t].pc = "done"]
    /\ UNCHANGED <<rowVars, savedVars, spoke, billed, flow, desk, survey, echo,
                   scan, history>>

\* The second transition reads the flow: from any state but REQUESTED the
\* optimistic lock refuses, and safeTransition swallows the refusal ...
CheckHandoff(t) ==
    /\ turn[t].pc = "confirm"
    /\ turn' = [turn EXCEPT
                   ![t].pc = IF flow.state = "REQUESTED" THEN "promote" ELSE "done"]
    /\ UNCHANGED <<rowVars, savedVars, spoke, billed, flow, desk, survey, echo,
                   scan, history>>

\* Mutation: the payload is written without waiting for an assignee.
PromoteAnyone(t) ==
    /\ turn[t].pc = "promote"
    /\ \E a \in Agents : flow' = [state |-> "ASSIGNED", agent |-> a]
    /\ turn' = [turn EXCEPT ![t].pc = "done"]
    /\ UNCHANGED <<rowVars, savedVars, spoke, billed, desk, survey, echo, scan,
                   history>>

\* ... and then writes ASSIGNED, whatever the flow has become since.
PromoteHandoff(t) ==
    /\ turn[t].pc = "promote"
    /\ flow' = [state |-> "ASSIGNED", agent |-> turn[t].agent]
    /\ turn' = [turn EXCEPT ![t].pc = "done"]
    /\ UNCHANGED <<rowVars, savedVars, spoke, billed, desk, survey, echo, scan,
                   history>>

\* The turn ends early: the quota refuses it, the gateway is down or busy, a
\* query is rejected, the pod restarts.  What it has written stays written.
TurnFails(t) ==
    /\ InFlight(t)
    /\ turn' = [turn EXCEPT ![t].pc = "failed"]
    /\ UNCHANGED <<rowVars, savedVars, spoke, billed, flow, desk, survey, echo,
                   scan, history>>

VisitorTurn(t) ==
    \/ Lookup(t) \/ Reopen(t) \/ BypassSave(t) \/ BypassCount(t)
    \/ CallGateway(t) \/ GatewayReply(t) \/ RaceCheck(t) \/ CreateRow(t)
    \/ AppendReply(t) \/ RequestHandoff(t) \/ AssignAgent(t)
    \/ NobodyToAssign(t) \/ CheckHandoff(t) \/ PromoteHandoff(t)
    \/ TurnFails(t)

-----------------------------------------------------------------------------
(***************************************************************************)
(* The dashboard: each request reads the row, checks it, then writes.      *)
(***************************************************************************)

\* Mutation: sending checks the status but not the assignment.
DeskMayAnyone(op, r, a) ==
    CASE op = "message" -> status[r] = "HUMAN_ACTIVE"
      [] op = "close" -> agent[r] = a
      [] OTHER -> TRUE

\* What each handler checks on the row it has read.
DeskMay(op, r, a) ==
    CASE op = "message" -> agent[r] = a /\ status[r] = "HUMAN_ACTIVE"
      [] op = "close" -> agent[r] = a
      [] OTHER -> TRUE

DeskRead(d) ==
    /\ desk[d].pc = "idle"
    /\ \E op \in DeskOps, r \in LiveRows, a \in Agents :
        /\ DeskMay(op, r, a)
        /\ desk' = [desk EXCEPT
                       ![d] = [pc |-> "write", op |-> op, row |-> r, agent |-> a]]
    /\ UNCHANGED <<rowVars, savedVars, spoke, billed, flow, turn, survey, echo,
                   scan, history>>

\* handoverChat: also takes over a closed chat, or another agent's.
HandoverChat(d) ==
    /\ desk[d].pc = "write" /\ desk[d].op = "handover"
    /\ Assign(desk[d].row, desk[d].agent)
    /\ desk' = [desk EXCEPT ![d].pc = "done"]
    /\ UNCHANGED <<unread, deleted, savedVars, spoke, billed, flow, turn,
                   survey, echo, scan, creator, rivals>>

\* sendAgentMessage saves the message ...
SendAgentMessage(d) ==
    /\ desk[d].pc = "write" /\ desk[d].op = "message"
    /\ spoke' = [spoke EXCEPT ![desk[d].row] = @ \cup {desk[d].agent}]
    /\ desk' = [desk EXCEPT ![d].pc = "seen"]
    /\ UNCHANGED <<rowVars, savedVars, billed, flow, turn, survey, echo, scan,
                   history>>

\* ... then clears the unread counter.
ClearUnread(d) ==
    /\ desk[d].pc = "seen"
    /\ unread' = [unread EXCEPT ![desk[d].row] = 0]
    /\ Touch(desk[d].row)
    /\ desk' = [desk EXCEPT ![d].pc = "done"]
    /\ UNCHANGED <<status, agent, deleted, savedVars, spoke, billed, flow,
                   turn, survey, echo, scan, history>>

\* closeChat: the assigned agent ends the chat, whatever its status.
CloseChat(d) ==
    /\ desk[d].pc = "write" /\ desk[d].op = "close"
    /\ status' = [status EXCEPT ![desk[d].row] = "CLOSED"]
    /\ unread' = [unread EXCEPT ![desk[d].row] = 0]
    /\ Touch(desk[d].row)
    /\ desk' = [desk EXCEPT ![d].pc = "done"]
    /\ UNCHANGED <<agent, deleted, savedVars, spoke, billed, flow, turn,
                   survey, echo, scan, history>>

\* deleteChat: a soft delete, which leaves the status as it is.
DeleteChat(d) ==
    /\ desk[d].pc = "write" /\ desk[d].op = "delete"
    /\ deleted' = deleted \cup {desk[d].row}
    /\ Touch(desk[d].row)
    /\ desk' = [desk EXCEPT ![d].pc = "done"]
    /\ UNCHANGED <<status, agent, unread, savedVars, spoke, billed, flow, turn,
                   survey, echo, scan, history>>

\* An agent opens the conversation: the unread counter is cleared.
MarkRead(r) ==
    /\ status[r] # "absent"
    /\ unread' = [unread EXCEPT ![r] = 0]
    /\ Touch(r)
    /\ UNCHANGED <<status, agent, deleted, savedVars, spoke, billed, flow,
                   turn, desk, survey, echo, scan, history>>

DeskRequest(d) ==
    \/ DeskRead(d) \/ HandoverChat(d) \/ SendAgentMessage(d) \/ ClearUnread(d)
    \/ CloseChat(d) \/ DeleteChat(d)

-----------------------------------------------------------------------------
(***************************************************************************)
(* The satisfaction answer closes every row of the conversation.           *)
(***************************************************************************)
FeedbackRead ==
    /\ survey = {}
    /\ survey' = LiveRows
    /\ UNCHANGED <<rowVars, savedVars, spoke, billed, flow, turn, desk, echo,
                   scan, history>>

\* Close a set of rows by id, and nothing else about them.
CloseRows(S) ==
    /\ status' = [r \in Rows |-> IF r \in S THEN "CLOSED" ELSE status[r]]
    /\ idle' = [r \in Rows |-> IF r \in S THEN 0 ELSE idle[r]]
    /\ UNCHANGED <<agent, unread, deleted>>

FeedbackClose ==
    /\ survey # {}
    /\ CloseRows(survey)
    /\ survey' = {}
    /\ UNCHANGED <<savedVars, spoke, billed, flow, turn, desk, echo, scan,
                   history>>

(***************************************************************************)
(* The owner answers from the Messenger, Instagram or WhatsApp app: the    *)
(* echo goes to a chat that is not closed and makes it a human's.  Which   *)
(* one is updated last is left open, and so is whose echo it is: echoes of *)
(* our own sends end before the first action.                              *)
(***************************************************************************)
EchoRead ==
    /\ EchoTakeover
    /\ echo = NoRow
    /\ \E r \in LiveRows : status[r] # "CLOSED" /\ echo' = r
    /\ UNCHANGED <<rowVars, savedVars, spoke, billed, flow, turn, desk, survey,
                   scan, history>>

EchoTakesOver ==
    /\ echo # NoRow
    /\ GoHuman(echo)
    /\ echo' = NoRow
    /\ UNCHANGED <<agent, unread, deleted, savedVars, spoke, billed, flow,
                   turn, desk, survey, scan, creator, rivals, assignees>>

-----------------------------------------------------------------------------
(***************************************************************************)
(* The crons find the rows to close in one query and close them by id in   *)
(* the next.  Rows age while nobody updates them.                          *)
(***************************************************************************)

\* Mutation: the handoff cron does not exist.
StaleBotOnly(j) ==
    IF j = "autoCloseInactiveBotChats"
    THEN {r \in LiveRows : status[r] = "BOT_ACTIVE" /\ idle[r] >= 1}
    ELSE {}

Stale(j) ==
    IF j = "autoCloseInactiveBotChats"
    THEN {r \in LiveRows : status[r] = "BOT_ACTIVE" /\ idle[r] >= 1}
    ELSE {r \in LiveRows : status[r] = "HUMAN_ACTIVE" /\ idle[r] >= 2}

CronScan(p, j) ==
    /\ scan[<<p, j>>] = {}
    /\ Stale(j) # {}
    /\ scan' = [scan EXCEPT ![<<p, j>>] = Stale(j)]
    /\ UNCHANGED <<rowVars, savedVars, spoke, billed, flow, turn, desk, survey,
                   echo, history>>

CronClose(p, j) ==
    /\ scan[<<p, j>>] # {}
    /\ CloseRows(scan[<<p, j>>])
    /\ scan' = [scan EXCEPT ![<<p, j>>] = {}]
    /\ UNCHANGED <<savedVars, spoke, billed, flow, turn, desk, survey, echo,
                   history>>

Cron(p, j) == CronScan(p, j) \/ CronClose(p, j)

\* Mutation: the age class is not capped.
AgeWithoutEnd(r) ==
    /\ status[r] # "absent"
    /\ idle' = [idle EXCEPT ![r] = @ + 1]
    /\ UNCHANGED <<status, agent, unread, deleted, savedVars, spoke, billed,
                   flow, turn, desk, survey, echo, scan, history>>

Age(r) ==
    /\ status[r] # "absent"
    /\ idle[r] < 2
    /\ idle' = [idle EXCEPT ![r] = @ + 1]
    /\ UNCHANGED <<status, agent, unread, deleted, savedVars, spoke, billed,
                   flow, turn, desk, survey, echo, scan, history>>

Next ==
    \/ \E t \in Turns : VisitorTurn(t)
    \/ \E d \in Desk : DeskRequest(d)
    \/ \E r \in Rows : MarkRead(r) \/ Age(r)
    \/ FeedbackRead \/ FeedbackClose
    \/ EchoRead \/ EchoTakesOver
    \/ \E p \in Pods, j \in Jobs : Cron(p, j)

Spec == Init /\ [][Next]_vars

\* Time passes and the scheduler runs the crons; people need not do anything.
Fairness ==
    /\ \A r \in Rows : WF_vars(Age(r))
    /\ \A p \in Pods, j \in Jobs : WF_vars(Cron(p, j))

FairSpec == Spec /\ Fairness
-----------------------------------------------------------------------------
(***************************************************************************)
(* Safety.                                                                 *)
(***************************************************************************)

\* A visitor's message is in the transcript at most once, in one row, and a
\* turn that ends well has saved it: the early save of a batch turn, the bypass
\* and the two saves after the reply never add up to two copies, nor to none.
MessageSavedOnce ==
    \A t \in Turns :
        /\ \A r \in Rows : userSaved[<<r, t>>] <= 1
        /\ \A r, s \in Rows :
            userSaved[<<r, t>>] > 0 /\ userSaved[<<s, t>>] > 0 => r = s
        /\ turn[t].pc = "done" => \E r \in Rows : userSaved[<<r, t>>] = 1

\* A bot reply is in the transcript at most once, in the row that holds the
\* message it answers, and only for a turn whose tokens have been recorded.
ReplyAnswersBilledTurn ==
    \A r \in Rows, t \in Turns :
        botSaved[<<r, t>>] > 0 =>
            botSaved[<<r, t>>] = 1 /\ userSaved[<<r, t>>] = 1 /\ t \in billed

\* Two rows of one conversation exist side by side only when the turn that
\* created one had passed its last look for a row (findRacedChat) before the
\* other row was created: there is no other way to fork a conversation.
ForksOnlyFromRacingCreates ==
    \A r, s \in LiveRows :
        r # s => \/ creator[r] # {} /\ creator[r] \subseteq rivals[s]
                 \/ creator[s] # {} /\ creator[s] \subseteq rivals[r]

\* Without the echo takeover, a chat that is with a human is assigned to one:
\* no interleaving of reopening, closing and handing over unassigns it.
LiveChatHasAgent ==
    ~EchoTakeover =>
        \A r \in Rows : status[r] = "HUMAN_ACTIVE" => agent[r] \in assignees[r]

\* An agent's message is only in a chat that was assigned to that agent.
AgentsSpeakWhereAssigned == \A r \in Rows : spoke[r] \subseteq assignees[r]

\* Only a chat that has been with a human carries unread messages.
UnreadNeedsHuman == \A r \in Rows : unread[r] > 0 => r \in taken

\* When the HANDOFF flow says ASSIGNED, the agent it names was assigned a chat of
\* this conversation: the payload is never ahead of the row.
AssignedFlowNamesAssignee ==
    flow.state = "ASSIGNED" => \E r \in Rows : flow.agent \in assignees[r]

\* Once a chat is with a human the bot answers in it only the turns that were
\* already in flight when the human took over.
BotSilentAfterTakeover ==
    [][\A r \in Rows, t \in Turns :
          status[r] = "HUMAN_ACTIVE" /\ botSaved'[<<r, t>>] > botSaved[<<r, t>>]
            => t \in before[r]]_vars

\* A human's chat goes back to the bot only by a turn that was in flight when
\* the human took over, and that had read the chat as closed.
BackToBotOnlyByStaleReopen ==
    [][\A r \in Rows :
          status[r] = "HUMAN_ACTIVE" /\ status'[r] = "BOT_ACTIVE"
            => \E t \in before[r] : turn[t].pc = "reopen" /\ turn[t].row = r]_vars

(***************************************************************************)
(* Liveness.                                                               *)
(***************************************************************************)

\* An open chat that people eventually leave alone ends: once visitors send no
\* more turns and agents no more requests (both finite here), agents no longer
\* open it and the owner no longer answers it from the Meta app, the two crons
\* leave no status and no order of events in which it lingers.  Each of those
\* refreshes updatedAt, so a chat somebody keeps using is rightly never closed.
ChatsEnd ==
    <>[][~EchoTakesOver /\ \A r \in Rows : ~MarkRead(r)]_vars =>
        \A r \in Rows : Live(r) /\ status[r] # "CLOSED" ~> ~Live(r) \/ status[r] = "CLOSED"
=============================================================================
