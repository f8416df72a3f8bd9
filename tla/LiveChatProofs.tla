--------------------------- MODULE LiveChatProofs ---------------------------
(* Proofs of the safety properties of LiveChat, for any number of rows,
   turns, dashboard requests, agents and pods.
   
   None of the properties is inductive: each depends on what the requests
   in flight have read.  IInv adds that, in named parts. *)
EXTENDS LiveChat, TLAPS

(* Row ids held by a request are ids of rows that exist. *)
HandlesInv ==
    /\ \A t \in Turns : turn[t].row # NoRow => status[turn[t].row] # "absent"
    /\ \A d \in Desk : desk[d].row # NoRow => status[desk[d].row] # "absent"
    /\ \A r \in survey : status[r] # "absent"
    /\ echo # NoRow => status[echo] # "absent"
    /\ \A p \in Pods, j \in Jobs : \A r \in scan[<<p, j>>] : status[r] # "absent"

(* What a turn or a dashboard request knows at each of its steps. *)
KnowsRow == {"reopen", "bypass", "count", "append", "request", "assign",
             "confirm", "promote", "done"}

TurnKnows(t) ==
    /\ turn[t].pc \in KnowsRow => turn[t].row \in Rows
    /\ turn[t].pc \in {"idle", "raced", "create"} => turn[t].row = NoRow
    /\ turn[t].early =>
        /\ turn[t].row \in Rows /\ turn[t].pc \notin {"idle", "reopen", "bypass", "count", "check"}
    /\ turn[t].pc \in {"confirm", "promote"} => turn[t].agent \in Agents

DeskKnows(d) ==
    desk[d].pc \in {"write", "seen"} =>
        desk[d].row \in Rows /\ desk[d].agent \in Agents

StepsInv == (\A t \in Turns : TurnKnows(t)) /\ (\A d \in Desk : DeskKnows(d))

(* Where the user message of a turn is at each step of the turn. *)
SavedNowhere(t) == \A r \in Rows : userSaved[<<r, t>>] = 0
SavedOnlyIn(r, t) ==
    /\ userSaved[<<r, t>>] = 1
    /\ \A s \in Rows \ {r} : userSaved[<<s, t>>] = 0

NotYetSaved == {"idle", "reopen", "bypass", "check", "raced", "create"}
HasSaved == {"count", "request", "assign", "confirm", "promote", "done"}

WhereSaved(t) ==
    /\ turn[t].pc \in NotYetSaved => SavedNowhere(t)
    /\ turn[t].pc \in {"gateway", "append"} =>
        IF turn[t].early THEN SavedOnlyIn(turn[t].row, t) ELSE SavedNowhere(t)
    /\ turn[t].pc \in HasSaved => SavedOnlyIn(turn[t].row, t)
    /\ SavedNowhere(t) \/ \E r \in Rows : SavedOnlyIn(r, t)

SavedInv == \A t \in Turns : WhereSaved(t)

(* The steps before the reply is in the transcript. *)
MayAnswer == {"reopen", "check", "gateway", "raced", "create", "append"}

WhereReplied(t) ==
    /\ turn[t].pc \in MayAnswer \cup {"idle", "bypass", "count"} =>
        \A r \in Rows : botSaved[<<r, t>>] = 0
    /\ turn[t].pc \in {"raced", "create", "append"} => t \in billed

ReplyInv == (\A t \in Turns : WhereReplied(t)) /\ ReplyAnswersBilledTurn

(* A turn about to create a row has seen none, so every row there is was
   created in front of its eyes. *)
ForkInv ==
    /\ \A t \in Turns :
        turn[t].pc = "create" => \A r \in LiveRows : t \in rivals[r]
    /\ ForksOnlyFromRacingCreates

(* A turn that may still answer in a row that is with a human was already
   in flight when the human took over. *)
SilenceInv ==
    \A t \in Turns, r \in Rows :
        /\ turn[t].pc \in MayAnswer /\ status[r] = "HUMAN_ACTIVE"
        /\ turn[t].row = r \/ (turn[t].row = NoRow /\ r \notin deleted)
        => t \in before[r]

(* Whom a row has been assigned to, and who has acted on it. *)
AssignedInv ==
    /\ \A r \in Rows :
        /\ agent[r] # NoAgent => agent[r] \in assignees[r]
        /\ spoke[r] \subseteq assignees[r]
    /\ \A d \in Desk :
        desk[d].pc = "write" /\ desk[d].op = "message" =>
            desk[d].agent \in assignees[desk[d].row]
    /\ \A t \in Turns :
        turn[t].pc \in {"confirm", "promote"} =>
            turn[t].agent \in assignees[turn[t].row]
    /\ AssignedFlowNamesAssignee

TakenInv ==
    /\ \A r \in Rows :
        /\ status[r] = "HUMAN_ACTIVE" => r \in taken
        /\ unread[r] > 0 => r \in taken
    /\ \A t \in Turns : turn[t].pc \in {"bypass", "count"} => turn[t].row \in taken

HumanInv == (~EchoTakeover => echo = NoRow) /\ LiveChatHasAgent

IInv == /\ TypeOK /\ HandlesInv /\ StepsInv /\ SavedInv /\ ReplyInv
        /\ ForkInv /\ SilenceInv /\ AssignedInv /\ TakenInv /\ HumanInv
--------------------
(* The next value of a turn's record, field by field. *)
Becomes(t, pc, row, early, a) ==
    /\ turn' \in [Turns -> TurnState]
    /\ \A u \in Turns : u # t => turn'[u] = turn[u]
    /\ turn'[t].pc = pc /\ turn'[t].row = row /\ turn'[t].early = early /\ turn'[t].agent = a

Moves(t, pc) == Becomes(t, pc, turn[t].row, turn[t].early, turn[t].agent)

\* Updating pc alone.
LEMMA MovesUpdate ==
  ASSUME turn \in [Turns -> TurnState], NEW t \in Turns, NEW p \in TurnSteps,
         turn' = [turn EXCEPT ![t].pc = p]
  PROVE  Moves(t, p)
  BY DEF TurnState, Moves, Becomes

\* Updating kind, row and pc, as a lookup that finds a row does.
LEMMA LookupUpdate ==
  ASSUME turn \in [Turns -> TurnState], NEW t \in Turns, NEW p \in TurnSteps,
         NEW k \in {"batch", "stream"}, NEW r \in Rows,
         turn' = [turn EXCEPT ![t].kind = k, ![t].row = r, ![t].pc = p]
  PROVE  Becomes(t, p, r, turn[t].early, turn[t].agent)
<1>1. turn' \in [Turns -> TurnState]
 <2>1. turn[t] \in TurnState OBVIOUS
 <2>2. [turn[t] EXCEPT !.kind = k, !.row = r] \in TurnState BY <2>1 DEF TurnState
 <2>3. [[turn[t] EXCEPT !.kind = k, !.row = r] EXCEPT !.pc = p] \in TurnState BY <2>2 DEF TurnState
 <2> QED BY <2>3
<1>2. /\ \A u \in Turns : u # t => turn'[u] = turn[u]
      /\ turn'[t].pc = p /\ turn'[t].row = r
      /\ turn'[t].early = turn[t].early /\ turn'[t].agent = turn[t].agent
  BY DEF TurnState
<1> QED BY <1>1, <1>2 DEF Becomes

\* Updating kind and pc, as a lookup that finds nothing does.
LEMMA KindUpdate ==
  ASSUME turn \in [Turns -> TurnState], NEW t \in Turns, NEW p \in TurnSteps,
         NEW k \in {"batch", "stream"},
         turn' = [turn EXCEPT ![t].kind = k, ![t].pc = p]
  PROVE  Moves(t, p)
  BY DEF TurnState, Moves, Becomes

\* Updating pc and early, as the early save does.
LEMMA EarlyUpdate ==
  ASSUME turn \in [Turns -> TurnState], NEW t \in Turns, NEW p \in TurnSteps,
         turn' = [turn EXCEPT ![t].pc = p, ![t].early = TRUE]
  PROVE  Becomes(t, p, turn[t].row, TRUE, turn[t].agent)
  BY DEF TurnState, Becomes

\* Updating handover and pc, as the gateway's reply does.
LEMMA HandoverUpdate ==
  ASSUME turn \in [Turns -> TurnState], NEW t \in Turns, NEW p \in TurnSteps,
         NEW h \in BOOLEAN,
         turn' = [turn EXCEPT ![t].handover = h, ![t].pc = p]
  PROVE  Moves(t, p)
  BY DEF TurnState, Moves, Becomes

\* Updating row and pc, as the race check and the creation do.
LEMMA RowUpdate ==
  ASSUME turn \in [Turns -> TurnState], NEW t \in Turns, NEW p \in TurnSteps,
         NEW r \in Rows,
         turn' = [turn EXCEPT ![t].row = r, ![t].pc = p]
  PROVE  Becomes(t, p, r, turn[t].early, turn[t].agent)
  BY DEF TurnState, Becomes

\* Updating pc and agent, as an assignment does.
LEMMA AgentUpdate ==
  ASSUME turn \in [Turns -> TurnState], NEW t \in Turns, NEW p \in TurnSteps,
         NEW a \in Agents,
         turn' = [turn EXCEPT ![t].pc = p, ![t].agent = a]
  PROVE  Becomes(t, p, turn[t].row, turn[t].early, a)
  BY DEF TurnState, Becomes

\* What each step of a turn makes of the turn's record.
LEMMA TurnEffects ==
  ASSUME TypeOK, NEW t \in Turns
  PROVE  /\ Lookup(t) =>
              \/ \E r \in LiveRows :
                    Becomes(t, FirstStep(r), r, turn[t].early, turn[t].agent)
              \/ LiveRows = {} /\ Moves(t, "check")
         /\ Reopen(t) => Moves(t, "check")
         /\ BypassSave(t) => Moves(t, "count")
         /\ BypassCount(t) => Moves(t, "done")
         /\ CallGateway(t) =>
              IF SavesEarly(t)
              THEN Becomes(t, "gateway", turn[t].row, TRUE, turn[t].agent)
              ELSE Moves(t, "gateway")
         /\ GatewayReply(t) => Moves(t, AfterGateway(t))
         /\ RaceCheck(t) =>
              \/ \E r \in LiveRows :
                    Becomes(t, "append", r, turn[t].early, turn[t].agent)
              \/ LiveRows = {} /\ Moves(t, "create")
         /\ AppendReply(t) => Moves(t, AfterReply(t))
         /\ RequestHandoff(t) => Moves(t, "assign")
         /\ NobodyToAssign(t) => Moves(t, "done")
         /\ CheckHandoff(t) => Moves(t, "promote") \/ Moves(t, "done")
         /\ PromoteHandoff(t) => Moves(t, "done")
         /\ TurnFails(t) => Moves(t, "failed")
<1> USE DEF TurnSteps
<1>t. turn \in [Turns -> TurnState] BY DEF TypeOK
<1>k. Kinds \subseteq {"batch", "stream"} BY ConstantsAssumption
<1>r. \A r \in LiveRows : r \in Rows /\ FirstStep(r) \in TurnSteps BY DEF LiveRows, FirstStep
<1>1. Lookup(t) =>
        \/ \E r \in LiveRows :
              Becomes(t, FirstStep(r), r, turn[t].early, turn[t].agent)
        \/ LiveRows = {} /\ Moves(t, "check")
 <2> SUFFICES ASSUME Lookup(t)
              PROVE  \/ \E r \in LiveRows :
                           Becomes(t, FirstStep(r), r, turn[t].early, turn[t].agent)
                     \/ LiveRows = {} /\ Moves(t, "check")
   OBVIOUS
 <2>1. PICK k \in Kinds :
          \/ \E r \in LiveRows :
               turn' = [turn EXCEPT
                           ![t].kind = k, ![t].row = r, ![t].pc = FirstStep(r)]
          \/ /\ LiveRows = {}
             /\ turn' = [turn EXCEPT ![t].kind = k, ![t].pc = "check"]
   BY DEF Lookup
 <2>2. CASE \E r \in LiveRows :
               turn' = [turn EXCEPT
                           ![t].kind = k, ![t].row = r, ![t].pc = FirstStep(r)]
  <3>1. PICK r \in LiveRows :
           turn' = [turn EXCEPT
                       ![t].kind = k, ![t].row = r, ![t].pc = FirstStep(r)]
    BY <2>2
  <3>2. Becomes(t, FirstStep(r), r, turn[t].early, turn[t].agent) BY <1>t, <1>k, <1>r, <3>1, LookupUpdate
  <3> QED BY <3>2
 <2>3. CASE /\ LiveRows = {} /\ turn' = [turn EXCEPT ![t].kind = k, ![t].pc = "check"]
   BY <1>t, <1>k, <2>3, KindUpdate
 <2> QED BY <2>1, <2>2, <2>3
<1>2. Reopen(t) => Moves(t, "check") BY <1>t, MovesUpdate DEF Reopen
<1>3. BypassSave(t) => Moves(t, "count") BY <1>t, MovesUpdate DEF BypassSave
<1>4. BypassCount(t) => Moves(t, "done") BY <1>t, MovesUpdate DEF BypassCount
<1>5. CallGateway(t) =>
        IF SavesEarly(t)
        THEN Becomes(t, "gateway", turn[t].row, TRUE, turn[t].agent)
        ELSE Moves(t, "gateway")
  BY <1>t, MovesUpdate, EarlyUpdate DEF CallGateway
<1>6. GatewayReply(t) => Moves(t, AfterGateway(t))
 <2>1. AfterGateway(t) \in TurnSteps BY DEF AfterGateway
 <2> QED BY <1>t, <2>1, HandoverUpdate DEF GatewayReply
<1>7. RaceCheck(t) =>
        \/ \E r \in LiveRows :
              Becomes(t, "append", r, turn[t].early, turn[t].agent)
        \/ LiveRows = {} /\ Moves(t, "create")
  BY <1>t, <1>r, MovesUpdate, RowUpdate DEF RaceCheck
<1>8. AppendReply(t) => Moves(t, AfterReply(t))
 <2>1. AfterReply(t) \in TurnSteps BY DEF AfterReply
 <2> QED BY <1>t, <2>1, MovesUpdate DEF AppendReply
<1>9. RequestHandoff(t) => Moves(t, "assign") BY <1>t, MovesUpdate DEF RequestHandoff
<1>10. NobodyToAssign(t) => Moves(t, "done") BY <1>t, MovesUpdate DEF NobodyToAssign
<1>11. CheckHandoff(t) => Moves(t, "promote") \/ Moves(t, "done") BY <1>t, MovesUpdate DEF CheckHandoff
<1>12. PromoteHandoff(t) => Moves(t, "done") BY <1>t, MovesUpdate DEF PromoteHandoff
<1>13. TurnFails(t) => Moves(t, "failed") BY <1>t, MovesUpdate DEF TurnFails
<1> QED BY <1>1, <1>2, <1>3, <1>4, <1>5, <1>6, <1>7, <1>8, <1>9, <1>10, <1>11,
<1>12, <1>13

\* Creating a row, likewise, with the row and the columns that go with it.
LEMMA CreateEffect ==
  ASSUME TypeOK, NEW t \in Turns, CreateRow(t)
  PROVE  \E r \in Rows :
            /\ status[r] = "absent" /\ status' = [status EXCEPT ![r] = "BOT_ACTIVE"]
            /\ userSaved' = [userSaved EXCEPT ![<<r, t>>] = @ + 1]
            /\ botSaved' = [botSaved EXCEPT ![<<r, t>>] = @ + 1] /\ creator' = [creator EXCEPT ![r] = {t}]
            /\ rivals' = [rivals EXCEPT ![r] =
                             {u \in Turns : turn[u].pc = "create"}]
            /\ Becomes(t, AfterReply(t), r, turn[t].early, turn[t].agent)
<1>1. AfterReply(t) \in TurnSteps BY DEF AfterReply, TurnSteps
<1>2. PICK r \in Rows :
        /\ status[r] = "absent" /\ status' = [status EXCEPT ![r] = "BOT_ACTIVE"]
        /\ userSaved' = [userSaved EXCEPT ![<<r, t>>] = @ + 1]
        /\ botSaved' = [botSaved EXCEPT ![<<r, t>>] = @ + 1]
        /\ turn' = [turn EXCEPT ![t].row = r, ![t].pc = AfterReply(t)]
        /\ creator' = [creator EXCEPT ![r] = {t}]
        /\ rivals' = [rivals EXCEPT ![r] = {u \in Turns : turn[u].pc = "create"}]
  BY Zenon DEF CreateRow, SaveUserMessage
<1>3. turn \in [Turns -> TurnState] BY DEF TypeOK
<1>4. Becomes(t, AfterReply(t), r, turn[t].early, turn[t].agent) BY <1>1, <1>2, <1>3, RowUpdate
<1> QED BY <1>2, <1>4

\* Assigning an agent, likewise, with the agent.
LEMMA AssignEffect ==
  ASSUME TypeOK, NEW t \in Turns, AssignAgent(t)
  PROVE  \E a \in Agents :
            /\ Assign(turn[t].row, a) /\ Becomes(t, "confirm", turn[t].row, turn[t].early, a)
<1>1. PICK a \in Agents :
        /\ Assign(turn[t].row, a) /\ turn' = [turn EXCEPT ![t].pc = "confirm", ![t].agent = a]
  BY DEF AssignAgent
<1>2. turn \in [Turns -> TurnState] /\ "confirm" \in TurnSteps BY DEF TypeOK, TurnSteps
<1>3. Becomes(t, "confirm", turn[t].row, turn[t].early, a) BY <1>1, <1>2, AgentUpdate
<1> QED BY <1>1, <1>3

--------------------
\* Saving a message adds one copy of it to one row, and touches no other count.
LEMMA CopyUpdate ==
  ASSUME NEW f \in [Rows \X Turns -> Nat], NEW r \in Rows, NEW t \in Turns,
         NEW g, g = [f EXCEPT ![<<r, t>>] = @ + 1]
  PROVE  /\ g \in [Rows \X Turns -> Nat] /\ g[<<r, t>>] = f[<<r, t>>] + 1
         /\ \A s \in Rows, u \in Turns :
              s # r \/ u # t => g[<<s, u>>] = f[<<s, u>>]
<1>1. <<r, t>> \in Rows \X Turns OBVIOUS
<1>2. \A p \in Rows \X Turns : p # <<r, t>> => g[p] = f[p] OBVIOUS
<1>3. g \in [Rows \X Turns -> Nat] /\ g[<<r, t>>] = f[<<r, t>>] + 1 BY <1>1
<1>4. \A s \in Rows, u \in Turns : s # r \/ u # t => g[<<s, u>>] = f[<<s, u>>] BY <1>2
<1> QED BY <1>3, <1>4

--------------------
\* The next value of a dashboard request's record.
LEMMA DeskEffects ==
  ASSUME TypeOK, StepsInv, NEW d \in Desk
  PROVE  /\ DeskRead(d) =>
              \E op \in DeskOps, r \in LiveRows, a \in Agents :
                /\ DeskMay(op, r, a) /\ desk' \in [Desk -> DeskState]
                /\ \A e \in Desk : e # d => desk'[e] = desk[e]
                /\ desk'[d] = [pc |-> "write", op |-> op, row |-> r, agent |-> a]
         /\ SendAgentMessage(d) =>
                /\ desk' \in [Desk -> DeskState]
                /\ \A e \in Desk : e # d => desk'[e] = desk[e]
                /\ desk'[d].pc = "seen" /\ desk'[d].row = desk[d].row /\ desk'[d].agent = desk[d].agent
         /\ HandoverChat(d) \/ ClearUnread(d) \/ CloseChat(d) \/ DeleteChat(d) =>
                /\ desk' \in [Desk -> DeskState]
                /\ \A e \in Desk : e # d => desk'[e] = desk[e]
                /\ desk'[d].pc = "done" /\ desk'[d].row = desk[d].row /\ desk'[d].agent = desk[d].agent
<1>1. desk \in [Desk -> DeskState] BY DEF TypeOK
<1>2. DeskOps \subseteq AllDeskOps /\ LiveRows \subseteq Rows BY ConstantsAssumption DEF LiveRows
<1>3. DeskRead(d) =>
        \E op \in DeskOps, r \in LiveRows, a \in Agents :
          /\ DeskMay(op, r, a) /\ desk' \in [Desk -> DeskState]
          /\ \A e \in Desk : e # d => desk'[e] = desk[e]
          /\ desk'[d] = [pc |-> "write", op |-> op, row |-> r, agent |-> a]
 <2> SUFFICES ASSUME DeskRead(d)
              PROVE  \E op \in DeskOps, r \in LiveRows, a \in Agents :
                       /\ DeskMay(op, r, a) /\ desk' \in [Desk -> DeskState]
                       /\ \A e \in Desk : e # d => desk'[e] = desk[e]
                       /\ desk'[d] = [pc |-> "write", op |-> op, row |-> r,
                                      agent |-> a]
   OBVIOUS
 <2>1. PICK op \in DeskOps, r \in LiveRows, a \in Agents :
          /\ DeskMay(op, r, a)
          /\ desk' = [desk EXCEPT ![d] = [pc |-> "write", op |-> op, row |-> r,
                                          agent |-> a]]
   BY DEF DeskRead
 <2>2. [pc |-> "write", op |-> op, row |-> r, agent |-> a] \in DeskState BY <1>2 DEF DeskState
 <2>3. /\ desk' \in [Desk -> DeskState]
       /\ \A e \in Desk : e # d => desk'[e] = desk[e]
       /\ desk'[d] = [pc |-> "write", op |-> op, row |-> r, agent |-> a]
   BY <1>1, <2>1, <2>2
 <2> QED BY <2>1, <2>3
<1>4. SendAgentMessage(d) =>
          /\ desk' \in [Desk -> DeskState]
          /\ \A e \in Desk : e # d => desk'[e] = desk[e]
          /\ desk'[d].pc = "seen" /\ desk'[d].row = desk[d].row /\ desk'[d].agent = desk[d].agent
  BY <1>1 DEF SendAgentMessage, DeskState
<1>5. HandoverChat(d) \/ ClearUnread(d) \/ CloseChat(d) \/ DeleteChat(d) =>
          /\ desk' \in [Desk -> DeskState]
          /\ \A e \in Desk : e # d => desk'[e] = desk[e]
          /\ desk'[d].pc = "done" /\ desk'[d].row = desk[d].row /\ desk'[d].agent = desk[d].agent
 <2>1. desk' = [desk EXCEPT ![d].pc = "done"] =>
         /\ desk' \in [Desk -> DeskState]
         /\ \A e \in Desk : e # d => desk'[e] = desk[e]
         /\ desk'[d].pc = "done" /\ desk'[d].row = desk[d].row /\ desk'[d].agent = desk[d].agent
   BY <1>1 DEF DeskState
 <2> QED BY <2>1 DEF HandoverChat, ClearUnread, CloseChat, DeleteChat
<1> QED BY <1>3, <1>4, <1>5

\* Every step keeps the variables in their types.
LEMMA TypeStep == IInv /\ [Next]_vars => TypeOK'
<1> SUFFICES ASSUME IInv, [Next]_vars PROVE TypeOK' OBVIOUS
<1>a. TypeOK /\ StepsInv BY DEF IInv
<1>b. LiveRows \subseteq Rows BY DEF LiveRows
<1>c. \A t \in Turns : turn[t].pc \in KnowsRow => turn[t].row \in Rows BY <1>a DEF StepsInv, TurnKnows, DeskKnows
<1>d. \A d \in Desk :
        desk[d].pc \in {"write", "seen"} =>
            desk[d].row \in Rows /\ desk[d].agent \in Agents
  BY <1>a DEF StepsInv, TurnKnows, DeskKnows
<1>e. /\ userSaved \in [Rows \X Turns -> Nat] /\ botSaved \in [Rows \X Turns -> Nat]
      /\ idle \in [Rows -> 0..2]
  BY <1>a DEF TypeOK
<1> USE DEF rowVars, savedVars, history
<1>1. ASSUME NEW t \in Turns, Lookup(t) PROVE TypeOK'
 <2>1. turn' \in [Turns -> TurnState] BY <1>a, <1>1, TurnEffects DEF Moves, Becomes
 <2> QED BY <1>a, <1>1, <2>1 DEF TypeOK, Lookup
<1>2. ASSUME NEW t \in Turns, Reopen(t) PROVE TypeOK'
 <2>1. turn' \in [Turns -> TurnState] BY <1>a, <1>2, TurnEffects DEF Moves, Becomes
 <2>2. turn[t].row \in Rows BY <1>c, <1>2 DEF Reopen, KnowsRow
 <2> QED BY <1>a, <1>2, <2>1, <2>2 DEF TypeOK, Statuses, Reopen, Touch
<1>3. ASSUME NEW t \in Turns, BypassSave(t) PROVE TypeOK'
 <2>1. turn' \in [Turns -> TurnState] BY <1>a, <1>3, TurnEffects DEF Moves, Becomes
 <2>2. turn[t].row \in Rows BY <1>c, <1>3 DEF BypassSave, KnowsRow
 <2> QED BY <1>a, <1>3, <2>1, <2>2 DEF TypeOK, Statuses, BypassSave, SaveUserMessage
<1>4. ASSUME NEW t \in Turns, BypassCount(t) PROVE TypeOK'
 <2>1. turn' \in [Turns -> TurnState] BY <1>a, <1>4, TurnEffects DEF Moves, Becomes
 <2>2. turn[t].row \in Rows BY <1>c, <1>4 DEF BypassCount, KnowsRow
 <2> QED BY <1>a, <1>4, <2>1, <2>2 DEF TypeOK, Statuses, BypassCount, Touch
<1>5. ASSUME NEW t \in Turns, CallGateway(t) PROVE TypeOK'
 <2>1. turn' \in [Turns -> TurnState] BY <1>a, <1>5, TurnEffects DEF Moves, Becomes
 <2>2. turn[t].row \in Rows \cup {NoRow} BY <1>a DEF TypeOK, TurnState
 <2>3. userSaved' \in [Rows \X Turns -> Nat] /\ idle' \in [Rows -> 0..2]
  <3>1. CASE SavesEarly(t)
   <4>1. turn[t].row \in Rows BY <2>2, <3>1 DEF SavesEarly
   <4>2. /\ userSaved' = [userSaved EXCEPT ![<<turn[t].row, t>>] = @ + 1]
         /\ idle' = [idle EXCEPT ![turn[t].row] = 0]
     BY <1>5, <3>1 DEF CallGateway, SaveUserMessage, Touch
   <4> QED BY <1>e, <4>1, <4>2, CopyUpdate
  <3>2. CASE ~SavesEarly(t) BY <1>e, <1>5, <3>2 DEF CallGateway
  <3> QED BY <3>1, <3>2
 <2>4. UNCHANGED <<status, agent, unread, deleted, botSaved, spoke, billed,
                   flow, desk, survey, echo, scan, history>>
   BY <1>5 DEF CallGateway
 <2> QED BY <1>a, <2>1, <2>3, <2>4 DEF TypeOK
<1>6. ASSUME NEW t \in Turns, GatewayReply(t) PROVE TypeOK'
 <2>1. turn' \in [Turns -> TurnState] BY <1>a, <1>6, TurnEffects DEF Moves, Becomes
 <2> QED BY <1>a, <1>6, <2>1 DEF TypeOK, Statuses, GatewayReply
<1>7. ASSUME NEW t \in Turns, RaceCheck(t) PROVE TypeOK'
 <2>1. turn' \in [Turns -> TurnState] BY <1>a, <1>7, TurnEffects DEF Moves, Becomes
 <2> QED BY <1>a, <1>7, <2>1 DEF TypeOK, Statuses, RaceCheck
<1>8. ASSUME NEW t \in Turns, AppendReply(t) PROVE TypeOK'
 <2>1. turn' \in [Turns -> TurnState] BY <1>a, <1>8, TurnEffects DEF Moves, Becomes
 <2>2. turn[t].row \in Rows BY <1>c, <1>8 DEF AppendReply, KnowsRow
 <2>3. userSaved' \in [Rows \X Turns -> Nat]
   BY <1>e, <1>8, <2>2, CopyUpdate
   DEF AppendReply, SaveUnlessEarly, SaveUserMessage
 <2>4. botSaved' \in [Rows \X Turns -> Nat] /\ idle' \in [Rows -> 0..2]
   BY <1>e, <1>8, <2>2, CopyUpdate DEF AppendReply, Touch
 <2>5. UNCHANGED <<status, agent, unread, deleted, spoke, billed, flow, desk,
                   survey, echo, scan, history>>
   BY <1>8 DEF AppendReply
 <2> QED BY <1>a, <2>1, <2>3, <2>4, <2>5 DEF TypeOK
<1>9. ASSUME NEW t \in Turns, RequestHandoff(t) PROVE TypeOK'
 <2>1. turn' \in [Turns -> TurnState] BY <1>a, <1>9, TurnEffects DEF Moves, Becomes
 <2> QED BY <1>a, <1>9, <2>1 DEF TypeOK, Statuses, RequestHandoff
<1>10. ASSUME NEW t \in Turns, AssignAgent(t) PROVE TypeOK'
 <2>1. turn' \in [Turns -> TurnState] BY <1>a, <1>10, AssignEffect DEF Becomes
 <2>2. turn[t].row \in Rows BY <1>c, <1>10 DEF AssignAgent, KnowsRow
 <2> QED BY <1>a, <1>10, <2>1, <2>2 DEF TypeOK, Statuses, AssignAgent, Assign, GoHuman, Touch
<1>11. ASSUME NEW t \in Turns, NobodyToAssign(t) PROVE TypeOK'
 <2>1. turn' \in [Turns -> TurnState] BY <1>a, <1>11, TurnEffects DEF Moves, Becomes
 <2> QED BY <1>a, <1>11, <2>1 DEF TypeOK, Statuses, NobodyToAssign
<1>12. ASSUME NEW t \in Turns, CheckHandoff(t) PROVE TypeOK'
 <2>1. turn' \in [Turns -> TurnState] BY <1>a, <1>12, TurnEffects DEF Moves, Becomes
 <2> QED BY <1>a, <1>12, <2>1 DEF TypeOK, Statuses, CheckHandoff
<1>13. ASSUME NEW t \in Turns, PromoteHandoff(t) PROVE TypeOK'
 <2>1. turn' \in [Turns -> TurnState] BY <1>a, <1>13, TurnEffects DEF Moves, Becomes
 <2>2. flow' \in [state : {"none", "REQUESTED", "ASSIGNED"},
                 agent : Agents \cup {NoAgent}]
  <3>1. turn[t].agent \in Agents BY <1>a, <1>13 DEF PromoteHandoff, StepsInv, TurnKnows
  <3> QED BY <1>13, <3>1 DEF PromoteHandoff
 <2>3. UNCHANGED <<rowVars, savedVars, spoke, billed, desk, survey, echo, scan,
                   history>>
   BY <1>13 DEF PromoteHandoff
 <2> QED BY <1>a, <2>1, <2>2, <2>3 DEF TypeOK
<1>14. ASSUME NEW t \in Turns, TurnFails(t) PROVE TypeOK'
 <2>1. turn' \in [Turns -> TurnState] BY <1>a, <1>14, TurnEffects DEF Moves, Becomes
 <2> QED BY <1>a, <1>14, <2>1 DEF TypeOK, Statuses, TurnFails
<1>15. ASSUME NEW t \in Turns, CreateRow(t) PROVE TypeOK'
 <2>1. turn' \in [Turns -> TurnState] BY <1>a, <1>15, CreateEffect DEF Becomes
 <2> QED BY <1>a, <1>15, <2>1 DEF TypeOK, Statuses, CreateRow, SaveUserMessage, Touch
<1>16. ASSUME NEW d \in Desk, DeskRead(d) PROVE TypeOK'
 <2>1. desk' \in [Desk -> DeskState] BY <1>a, <1>16, DeskEffects
 <2> QED BY <1>a, <1>16, <2>1 DEF TypeOK, Statuses, DeskRead
<1>17. ASSUME NEW d \in Desk, HandoverChat(d) PROVE TypeOK'
 <2>1. desk' \in [Desk -> DeskState] BY <1>a, <1>17, DeskEffects
 <2>2. desk[d].row \in Rows /\ desk[d].agent \in Agents BY <1>d, <1>17 DEF HandoverChat
 <2> QED BY <1>a, <1>17, <2>1, <2>2 DEF TypeOK, Statuses, HandoverChat, Assign, GoHuman, Touch
<1>18. ASSUME NEW d \in Desk, SendAgentMessage(d) PROVE TypeOK'
 <2>1. desk' \in [Desk -> DeskState] BY <1>a, <1>18, DeskEffects
 <2>2. desk[d].row \in Rows /\ desk[d].agent \in Agents BY <1>d, <1>18 DEF SendAgentMessage
 <2> QED BY <1>a, <1>18, <2>1, <2>2 DEF TypeOK, Statuses, SendAgentMessage
<1>19. ASSUME NEW d \in Desk, ClearUnread(d) PROVE TypeOK'
 <2>1. desk' \in [Desk -> DeskState] BY <1>a, <1>19, DeskEffects
 <2>2. desk[d].row \in Rows /\ desk[d].agent \in Agents BY <1>d, <1>19 DEF ClearUnread
 <2> QED BY <1>a, <1>19, <2>1, <2>2 DEF TypeOK, Statuses, ClearUnread, Touch
<1>20. ASSUME NEW d \in Desk, CloseChat(d) PROVE TypeOK'
 <2>1. desk' \in [Desk -> DeskState] BY <1>a, <1>20, DeskEffects
 <2>2. desk[d].row \in Rows /\ desk[d].agent \in Agents BY <1>d, <1>20 DEF CloseChat
 <2> QED BY <1>a, <1>20, <2>1, <2>2 DEF TypeOK, Statuses, CloseChat, Touch
<1>21. ASSUME NEW d \in Desk, DeleteChat(d) PROVE TypeOK'
 <2>1. desk' \in [Desk -> DeskState] BY <1>a, <1>21, DeskEffects
 <2>2. desk[d].row \in Rows /\ desk[d].agent \in Agents BY <1>d, <1>21 DEF DeleteChat
 <2> QED BY <1>a, <1>21, <2>1, <2>2 DEF TypeOK, Statuses, DeleteChat, Touch
<1>22. ASSUME NEW r \in Rows, MarkRead(r) PROVE TypeOK' BY <1>a, <1>b, <1>22 DEF TypeOK, Statuses, MarkRead, Touch
<1>23. ASSUME NEW r \in Rows, Age(r) PROVE TypeOK' BY <1>a, <1>b, <1>23 DEF TypeOK, Statuses, Age
<1>24. ASSUME FeedbackRead PROVE TypeOK' BY <1>a, <1>b, <1>24 DEF TypeOK, Statuses, FeedbackRead
<1>25. ASSUME FeedbackClose PROVE TypeOK' BY <1>a, <1>b, <1>25 DEF TypeOK, Statuses, FeedbackClose, CloseRows
<1>26. ASSUME EchoRead PROVE TypeOK' BY <1>a, <1>b, <1>26 DEF TypeOK, Statuses, EchoRead
<1>27. ASSUME EchoTakesOver PROVE TypeOK' BY <1>a, <1>b, <1>27 DEF TypeOK, Statuses, EchoTakesOver, GoHuman, Touch
<1>28. ASSUME NEW p \in Pods, NEW j \in Jobs, CronScan(p, j) PROVE TypeOK'
  BY <1>a, <1>b, <1>28 DEF TypeOK, Statuses, CronScan, Stale
<1>29. ASSUME NEW p \in Pods, NEW j \in Jobs, CronClose(p, j) PROVE TypeOK'
  BY <1>a, <1>b, <1>29 DEF TypeOK, Statuses, CronClose, CloseRows
<1>30. ASSUME UNCHANGED vars PROVE TypeOK' BY <1>a, <1>b, <1>30 DEF TypeOK, Statuses, vars
<1> QED BY <1>1, <1>2, <1>3, <1>4, <1>5, <1>6, <1>7, <1>8, <1>9, <1>10,
<1>11, <1>12, <1>13, <1>14, <1>15, <1>16, <1>17, <1>18, <1>19, <1>20,
<1>21, <1>22, <1>23, <1>24, <1>25, <1>26, <1>27, <1>28, <1>29, <1>30
DEF Next, VisitorTurn, DeskRequest, Cron

--------------------
(* Frames: what the actions outside the turns leave alone, and what no
   action does to a row that is there. *)
OtherStep ==
    \/ \E d \in Desk : DeskRequest(d)
    \/ \E r \in Rows : MarkRead(r) \/ Age(r)
    \/ FeedbackRead \/ FeedbackClose
    \/ EchoRead \/ EchoTakesOver
    \/ \E p \in Pods, j \in Jobs : Cron(p, j)

\* Only a turn changes the turns, their transcripts, their bill and the
\* creation history.
LEMMA OtherFrame ==
  ASSUME OtherStep
  PROVE  UNCHANGED <<turn, userSaved, botSaved, billed, creator, rivals>>
<1> USE DEF savedVars, history
<1>1. ASSUME NEW d \in Desk, DeskRequest(d)
      PROVE  UNCHANGED <<turn, userSaved, botSaved, billed, creator, rivals>>
  BY <1>1 DEF DeskRequest, DeskRead, HandoverChat, SendAgentMessage,
              ClearUnread, CloseChat, DeleteChat
<1>2. ASSUME NEW r \in Rows, MarkRead(r) \/ Age(r)
      PROVE  UNCHANGED <<turn, userSaved, botSaved, billed, creator, rivals>>
  BY <1>2 DEF MarkRead, Age
<1>3. ASSUME FeedbackRead \/ FeedbackClose \/ EchoRead \/ EchoTakesOver
      PROVE  UNCHANGED <<turn, userSaved, botSaved, billed, creator, rivals>>
  BY <1>3 DEF FeedbackRead, FeedbackClose, EchoRead, EchoTakesOver
<1>4. ASSUME NEW p \in Pods, NEW j \in Jobs, Cron(p, j)
      PROVE  UNCHANGED <<turn, userSaved, botSaved, billed, creator, rivals>>
  BY <1>4 DEF Cron, CronScan, CronClose
<1> QED BY <1>1, <1>2, <1>3, <1>4 DEF OtherStep

\* A row that exists stays, and only CreateRow adds one.
LEMMA RowsStay ==
  ASSUME TypeOK, StepsInv, [Next]_vars
  PROVE  /\ \A r \in Rows : status[r] # "absent" => status'[r] # "absent"
         /\ deleted \subseteq deleted'
<1>1. status \in [Rows -> Statuses \cup {"absent"}] BY DEF TypeOK
<1> USE DEF rowVars, history
<1>2. ASSUME NEW t \in Turns, VisitorTurn(t)
      PROVE  /\ \A r \in Rows : status[r] # "absent" => status'[r] # "absent"
             /\ deleted \subseteq deleted'
 <2>1. CASE UNCHANGED status
   BY <1>2, <2>1
   DEF VisitorTurn, Lookup, Reopen, BypassSave, BypassCount, CallGateway,
       GatewayReply, RaceCheck, CreateRow, AppendReply, RequestHandoff,
       AssignAgent, NobodyToAssign, CheckHandoff, PromoteHandoff, TurnFails
 <2>2. CASE Reopen(t) BY <1>1, <2>2 DEF Reopen
 <2>3. CASE CreateRow(t) BY <1>1, <2>3 DEF CreateRow
 <2>4. CASE AssignAgent(t) BY <1>1, <2>4 DEF AssignAgent, Assign, GoHuman
 <2>5. Reopen(t) \/ CreateRow(t) \/ AssignAgent(t) \/ UNCHANGED status
   BY <1>2
   DEF VisitorTurn, Lookup, BypassSave, BypassCount, CallGateway,
       GatewayReply, RaceCheck, AppendReply, RequestHandoff,
       NobodyToAssign, CheckHandoff, PromoteHandoff, TurnFails
 <2> QED BY <2>1, <2>2, <2>3, <2>4, <2>5
<1>3. ASSUME NEW d \in Desk, DeskRequest(d)
      PROVE  /\ \A r \in Rows : status[r] # "absent" => status'[r] # "absent"
             /\ deleted \subseteq deleted'
  BY <1>1, <1>3
  DEF DeskRequest, DeskRead, HandoverChat, Assign, GoHuman, SendAgentMessage,
      ClearUnread, CloseChat, DeleteChat
<1>4. ASSUME NEW r \in Rows, MarkRead(r) \/ Age(r)
      PROVE  UNCHANGED <<status, deleted>>
  BY <1>4 DEF MarkRead, Age
<1>5. ASSUME FeedbackRead \/ FeedbackClose \/ EchoRead \/ EchoTakesOver
      PROVE  /\ \A r \in Rows : status[r] # "absent" => status'[r] # "absent"
             /\ deleted \subseteq deleted'
  BY <1>1, <1>5
  DEF FeedbackRead, FeedbackClose, CloseRows, EchoRead, EchoTakesOver, GoHuman
<1>6. ASSUME NEW p \in Pods, NEW j \in Jobs, Cron(p, j)
      PROVE  /\ \A r \in Rows : status[r] # "absent" => status'[r] # "absent"
             /\ deleted \subseteq deleted'
  BY <1>1, <1>6 DEF Cron, CronScan, CronClose, CloseRows
<1>7. CASE UNCHANGED vars BY <1>7 DEF vars
<1> QED BY <1>2, <1>3, <1>4, <1>5, <1>6, <1>7 DEF Next

--------------------
\* What a request knows at its next step.
LEMMA StepsStep == IInv /\ [Next]_vars => StepsInv'
<1> SUFFICES ASSUME IInv, [Next]_vars PROVE StepsInv' OBVIOUS
<1>a. TypeOK /\ StepsInv BY DEF IInv
<1>b. LiveRows \subseteq Rows /\ NoRow \notin Rows BY ConstantsAssumption DEF LiveRows
<1>c. \A t \in Turns : turn[t].row \in Rows \cup {NoRow} /\ turn[t].early \in BOOLEAN BY <1>a DEF TypeOK, TurnState
<1> USE DEF rowVars, savedVars, history
<1>1. ASSUME NEW t \in Turns, VisitorTurn(t) PROVE StepsInv'
 <2>1. UNCHANGED desk
   BY <1>1
   DEF VisitorTurn, Lookup, Reopen, BypassSave, BypassCount, CallGateway,
       GatewayReply, RaceCheck, CreateRow, AppendReply, RequestHandoff,
       AssignAgent, NobodyToAssign, CheckHandoff, PromoteHandoff, TurnFails
 <2> SUFFICES (\A u \in Turns : u # t => turn'[u] = turn[u]) /\ TurnKnows(t)'
   BY <1>a, <2>1 DEF StepsInv, TurnKnows, DeskKnows
 <2>t. TurnKnows(t) BY <1>a DEF StepsInv
 <2> USE DEF Moves, Becomes, TurnKnows, KnowsRow
 <2>2. CASE Lookup(t)
  <3>1. turn[t].pc = "idle" BY <2>2 DEF Lookup
  <3>2. CASE \E r \in LiveRows :
                Becomes(t, FirstStep(r), r, turn[t].early, turn[t].agent)
   <4>1. PICK r \in LiveRows :
            Becomes(t, FirstStep(r), r, turn[t].early, turn[t].agent)
     BY <3>2
   <4>2. FirstStep(r) \in {"reopen", "bypass", "check"} BY DEF FirstStep
   <4> QED BY <1>b, <2>t, <3>1, <4>1, <4>2
  <3>3. CASE Moves(t, "check") BY <1>b, <2>t, <3>1, <3>3
  <3> QED BY <1>a, <2>2, <3>2, <3>3, TurnEffects
 <2>3. CASE Reopen(t) BY <1>a, <1>b, <2>3, <2>t, TurnEffects DEF Reopen
 <2>4. CASE BypassSave(t) BY <1>a, <1>b, <2>4, <2>t, TurnEffects DEF BypassSave
 <2>5. CASE BypassCount(t) BY <1>a, <1>b, <2>5, <2>t, TurnEffects DEF BypassCount
 <2>6. CASE CallGateway(t) BY <1>a, <1>b, <1>c, <2>6, <2>t, TurnEffects DEF CallGateway, SavesEarly
 <2>7. CASE GatewayReply(t) BY <1>a, <1>b, <1>c, <2>7, <2>t, TurnEffects DEF GatewayReply, AfterGateway
 <2>8. CASE RaceCheck(t) BY <1>a, <1>b, <2>8, <2>t, TurnEffects DEF RaceCheck
 <2>9. CASE CreateRow(t)
  <3>1. PICK r \in Rows : Becomes(t, AfterReply(t), r, turn[t].early, turn[t].agent) BY <1>a, <2>9, CreateEffect
  <3> QED BY <1>b, <3>1 DEF AfterReply
 <2>10. CASE AppendReply(t) BY <1>a, <1>b, <2>10, <2>t, TurnEffects DEF AppendReply, AfterReply
 <2>11. CASE RequestHandoff(t) BY <1>a, <1>b, <2>11, <2>t, TurnEffects DEF RequestHandoff
 <2>12. CASE AssignAgent(t)
  <3>1. PICK a \in Agents : Becomes(t, "confirm", turn[t].row, turn[t].early, a) BY <1>a, <2>12, AssignEffect
  <3>2. turn[t].pc = "assign" BY <2>12 DEF AssignAgent
  <3> QED BY <2>t, <3>1, <3>2
 <2>13. CASE NobodyToAssign(t) BY <1>a, <1>b, <2>13, <2>t, TurnEffects DEF NobodyToAssign
 <2>14. CASE CheckHandoff(t) BY <1>a, <1>b, <2>14, <2>t, TurnEffects DEF CheckHandoff
 <2>15. CASE PromoteHandoff(t) BY <1>a, <1>b, <2>15, <2>t, TurnEffects DEF PromoteHandoff
 <2>16. CASE TurnFails(t) BY <1>a, <1>b, <2>16, <2>t, TurnEffects
 <2> QED BY <1>1, <2>2, <2>3, <2>4, <2>5, <2>6, <2>7, <2>8, <2>9, <2>10, <2>11,
 <2>12, <2>13, <2>14, <2>15, <2>16 DEF VisitorTurn
<1>2. ASSUME NEW d \in Desk, DeskRequest(d) PROVE StepsInv'
 <2>1. UNCHANGED turn BY <1>2, OtherFrame DEF OtherStep
 <2>2. (\A e \in Desk : e # d => desk'[e] = desk[e]) /\ DeskKnows(d)'
  <3>1. CASE DeskRead(d)
   <4>1. PICK op \in DeskOps, r \in LiveRows, a \in Agents :
           /\ \A e \in Desk : e # d => desk'[e] = desk[e]
           /\ desk'[d] = [pc |-> "write", op |-> op, row |-> r, agent |-> a]
     BY <1>a, <3>1, DeskEffects
   <4> QED BY <1>b, <4>1 DEF DeskKnows
  <3>2. CASE SendAgentMessage(d)
   <4>1. desk[d].row \in Rows /\ desk[d].agent \in Agents BY <1>a, <3>2 DEF SendAgentMessage, StepsInv, DeskKnows
   <4> QED BY <1>a, <3>2, <4>1, DeskEffects DEF DeskKnows
  <3>3. CASE HandoverChat(d) \/ ClearUnread(d) \/ CloseChat(d) \/ DeleteChat(d)
    BY <1>a, <3>3, DeskEffects DEF DeskKnows
  <3> QED BY <1>2, <3>1, <3>2, <3>3 DEF DeskRequest
 <2> QED BY <1>a, <2>1, <2>2 DEF StepsInv, TurnKnows, DeskKnows
<1>3. ASSUME UNCHANGED <<turn, desk>> PROVE StepsInv' BY <1>a, <1>3 DEF StepsInv, TurnKnows, DeskKnows
<1>4. ASSUME NEW r \in Rows, MarkRead(r) \/ Age(r) PROVE UNCHANGED <<turn, desk>> BY <1>4 DEF MarkRead, Age
<1>5. ASSUME FeedbackRead \/ FeedbackClose \/ EchoRead \/ EchoTakesOver
      PROVE  UNCHANGED <<turn, desk>>
  BY <1>5 DEF FeedbackRead, FeedbackClose, EchoRead, EchoTakesOver
<1>6. ASSUME NEW p \in Pods, NEW j \in Jobs, Cron(p, j) PROVE UNCHANGED <<turn, desk>>
  BY <1>6 DEF Cron, CronScan, CronClose
<1>7. CASE UNCHANGED vars BY <1>3, <1>7 DEF vars
<1> QED BY <1>1, <1>2, <1>3, <1>4, <1>5, <1>6, <1>7 DEF Next

--------------------
\* The row a turn holds after a step is one it held, one it has just seen, or
\* the one it has just created.
LEMMA TurnRow ==
  ASSUME TypeOK, NEW t \in Turns, VisitorTurn(t)
  PROVE  /\ \A u \in Turns : u # t => turn'[u] = turn[u]
         /\ \/ turn'[t].row = turn[t].row
            \/ turn'[t].row \in LiveRows
            \/ turn'[t].row \in Rows /\ status'[turn'[t].row] = "BOT_ACTIVE"
<1> USE DEF Moves, Becomes
<1>1. CASE CreateRow(t)
 <2>1. PICK r \in Rows :
          /\ status' = [status EXCEPT ![r] = "BOT_ACTIVE"]
          /\ Becomes(t, AfterReply(t), r, turn[t].early, turn[t].agent)
   BY <1>1, CreateEffect
 <2>2. status'[r] = "BOT_ACTIVE" BY <2>1 DEF TypeOK
 <2> QED BY <2>1, <2>2
<1>2. CASE AssignAgent(t) BY <1>2, AssignEffect
<1>3. CASE Lookup(t) BY <1>3, TurnEffects
<1>4. CASE RaceCheck(t) BY <1>4, TurnEffects
<1>5. CASE Reopen(t) \/ BypassSave(t) \/ BypassCount(t) BY <1>5, TurnEffects
<1>6. CASE CallGateway(t) BY <1>6, TurnEffects
<1>7. CASE GatewayReply(t) \/ AppendReply(t) \/ RequestHandoff(t) BY <1>7, TurnEffects
<1>8. CASE NobodyToAssign(t) \/ CheckHandoff(t) \/ PromoteHandoff(t) \/ TurnFails(t) BY <1>8, TurnEffects
<1> QED BY <1>1, <1>2, <1>3, <1>4, <1>5, <1>6, <1>7, <1>8 DEF VisitorTurn

\* Row ids in hand stay ids of rows that exist.
LEMMA HandlesStep == IInv /\ [Next]_vars => HandlesInv'
<1> SUFFICES ASSUME IInv, [Next]_vars PROVE HandlesInv' OBVIOUS
<1>a. TypeOK /\ HandlesInv /\ StepsInv BY DEF IInv
<1>b. \A r \in Rows : status[r] # "absent" => status'[r] # "absent" BY <1>a, RowsStay
<1>c. /\ \A t \in Turns : turn[t].row \in Rows \cup {NoRow}
      /\ \A d \in Desk : desk[d].row \in Rows \cup {NoRow}
      /\ survey \subseteq Rows /\ echo \in Rows \cup {NoRow}
      /\ \A p \in Pods, j \in Jobs : scan[<<p, j>>] \subseteq Rows
  BY <1>a DEF TypeOK, TurnState, DeskState
<1>d. \A r \in LiveRows : r \in Rows /\ status'[r] # "absent" BY <1>b DEF LiveRows, Live
<1> USE DEF rowVars, savedVars, history
<1>1. ASSUME NEW t \in Turns, VisitorTurn(t) PROVE HandlesInv'
 <2>1. UNCHANGED <<desk, survey, echo, scan>>
   BY <1>1
   DEF VisitorTurn, Lookup, Reopen, BypassSave, BypassCount, CallGateway,
       GatewayReply, RaceCheck, CreateRow, AppendReply, RequestHandoff,
       AssignAgent, NobodyToAssign, CheckHandoff, PromoteHandoff, TurnFails
 <2>2. \A u \in Turns : turn'[u].row # NoRow => status'[turn'[u].row] # "absent"
   BY <1>1, <1>a, <1>b, <1>c, <1>d, TurnRow DEF HandlesInv
 <2> QED BY <1>a, <1>b, <1>c, <2>1, <2>2 DEF HandlesInv
<1>2. ASSUME NEW d \in Desk, DeskRequest(d) PROVE HandlesInv'
 <2>1. UNCHANGED turn BY <1>2, OtherFrame DEF OtherStep
 <2>2. UNCHANGED <<survey, echo, scan>>
   BY <1>2 DEF DeskRequest, DeskRead, HandoverChat, SendAgentMessage,
               ClearUnread, CloseChat, DeleteChat
 <2>3. /\ \A e \in Desk : e # d => desk'[e] = desk[e]
       /\ desk'[d].row = desk[d].row \/ desk'[d].row \in LiveRows
  <3>1. CASE DeskRead(d)
   <4>1. PICK op \in DeskOps, r \in LiveRows, a \in Agents :
           /\ \A e \in Desk : e # d => desk'[e] = desk[e]
           /\ desk'[d] = [pc |-> "write", op |-> op, row |-> r, agent |-> a]
     BY <1>a, <3>1, DeskEffects
   <4> QED BY <4>1
  <3>2. CASE ~DeskRead(d) BY <1>2, <1>a, <3>2, DeskEffects DEF DeskRequest
  <3> QED BY <3>1, <3>2
 <2>4. \A e \in Desk : desk'[e].row # NoRow => status'[desk'[e].row] # "absent"
   BY <1>a, <1>b, <1>c, <1>d, <2>3 DEF HandlesInv
 <2> QED BY <1>a, <1>b, <1>c, <2>1, <2>2, <2>4 DEF HandlesInv
<1>3. ASSUME NEW r \in Rows, MarkRead(r) \/ Age(r) PROVE HandlesInv'
 <2>1. UNCHANGED <<turn, desk, survey, echo, scan>> BY <1>3 DEF MarkRead, Age
 <2> QED BY <1>a, <1>b, <1>c, <2>1 DEF HandlesInv
<1>4. ASSUME FeedbackRead \/ FeedbackClose PROVE HandlesInv'
 <2>1. /\ UNCHANGED <<turn, desk, echo, scan>>
       /\ survey' = LiveRows \/ survey' = {}
   BY <1>4 DEF FeedbackRead, FeedbackClose
 <2> QED BY <1>a, <1>b, <1>c, <1>d, <2>1 DEF HandlesInv
<1>5. ASSUME EchoRead \/ EchoTakesOver PROVE HandlesInv'
 <2>1. /\ UNCHANGED <<turn, desk, survey, scan>>
       /\ echo' \in LiveRows \/ echo' = NoRow
   BY <1>5 DEF EchoRead, EchoTakesOver
 <2> QED BY <1>a, <1>b, <1>c, <1>d, <2>1 DEF HandlesInv
<1>6. ASSUME NEW p \in Pods, NEW j \in Jobs, Cron(p, j) PROVE HandlesInv'
 <2>1. UNCHANGED <<turn, desk, survey, echo>> BY <1>6 DEF Cron, CronScan, CronClose
 <2>2. \E S \in SUBSET LiveRows : scan' = [scan EXCEPT ![<<p, j>>] = S] BY <1>6 DEF Cron, CronScan, CronClose, Stale
 <2>3. \A q \in Pods, k \in Jobs :
         scan'[<<q, k>>] = scan[<<q, k>>] \/ scan'[<<q, k>>] \subseteq LiveRows
   BY <1>a, <2>2 DEF TypeOK
 <2> QED BY <1>a, <1>b, <1>c, <1>d, <2>1, <2>3 DEF HandlesInv
<1>7. CASE UNCHANGED vars BY <1>a, <1>7 DEF vars, HandlesInv
<1> QED BY <1>1, <1>2, <1>3, <1>4, <1>5, <1>6, <1>7 DEF Next

--------------------
\* The first copy of a message is its only one.
LEMMA FirstCopy ==
  ASSUME TypeOK, NEW r \in Rows, NEW t \in Turns, SavedNowhere(t),
         userSaved' = [userSaved EXCEPT ![<<r, t>>] = @ + 1]
  PROVE  SavedOnlyIn(r, t)' 
<1>1. userSaved \in [Rows \X Turns -> Nat] BY DEF TypeOK
<1>2. /\ userSaved'[<<r, t>>] = userSaved[<<r, t>>] + 1
      /\ \A s \in Rows, u \in Turns :
            s # r \/ u # t => userSaved'[<<s, u>>] = userSaved[<<s, u>>]
  BY <1>1, CopyUpdate
<1> QED BY <1>2 DEF SavedNowhere, SavedOnlyIn

\* A turn saves its own message only, and one copy at a time.
LEMMA OwnCopies ==
  ASSUME TypeOK, StepsInv, NEW t \in Turns, VisitorTurn(t)
  PROVE  \A u \in Turns : u # t =>
            \A r \in Rows : /\ userSaved'[<<r, u>>] = userSaved[<<r, u>>]
                            /\ botSaved'[<<r, u>>] = botSaved[<<r, u>>]
<1> DEFINE Untouched(f, g) ==
             \A u \in Turns : u # t => \A r \in Rows : g[<<r, u>>] = f[<<r, u>>]
<1>1. /\ userSaved \in [Rows \X Turns -> Nat] /\ botSaved \in [Rows \X Turns -> Nat]
      /\ turn[t].row \in Rows \cup {NoRow}
  BY DEF TypeOK, TurnState
<1>2. ASSUME NEW r \in Rows, userSaved' = [userSaved EXCEPT ![<<r, t>>] = @ + 1]
      PROVE  Untouched(userSaved, userSaved')
  BY <1>1, <1>2, CopyUpdate
<1>3. ASSUME NEW r \in Rows, botSaved' = [botSaved EXCEPT ![<<r, t>>] = @ + 1]
      PROVE  Untouched(botSaved, botSaved')
  BY <1>1, <1>3, CopyUpdate
<1> USE DEF savedVars
<1>4. CASE BypassSave(t)
 <2>1. turn[t].row \in Rows BY <1>4 DEF BypassSave, StepsInv, TurnKnows, KnowsRow
 <2> QED BY <1>2, <1>4, <2>1 DEF BypassSave, SaveUserMessage
<1>5. CASE CallGateway(t)
 <2>1. CASE SavesEarly(t)
  <3>1. turn[t].row \in Rows BY <1>1, <2>1 DEF SavesEarly
  <3> QED BY <1>2, <1>5, <2>1, <3>1 DEF CallGateway, SaveUserMessage
 <2>2. CASE ~SavesEarly(t) BY <1>5, <2>2 DEF CallGateway
 <2> QED BY <2>1, <2>2
<1>6. CASE CreateRow(t)
 <2>1. PICK r \in Rows : /\ userSaved' = [userSaved EXCEPT ![<<r, t>>] = @ + 1]
                         /\ botSaved' = [botSaved EXCEPT ![<<r, t>>] = @ + 1]
   BY <1>6, CreateEffect
 <2> QED BY <1>2, <1>3, <2>1
<1>7. CASE AppendReply(t)
 <2>1. turn[t].row \in Rows BY <1>7 DEF AppendReply, StepsInv, TurnKnows, KnowsRow
 <2>2. Untouched(userSaved, userSaved') BY <1>2, <1>7, <2>1 DEF AppendReply, SaveUnlessEarly, SaveUserMessage
 <2>3. Untouched(botSaved, botSaved') BY <1>3, <1>7, <2>1 DEF AppendReply
 <2> QED BY <2>2, <2>3
<1>8. CASE UNCHANGED savedVars BY <1>8
<1> QED
  BY <1>4, <1>5, <1>6, <1>7, <1>8
  DEF VisitorTurn, Lookup, Reopen, BypassCount, GatewayReply, RaceCheck,
      RequestHandoff, AssignAgent, NobodyToAssign, CheckHandoff,
      PromoteHandoff, TurnFails

\* Where the user message of each turn is after a step.
LEMMA SavedStep == IInv /\ [Next]_vars => SavedInv'
<1> SUFFICES ASSUME IInv, [Next]_vars PROVE SavedInv' OBVIOUS
<1>a. TypeOK /\ StepsInv /\ SavedInv BY DEF IInv
<1>b. LiveRows \subseteq Rows /\ NoRow \notin Rows BY ConstantsAssumption DEF LiveRows
<1> USE DEF savedVars
<1>1. ASSUME NEW t \in Turns, VisitorTurn(t) PROVE SavedInv'
 <2>1. \A u \in Turns : u # t => WhereSaved(u)'
  <3> SUFFICES ASSUME NEW u \in Turns, u # t PROVE WhereSaved(u)' OBVIOUS
  <3>1. turn'[u] = turn[u] /\ WhereSaved(u) /\ TurnKnows(u) BY <1>1, <1>a, TurnRow DEF SavedInv, StepsInv
  <3>2. \A r \in Rows : userSaved'[<<r, u>>] = userSaved[<<r, u>>] BY <1>1, <1>a, OwnCopies
  <3>3. /\ SavedNowhere(u)' = SavedNowhere(u)
        /\ \A r \in Rows : SavedOnlyIn(r, u)' = SavedOnlyIn(r, u)
    BY <3>2 DEF SavedNowhere, SavedOnlyIn
  <3>4. turn[u].pc \in HasSaved \/ turn[u].early => turn[u].row \in Rows BY <3>1 DEF TurnKnows, HasSaved, KnowsRow
  <3> QED BY <3>1, <3>3, <3>4 DEF WhereSaved
 <2> SUFFICES WhereSaved(t)' BY <2>1 DEF SavedInv
 <2>k. TurnKnows(t) BY <1>a DEF StepsInv
 <2>w. WhereSaved(t) BY <1>a DEF SavedInv
 <2>t. turn[t].row \in Rows \cup {NoRow} /\ turn[t].early \in BOOLEAN BY <1>a DEF TypeOK, TurnState
 <2>u. UNCHANGED userSaved => /\ SavedNowhere(t)' = SavedNowhere(t)
                              /\ \A r : SavedOnlyIn(r, t)' = SavedOnlyIn(r, t)
   BY DEF SavedNowhere, SavedOnlyIn
 <2> USE DEF Moves, Becomes, WhereSaved, NotYetSaved, HasSaved
 <2>2. CASE Lookup(t)
  <3>1. turn[t].pc = "idle" /\ UNCHANGED userSaved BY <2>2 DEF Lookup
  <3>2. turn'[t].pc \in {"reopen", "bypass", "check"} BY <1>a, <2>2, TurnEffects DEF FirstStep
  <3> QED BY <2>u, <2>w, <3>1, <3>2
 <2>3. CASE Reopen(t) BY <1>a, <2>3, <2>u, <2>w, TurnEffects DEF Reopen
 <2>4. CASE BypassSave(t)
  <3>1. turn[t].row \in Rows /\ SavedNowhere(t) BY <2>4, <2>k, <2>w DEF BypassSave, TurnKnows, KnowsRow
  <3>2. SavedOnlyIn(turn[t].row, t)' BY <1>a, <2>4, <3>1, FirstCopy, TurnEffects DEF BypassSave, SaveUserMessage
  <3> QED BY <1>a, <2>4, <3>1, <3>2, TurnEffects
 <2>5. CASE BypassCount(t) BY <1>a, <2>5, <2>u, <2>w, TurnEffects DEF BypassCount
 <2>6. CASE CallGateway(t)
  <3>1. turn[t].pc = "check" /\ SavedNowhere(t) /\ ~turn[t].early BY <2>6, <2>k, <2>w, <2>t DEF CallGateway, TurnKnows
  <3>2. CASE SavesEarly(t)
   <4>1. turn[t].row \in Rows BY <2>t, <3>2 DEF SavesEarly
   <4>2. SavedOnlyIn(turn[t].row, t)'
    <5>1. userSaved' = [userSaved EXCEPT ![<<turn[t].row, t>>] = @ + 1] BY <2>6, <3>2 DEF CallGateway, SaveUserMessage
    <5>2. turn'[t].row = turn[t].row BY <1>a, <2>6, <3>2, TurnEffects
    <5> QED BY <1>a, <3>1, <4>1, <5>1, <5>2, FirstCopy
   <4>3. Becomes(t, "gateway", turn[t].row, TRUE, turn[t].agent) BY <1>a, <2>6, <3>2, TurnEffects
   <4> QED BY <4>1, <4>2, <4>3
  <3>3. CASE ~SavesEarly(t)
   <4>1. Moves(t, "gateway") /\ UNCHANGED userSaved BY <1>a, <2>6, <3>3, TurnEffects DEF CallGateway
   <4> QED BY <2>u, <3>1, <4>1
  <3> QED BY <3>2, <3>3
 <2>7. CASE GatewayReply(t)
  <3>1. turn[t].pc = "gateway" /\ UNCHANGED userSaved BY <2>7 DEF GatewayReply
  <3>2. Moves(t, AfterGateway(t)) BY <1>a, <2>7, TurnEffects
  <3> QED BY <1>b, <2>k, <2>t, <2>u, <2>w, <3>1, <3>2 DEF AfterGateway, TurnKnows
 <2>8. CASE RaceCheck(t)
  <3>1. turn[t].pc = "raced" /\ UNCHANGED userSaved BY <2>8 DEF RaceCheck
  <3>2. ~turn[t].early BY <1>b, <2>k, <2>t, <3>1 DEF TurnKnows
  <3>3. turn'[t].pc \in {"append", "create"} /\ turn'[t].early = turn[t].early BY <1>a, <2>8, TurnEffects
  <3> QED BY <2>u, <2>w, <3>1, <3>2, <3>3
 <2>9. CASE CreateRow(t)
  <3>1. PICK r \in Rows :
           /\ userSaved' = [userSaved EXCEPT ![<<r, t>>] = @ + 1]
           /\ Becomes(t, AfterReply(t), r, turn[t].early, turn[t].agent)
    BY <1>a, <2>9, CreateEffect
  <3>2. SavedOnlyIn(r, t)' BY <1>a, <2>9, <2>w, <3>1, FirstCopy DEF CreateRow
  <3> QED BY <3>1, <3>2 DEF AfterReply
 <2>10. CASE AppendReply(t)
  <3>1. turn[t].pc = "append" /\ turn[t].row \in Rows BY <2>10, <2>k DEF AppendReply, TurnKnows, KnowsRow
  <3>2. SavedOnlyIn(turn[t].row, t)'
   <4>1. CASE turn[t].early BY <2>10, <2>u, <2>w, <3>1, <4>1 DEF AppendReply, SaveUnlessEarly
   <4>2. CASE ~turn[t].early
     BY <1>a, <2>10, <2>w, <3>1, <4>2, FirstCopy
     DEF AppendReply, SaveUnlessEarly, SaveUserMessage
   <4> QED BY <4>1, <4>2
  <3>3. Moves(t, AfterReply(t)) BY <1>a, <2>10, TurnEffects
  <3> QED BY <3>1, <3>2, <3>3 DEF AfterReply
 <2>11. CASE RequestHandoff(t) \/ NobodyToAssign(t) \/ CheckHandoff(t) \/ PromoteHandoff(t)
  <3>1. turn[t].pc \in HasSaved /\ UNCHANGED userSaved
    BY <2>11 DEF RequestHandoff, NobodyToAssign, CheckHandoff, PromoteHandoff
  <3>2. turn'[t].pc \in HasSaved /\ turn'[t].row = turn[t].row BY <1>a, <2>11, TurnEffects
  <3> QED BY <2>u, <2>w, <3>1, <3>2
 <2>12. CASE AssignAgent(t)
  <3>1. turn[t].pc = "assign" /\ UNCHANGED userSaved BY <2>12 DEF AssignAgent
  <3>2. turn'[t].pc = "confirm" /\ turn'[t].row = turn[t].row BY <1>a, <2>12, AssignEffect
  <3> QED BY <2>u, <2>w, <3>1, <3>2
 <2>13. CASE TurnFails(t)
  <3>1. turn'[t].pc = "failed" /\ UNCHANGED userSaved BY <1>a, <2>13, TurnEffects DEF TurnFails
  <3> QED BY <2>u, <2>w, <3>1
 <2> QED BY <1>1, <2>2, <2>3, <2>4, <2>5, <2>6, <2>7, <2>8, <2>9, <2>10, <2>11,
 <2>12, <2>13 DEF VisitorTurn
<1>2. ASSUME UNCHANGED <<turn, userSaved>> PROVE SavedInv'
  BY <1>a, <1>2 DEF SavedInv, WhereSaved, SavedNowhere, SavedOnlyIn
<1>3. CASE UNCHANGED vars BY <1>2, <1>3 DEF vars
<1> QED BY <1>1, <1>2, <1>3, OtherFrame DEF Next, OtherStep

--------------------
\* Where the reply of each turn is after a step, next to its message.
LEMMA ReplyStep == IInv /\ [Next]_vars => ReplyInv'
<1> SUFFICES ASSUME IInv, [Next]_vars PROVE ReplyInv' OBVIOUS
<1> DEFINE Answers(t) == \A r \in Rows :
             botSaved[<<r, t>>] > 0 =>
                botSaved[<<r, t>>] = 1 /\ userSaved[<<r, t>>] = 1 /\ t \in billed
<1>a. TypeOK /\ StepsInv /\ ReplyInv BY DEF IInv
<1>b. SavedInv' BY SavedStep
<1> USE DEF savedVars
<1>1. ASSUME NEW t \in Turns, VisitorTurn(t) PROVE ReplyInv'
 <2>w. WhereReplied(t) /\ Answers(t) BY <1>a DEF ReplyInv, ReplyAnswersBilledTurn
 <2>b. billed \subseteq billed'
   BY <1>1
   DEF VisitorTurn, Lookup, Reopen, BypassSave, BypassCount, CallGateway,
       GatewayReply, RaceCheck, CreateRow, AppendReply, RequestHandoff,
       AssignAgent, NobodyToAssign, CheckHandoff, PromoteHandoff, TurnFails
 <2>1. ASSUME NEW u \in Turns, u # t PROVE WhereReplied(u)' /\ Answers(u)'
  <3>1. turn'[u] = turn[u] /\ WhereReplied(u) /\ Answers(u)
    BY <1>1, <1>a, <2>1, TurnRow DEF ReplyInv, ReplyAnswersBilledTurn
  <3>2. \A r \in Rows : /\ userSaved'[<<r, u>>] = userSaved[<<r, u>>]
                        /\ botSaved'[<<r, u>>] = botSaved[<<r, u>>]
    BY <1>1, <1>a, <2>1, OwnCopies
  <3> QED BY <2>b, <3>1, <3>2 DEF WhereReplied
 <2> SUFFICES WhereReplied(t)' /\ Answers(t)' BY <2>1 DEF ReplyInv, ReplyAnswersBilledTurn
 <2> USE DEF Moves, Becomes, MayAnswer
 <2>2. ASSUME UNCHANGED <<botSaved, billed>>,
              turn[t].pc \in MayAnswer \cup {"idle", "bypass", "count"},
              turn'[t].pc \in {"append", "raced", "create"} =>
                 turn[t].pc \in {"raced", "create", "append"}
       PROVE  WhereReplied(t)' /\ Answers(t)'
   BY <2>2, <2>w DEF WhereReplied
 <2>3. ASSUME UNCHANGED <<userSaved, botSaved, billed>>,
              turn'[t].pc \in {"request", "assign", "confirm", "promote", "done",
                               "failed"}
       PROVE  WhereReplied(t)' /\ Answers(t)'
   BY <2>3, <2>w DEF WhereReplied
 <2>4. CASE Lookup(t)
  <3>1. turn'[t].pc \in {"reopen", "bypass", "check"} BY <1>a, <2>4, TurnEffects DEF FirstStep
  <3> QED BY <2>2, <2>4, <3>1 DEF Lookup
 <2>5. CASE Reopen(t) \/ BypassSave(t)
  <3>1. turn'[t].pc \in {"check", "count"} BY <1>a, <2>5, TurnEffects
  <3> QED BY <2>2, <2>5, <3>1 DEF Reopen, BypassSave
 <2>6. CASE BypassCount(t) \/ TurnFails(t)
  <3>1. turn'[t].pc \in {"done", "failed"} BY <1>a, <2>6, TurnEffects
  <3> QED BY <2>3, <2>6, <3>1 DEF BypassCount, TurnFails
 <2>7. CASE CallGateway(t)
  <3>1. turn'[t].pc = "gateway" BY <1>a, <2>7, TurnEffects
  <3> QED BY <2>2, <2>7, <3>1 DEF CallGateway
 <2>8. CASE GatewayReply(t) BY <2>8, <2>w DEF GatewayReply, WhereReplied
 <2>9. CASE RaceCheck(t) BY <2>2, <2>9 DEF RaceCheck
 <2>10. CASE CreateRow(t)
  <3>1. PICK r \in Rows :
           /\ botSaved' = [botSaved EXCEPT ![<<r, t>>] = @ + 1]
           /\ Becomes(t, AfterReply(t), r, turn[t].early, turn[t].agent)
    BY <1>a, <2>10, CreateEffect
  <3>2. turn'[t].pc \in {"request", "done"} /\ turn'[t].row = r BY <3>1 DEF AfterReply
  <3>3. userSaved'[<<r, t>>] = 1 BY <1>b, <3>2 DEF SavedInv, WhereSaved, SavedOnlyIn, HasSaved
  <3>4. t \in billed' /\ \A s \in Rows : botSaved[<<s, t>>] = 0 BY <2>b, <2>10, <2>w DEF CreateRow, WhereReplied
  <3>5. botSaved \in [Rows \X Turns -> Nat] BY <1>a DEF TypeOK
  <3>6. botSaved'[<<r, t>>] = 1 /\ \A s \in Rows : s # r => botSaved'[<<s, t>>] = 0 BY <3>1, <3>4, <3>5, CopyUpdate
  <3> QED BY <3>2, <3>3, <3>4, <3>6 DEF WhereReplied
 <2>11. CASE AppendReply(t)
  <3>1. turn[t].row \in Rows BY <1>a, <2>11 DEF AppendReply, StepsInv, TurnKnows, KnowsRow
  <3>2. turn'[t].pc \in {"request", "done"} /\ turn'[t].row = turn[t].row BY <1>a, <2>11, TurnEffects DEF AfterReply
  <3>3. userSaved'[<<turn[t].row, t>>] = 1 BY <1>b, <3>2 DEF SavedInv, WhereSaved, SavedOnlyIn, HasSaved
  <3>4. t \in billed' /\ \A s \in Rows : botSaved[<<s, t>>] = 0 BY <2>b, <2>11, <2>w DEF AppendReply, WhereReplied
  <3>5. /\ botSaved \in [Rows \X Turns -> Nat] /\ botSaved' = [botSaved EXCEPT ![<<turn[t].row, t>>] = @ + 1]
    BY <1>a, <2>11 DEF TypeOK, AppendReply
  <3>6. /\ botSaved'[<<turn[t].row, t>>] = 1
        /\ \A s \in Rows : s # turn[t].row => botSaved'[<<s, t>>] = 0
    BY <3>1, <3>4, <3>5, CopyUpdate
  <3> QED BY <3>2, <3>3, <3>4, <3>6 DEF WhereReplied
 <2>12. CASE RequestHandoff(t) \/ NobodyToAssign(t) \/ CheckHandoff(t) \/ PromoteHandoff(t)
  <3>1. turn'[t].pc \in {"assign", "promote", "done"} BY <1>a, <2>12, TurnEffects
  <3> QED
    BY <2>3, <2>12, <3>1
    DEF RequestHandoff, NobodyToAssign, CheckHandoff, PromoteHandoff
 <2>13. CASE AssignAgent(t)
  <3>1. turn'[t].pc = "confirm" BY <1>a, <2>13, AssignEffect
  <3> QED BY <2>3, <2>13, <3>1 DEF AssignAgent
 <2> QED
   BY <1>1, <2>4, <2>5, <2>6, <2>7, <2>8, <2>9, <2>10, <2>11, <2>12, <2>13
   DEF VisitorTurn
<1>2. ASSUME UNCHANGED <<turn, userSaved, botSaved, billed>> PROVE ReplyInv'
  BY <1>a, <1>2 DEF ReplyInv, WhereReplied, ReplyAnswersBilledTurn
<1>3. CASE UNCHANGED vars BY <1>2, <1>3 DEF vars
<1> QED BY <1>1, <1>2, <1>3, OtherFrame DEF Next, OtherStep

--------------------
\* Only CreateRow brings a row into existence.
LEMMA OnlyCreateRowAdds ==
  ASSUME IInv, [Next]_vars
  PROVE  \/ \E t \in Turns : CreateRow(t)
         \/ \A r \in Rows : status'[r] # "absent" => status[r] # "absent"
<1>a. TypeOK /\ HandlesInv /\ StepsInv BY DEF IInv
<1>b. status \in [Rows -> Statuses \cup {"absent"}] /\ NoRow \notin Rows BY <1>a, ConstantsAssumption DEF TypeOK
<1> DEFINE NoNew == \A r \in Rows : status'[r] # "absent" => status[r] # "absent"
<1> USE DEF rowVars
<1>1. ASSUME NEW t \in Turns, VisitorTurn(t), ~CreateRow(t) PROVE NoNew
 <2>1. CASE Reopen(t)
  <3>1. turn[t].row \in Rows BY <1>a, <2>1 DEF Reopen, StepsInv, TurnKnows, KnowsRow
  <3>2. status[turn[t].row] # "absent" BY <1>a, <1>b, <3>1 DEF HandlesInv
  <3> QED BY <1>b, <2>1, <3>1, <3>2 DEF Reopen
 <2>2. CASE AssignAgent(t)
  <3>1. turn[t].row \in Rows BY <1>a, <2>2 DEF AssignAgent, StepsInv, TurnKnows, KnowsRow
  <3>2. status[turn[t].row] # "absent" BY <1>a, <1>b, <3>1 DEF HandlesInv
  <3> QED BY <1>b, <2>2, <3>1, <3>2 DEF AssignAgent, Assign, GoHuman
 <2>3. Reopen(t) \/ AssignAgent(t) \/ UNCHANGED status
   BY <1>1
   DEF VisitorTurn, Lookup, BypassSave, BypassCount, CallGateway,
       GatewayReply, RaceCheck, AppendReply, RequestHandoff,
       NobodyToAssign, CheckHandoff, PromoteHandoff, TurnFails
 <2> QED BY <2>1, <2>2, <2>3
<1>2. ASSUME NEW d \in Desk, DeskRequest(d) PROVE NoNew
 <2>1. CASE HandoverChat(d) \/ CloseChat(d)
  <3>1. desk[d].row \in Rows BY <1>a, <2>1 DEF HandoverChat, CloseChat, StepsInv, DeskKnows
  <3>2. status[desk[d].row] # "absent" BY <1>a, <1>b, <3>1 DEF HandlesInv
  <3> QED BY <1>b, <2>1, <3>1, <3>2 DEF HandoverChat, Assign, GoHuman, CloseChat
 <2>2. HandoverChat(d) \/ CloseChat(d) \/ UNCHANGED status
   BY <1>2 DEF DeskRequest, DeskRead, SendAgentMessage, ClearUnread, DeleteChat
 <2> QED BY <2>1, <2>2
<1>3. ASSUME NEW r \in Rows, MarkRead(r) \/ Age(r) PROVE NoNew BY <1>3 DEF MarkRead, Age
<1>4. ASSUME FeedbackRead \/ FeedbackClose \/ EchoRead \/ EchoTakesOver PROVE NoNew
  BY <1>a, <1>b, <1>4
  DEF HandlesInv, FeedbackRead, FeedbackClose, CloseRows, EchoRead,
      EchoTakesOver, GoHuman
<1>5. ASSUME NEW p \in Pods, NEW j \in Jobs, Cron(p, j) PROVE NoNew
  BY <1>a, <1>b, <1>5 DEF HandlesInv, Cron, CronScan, CronClose, CloseRows
<1>6. CASE UNCHANGED vars BY <1>6 DEF vars
<1> QED BY <1>1, <1>2, <1>3, <1>4, <1>5, <1>6 DEF Next

\* Forks come from racing creates, after a step.
LEMMA ForkStep == IInv /\ [Next]_vars => ForkInv'
<1> SUFFICES ASSUME IInv, [Next]_vars PROVE ForkInv' OBVIOUS
<1>a. TypeOK /\ StepsInv /\ ForkInv BY DEF IInv
<1>1. ASSUME NEW t \in Turns, CreateRow(t) PROVE ForkInv'
 <2>1. PICK r \in Rows :
          /\ status[r] = "absent" /\ status' = [status EXCEPT ![r] = "BOT_ACTIVE"]
          /\ creator' = [creator EXCEPT ![r] = {t}]
          /\ rivals' = [rivals EXCEPT ![r] = {u \in Turns : turn[u].pc = "create"}]
          /\ Becomes(t, AfterReply(t), r, turn[t].early, turn[t].agent)
   BY <1>1, <1>a, CreateEffect
 <2>2. UNCHANGED deleted /\ turn[t].pc = "create" BY <1>1 DEF CreateRow
 <2>3. /\ creator'[r] = {t} /\ rivals'[r] = {u \in Turns : turn[u].pc = "create"}
       /\ \A s \in Rows : s # r => creator'[s] = creator[s] /\ rivals'[s] = rivals[s]
   BY <1>a, <2>1 DEF TypeOK
 <2>4. \A s \in LiveRows' : s # r => s \in LiveRows BY <1>a, <2>1, <2>2 DEF TypeOK, LiveRows, Live
 <2>5. \A u \in Turns : turn'[u].pc = "create" => turn[u].pc = "create" BY <2>1, <2>2 DEF Becomes
 <2>6. \A s \in LiveRows : s \in Rows BY DEF LiveRows
 <2>7. \A u \in Turns : turn'[u].pc = "create" => \A s \in LiveRows' : u \in rivals'[s]
   BY <1>a, <2>3, <2>4, <2>5, <2>6 DEF ForkInv
 <2>8. \A s \in LiveRows' : s # r => t \in rivals'[s] BY <1>a, <2>2, <2>3, <2>4, <2>6 DEF ForkInv
 <2>9. \A q, s \in LiveRows' : q # s =>
          \/ creator'[q] # {} /\ creator'[q] \subseteq rivals'[s]
          \/ creator'[s] # {} /\ creator'[s] \subseteq rivals'[q]
   BY <1>a, <2>3, <2>4, <2>6, <2>8 DEF ForkInv, ForksOnlyFromRacingCreates
 <2> QED BY <2>7, <2>9 DEF ForkInv, ForksOnlyFromRacingCreates
<1>2. ASSUME ~\E t \in Turns : CreateRow(t) PROVE ForkInv'
 <2>1. LiveRows' \subseteq LiveRows BY <1>2, <1>a, OnlyCreateRowAdds, RowsStay DEF LiveRows, Live
 <2>2. UNCHANGED <<creator, rivals>>
   BY <1>2, OtherFrame
   DEF Next, OtherStep, vars, history, VisitorTurn, Lookup, Reopen, BypassSave,
       BypassCount, CallGateway, GatewayReply, RaceCheck, AppendReply,
       RequestHandoff, AssignAgent, NobodyToAssign, CheckHandoff,
       PromoteHandoff, TurnFails
 <2>3. ASSUME NEW t \in Turns, turn'[t].pc = "create"
       PROVE  turn[t].pc = "create" \/ LiveRows = {}
  <3>1. ASSUME NEW u \in Turns, VisitorTurn(u)
        PROVE  turn[t].pc = "create" \/ LiveRows = {}
   <4>1. CASE t # u BY <1>a, <2>3, <3>1, <4>1, TurnRow
   <4>2. CASE t = u
    <5> USE DEF Moves, Becomes
    <5>1. CASE RaceCheck(t) BY <1>a, <2>3, <5>1, TurnEffects
    <5>2. CASE Lookup(t) BY <1>a, <2>3, <5>2, TurnEffects DEF FirstStep
    <5>3. CASE AssignAgent(t) BY <1>a, <2>3, <5>3, AssignEffect
    <5>4. CASE Reopen(t) \/ BypassSave(t) \/ BypassCount(t) \/ CallGateway(t) BY <1>a, <2>3, <5>4, TurnEffects
    <5>5. CASE GatewayReply(t) \/ AppendReply(t) BY <1>a, <2>3, <5>5, TurnEffects DEF AfterGateway, AfterReply
    <5>6. CASE \/ RequestHandoff(t) \/ NobodyToAssign(t) \/ CheckHandoff(t)
               \/ PromoteHandoff(t) \/ TurnFails(t)
      BY <1>a, <2>3, <5>6, TurnEffects
    <5> QED BY <1>2, <3>1, <4>2, <5>1, <5>2, <5>3, <5>4, <5>5, <5>6 DEF VisitorTurn
   <4> QED BY <4>1, <4>2
  <3>2. UNCHANGED turn \/ \E u \in Turns : VisitorTurn(u) BY OtherFrame DEF Next, OtherStep, vars
  <3> QED BY <2>3, <3>1, <3>2
 <2> QED BY <1>a, <2>1, <2>2, <2>3 DEF ForkInv, ForksOnlyFromRacingCreates
<1> QED BY <1>1, <1>2

--------------------
\* When a step leaves a row with a human, the row was with one already, or the
\* step records the turns in flight.
LEMMA BeforeFrame ==
  ASSUME TypeOK, [Next]_vars, NEW r \in Rows, status'[r] = "HUMAN_ACTIVE"
  PROVE  \/ status[r] = "HUMAN_ACTIVE" /\ before'[r] = before[r]
         \/ \A u \in Turns : InFlight(u) => u \in before'[r]
<1>a. /\ status \in [Rows -> Statuses \cup {"absent"}] /\ before \in [Rows -> SUBSET Turns]
  BY DEF TypeOK
<1> DEFINE Kept == status[r] = "HUMAN_ACTIVE" /\ before'[r] = before[r]
           Noted == \A u \in Turns : InFlight(u) => u \in before'[r]
<1> USE DEF rowVars, history
<1>1. ASSUME NEW s, GoHuman(s) PROVE Kept \/ Noted BY <1>a, <1>1 DEF GoHuman
<1>2. ASSUME UNCHANGED <<status, before>> PROVE Kept BY <1>2
<1>3. ASSUME NEW S, CloseRows(S), UNCHANGED before PROVE Kept BY <1>a, <1>3 DEF CloseRows
<1>4. ASSUME NEW s, NEW x \in {"BOT_ACTIVE", "CLOSED"},
             status' = [status EXCEPT ![s] = x], UNCHANGED before
      PROVE  Kept
  BY <1>a, <1>4
<1>5. ASSUME NEW t \in Turns, VisitorTurn(t) PROVE Kept \/ Noted
 <2>1. CASE Reopen(t) BY <1>4, <2>1 DEF Reopen
 <2>2. CASE CreateRow(t) BY <1>4, <2>2 DEF CreateRow
 <2>3. CASE AssignAgent(t) BY <1>1, <2>3 DEF AssignAgent, Assign
 <2>4. CASE ~Reopen(t) /\ ~CreateRow(t) /\ ~AssignAgent(t)
   BY <1>2, <1>5, <2>4
   DEF VisitorTurn, Lookup, BypassSave, BypassCount, CallGateway,
       GatewayReply, RaceCheck, AppendReply, RequestHandoff,
       NobodyToAssign, CheckHandoff, PromoteHandoff, TurnFails
 <2> QED BY <2>1, <2>2, <2>3, <2>4
<1>6. ASSUME NEW d \in Desk, DeskRequest(d) PROVE Kept \/ Noted
 <2>1. CASE HandoverChat(d) BY <1>1, <2>1 DEF HandoverChat, Assign
 <2>2. CASE CloseChat(d) BY <1>4, <2>2 DEF CloseChat
 <2>3. CASE ~HandoverChat(d) /\ ~CloseChat(d)
   BY <1>2, <1>6, <2>3
   DEF DeskRequest, DeskRead, SendAgentMessage, ClearUnread, DeleteChat
 <2> QED BY <2>1, <2>2, <2>3
<1>7. ASSUME NEW s \in Rows, MarkRead(s) \/ Age(s) PROVE Kept BY <1>2, <1>7 DEF MarkRead, Age
<1>8. ASSUME FeedbackRead \/ FeedbackClose \/ EchoRead \/ EchoTakesOver
      PROVE  Kept \/ Noted
  BY <1>1, <1>2, <1>3, <1>8 DEF FeedbackRead, FeedbackClose, EchoRead, EchoTakesOver
<1>9. ASSUME NEW p \in Pods, NEW j \in Jobs, Cron(p, j) PROVE Kept BY <1>2, <1>3, <1>9 DEF Cron, CronScan, CronClose
<1>10. CASE UNCHANGED vars BY <1>2, <1>10 DEF vars
<1> QED BY <1>5, <1>6, <1>7, <1>8, <1>9, <1>10 DEF Next

\* The turns that may still answer in a human's row, after a step.
LEMMA SilenceStep == IInv /\ [Next]_vars => SilenceInv'
<1> SUFFICES ASSUME IInv, [Next]_vars,
                    NEW t \in Turns, NEW r \in Rows,
                    turn'[t].pc \in MayAnswer,
                    status'[r] = "HUMAN_ACTIVE",
                    turn'[t].row = r \/ (turn'[t].row = NoRow /\ r \notin deleted')
             PROVE  t \in before'[r]
  BY DEF SilenceInv
<1>a. TypeOK /\ StepsInv /\ SilenceInv BY DEF IInv
<1>b. deleted \subseteq deleted' BY <1>a, RowsStay
<1>c. \/ status[r] = "HUMAN_ACTIVE" /\ before'[r] = before[r]
      \/ \A u \in Turns : InFlight(u) => u \in before'[r]
  BY <1>a, BeforeFrame
<1>d. NoRow \notin Rows /\ LiveRows \subseteq Rows BY ConstantsAssumption DEF LiveRows
<1>1. /\ turn[t].pc \in MayAnswer
      /\ \/ turn'[t].row = turn[t].row
         \/ turn[t].row = NoRow /\ turn'[t].row \in LiveRows
      => t \in before'[r]
 <2> SUFFICES ASSUME turn[t].pc \in MayAnswer,
                     \/ turn'[t].row = turn[t].row
                     \/ turn[t].row = NoRow /\ turn'[t].row \in LiveRows
              PROVE  t \in before'[r]
   OBVIOUS
 <2>1. InFlight(t) BY DEF InFlight, MayAnswer
 <2>2. turn[t].row = r \/ (turn[t].row = NoRow /\ r \notin deleted) BY <1>b, <1>d DEF LiveRows, Live
 <2>3. status[r] = "HUMAN_ACTIVE" => t \in before[r] BY <1>a, <2>2 DEF SilenceInv
 <2> QED BY <1>c, <2>1, <2>3
<1>2. ASSUME turn'[t] = turn[t] PROVE t \in before'[r] BY <1>1, <1>2
<1>3. ASSUME NEW u \in Turns, VisitorTurn(u), u # t PROVE t \in before'[r] BY <1>2, <1>3, <1>a, TurnRow
<1>4. ASSUME VisitorTurn(t) PROVE t \in before'[r]
 <2>k. TurnKnows(t) BY <1>a DEF StepsInv
 <2> USE DEF Moves, Becomes
 <2>1. CASE Lookup(t)
  <3>1. /\ turn[t].row = NoRow /\ UNCHANGED <<status, deleted, before>>
    BY <2>1, <2>k DEF Lookup, TurnKnows, rowVars, history
  <3>2. CASE LiveRows = {} /\ Moves(t, "check") BY <1>d, <3>1, <3>2 DEF LiveRows, Live
  <3>3. CASE \E s \in LiveRows :
                Becomes(t, FirstStep(s), s, turn[t].early, turn[t].agent)
   <4>1. PICK s \in LiveRows :
               Becomes(t, FirstStep(s), s, turn[t].early, turn[t].agent)
     BY <3>3
   <4>2. s = r BY <1>d, <4>1
   <4> QED BY <3>1, <4>1, <4>2 DEF FirstStep, MayAnswer
  <3> QED BY <1>a, <2>1, <3>2, <3>3, TurnEffects
 <2>2. CASE RaceCheck(t)
  <3>1. turn[t].row = NoRow /\ turn[t].pc \in MayAnswer BY <2>2, <2>k DEF RaceCheck, TurnKnows, MayAnswer
  <3> QED BY <1>1, <1>a, <2>2, <3>1, TurnEffects
 <2>3. CASE CreateRow(t) BY <1>a, <2>3, CreateEffect DEF AfterReply, MayAnswer
 <2>4. CASE Reopen(t) \/ CallGateway(t) \/ GatewayReply(t)
  <3>1. turn[t].pc \in MayAnswer BY <2>4 DEF Reopen, CallGateway, GatewayReply, MayAnswer
  <3>2. turn'[t].row = turn[t].row BY <1>a, <2>4, TurnEffects
  <3> QED BY <1>1, <3>1, <3>2
 <2>5. CASE BypassSave(t) \/ BypassCount(t) \/ TurnFails(t) BY <1>a, <2>5, TurnEffects DEF MayAnswer
 <2>6. CASE AppendReply(t) \/ RequestHandoff(t) BY <1>a, <2>6, TurnEffects DEF MayAnswer, AfterReply
 <2>7. CASE NobodyToAssign(t) \/ CheckHandoff(t) \/ PromoteHandoff(t) BY <1>a, <2>7, TurnEffects DEF MayAnswer
 <2>8. CASE AssignAgent(t) BY <1>a, <2>8, AssignEffect DEF MayAnswer
 <2> QED BY <1>4, <2>1, <2>2, <2>3, <2>4, <2>5, <2>6, <2>7, <2>8 DEF VisitorTurn
<1>5. UNCHANGED turn \/ \E u \in Turns : VisitorTurn(u) BY OtherFrame DEF Next, OtherStep, vars
<1> QED BY <1>2, <1>3, <1>4, <1>5

--------------------
\* A step assigns a row to an agent, or changes no assignment.
LEMMA AssignFrame ==
  ASSUME [Next]_vars
  PROVE  \/ UNCHANGED <<agent, assignees>>
         \/ \E s : \E a \in Agents : Assign(s, a)
         \/ \E d \in Desk : HandoverChat(d)
<1> USE DEF rowVars, history
<1>1. ASSUME NEW t \in Turns, VisitorTurn(t)
      PROVE  \/ UNCHANGED <<agent, assignees>>
             \/ \E s : \E a \in Agents : Assign(s, a)
 <2>1. AssignAgent(t) \/ UNCHANGED <<agent, assignees>>
   BY <1>1
   DEF VisitorTurn, Lookup, Reopen, BypassSave, BypassCount, CallGateway,
       GatewayReply, RaceCheck, CreateRow, AppendReply, RequestHandoff,
       NobodyToAssign, CheckHandoff, PromoteHandoff, TurnFails
 <2> QED BY <2>1 DEF AssignAgent
<1>2. ASSUME NEW d \in Desk, DeskRequest(d)
      PROVE  UNCHANGED <<agent, assignees>> \/ HandoverChat(d)
  BY <1>2 DEF DeskRequest, DeskRead, SendAgentMessage, ClearUnread, CloseChat,
              DeleteChat
<1>3. ASSUME NEW s \in Rows, MarkRead(s) \/ Age(s) PROVE UNCHANGED <<agent, assignees>> BY <1>3 DEF MarkRead, Age
<1>4. ASSUME FeedbackRead \/ FeedbackClose \/ EchoRead \/ EchoTakesOver
      PROVE  UNCHANGED <<agent, assignees>>
  BY <1>4 DEF FeedbackRead, FeedbackClose, CloseRows, EchoRead, EchoTakesOver
<1>5. ASSUME NEW p \in Pods, NEW j \in Jobs, Cron(p, j)
      PROVE  UNCHANGED <<agent, assignees>>
  BY <1>5 DEF Cron, CronScan, CronClose, CloseRows
<1>6. CASE UNCHANGED vars BY <1>6 DEF vars
<1> QED BY <1>1, <1>2, <1>3, <1>4, <1>5, <1>6 DEF Next

\* Assignments are remembered, and a row's agent is always a remembered one.
LEMMA AssignmentsGrow ==
  ASSUME IInv, [Next]_vars
  PROVE  \A r \in Rows : /\ assignees[r] \subseteq assignees'[r]
                         /\ agent'[r] # NoAgent => agent'[r] \in assignees'[r]
<1>a. /\ agent \in [Rows -> Agents \cup {NoAgent}] /\ assignees \in [Rows -> SUBSET Agents]
      /\ \A r \in Rows : agent[r] # NoAgent => agent[r] \in assignees[r]
  BY DEF IInv, TypeOK, AssignedInv
<1>1. ASSUME NEW s, NEW a, Assign(s, a)
      PROVE  \A r \in Rows : /\ assignees[r] \subseteq assignees'[r]
                             /\ agent'[r] # NoAgent => agent'[r] \in assignees'[r]
  BY <1>a, <1>1 DEF Assign
<1>2. CASE UNCHANGED <<agent, assignees>> BY <1>a, <1>2
<1> QED BY <1>1, <1>2, AssignFrame DEF HandoverChat

\* Who speaks, who is about to, and whom the flow names, after a step.
LEMMA AssignedStep == IInv /\ [Next]_vars => AssignedInv'
<1> SUFFICES ASSUME IInv, [Next]_vars PROVE AssignedInv' OBVIOUS
<1>a. TypeOK /\ StepsInv /\ AssignedInv BY DEF IInv
<1>b. \A r \in Rows : /\ assignees[r] \subseteq assignees'[r]
                      /\ agent'[r] # NoAgent => agent'[r] \in assignees'[r]
  BY AssignmentsGrow
<1>c. /\ spoke \in [Rows -> SUBSET Agents] /\ NoAgent \notin Agents /\ LiveRows \subseteq Rows
  BY <1>a, ConstantsAssumption DEF TypeOK, LiveRows
<1> DEFINE
      SpeakOK == \A r \in Rows : spoke[r] \subseteq assignees[r]
      DeskOK == \A d \in Desk :
                  desk[d].pc = "write" /\ desk[d].op = "message" =>
                    desk[d].agent \in assignees[desk[d].row]
      TurnOK == \A t \in Turns :
                  turn[t].pc \in {"confirm", "promote"} =>
                    turn[t].agent \in assignees[turn[t].row]
<1> USE DEF rowVars, savedVars, history
<1>1. ASSUME UNCHANGED spoke PROVE SpeakOK' BY <1>a, <1>b, <1>1 DEF AssignedInv
<1>2. ASSUME UNCHANGED desk PROVE DeskOK' BY <1>a, <1>b, <1>2 DEF AssignedInv, StepsInv, DeskKnows
<1>3. ASSUME UNCHANGED turn PROVE TurnOK' BY <1>a, <1>b, <1>3 DEF AssignedInv, StepsInv, TurnKnows, KnowsRow
<1>4. ASSUME UNCHANGED flow PROVE AssignedFlowNamesAssignee'
  BY <1>a, <1>b, <1>4 DEF AssignedInv, AssignedFlowNamesAssignee
<1>5. ASSUME NEW t \in Turns, VisitorTurn(t) PROVE AssignedInv'
 <2>1. UNCHANGED <<spoke, desk>>
   BY <1>5
   DEF VisitorTurn, Lookup, Reopen, BypassSave, BypassCount, CallGateway,
       GatewayReply, RaceCheck, CreateRow, AppendReply, RequestHandoff,
       AssignAgent, NobodyToAssign, CheckHandoff, PromoteHandoff, TurnFails
 <2>2. \A u \in Turns : u # t /\ turn'[u].pc \in {"confirm", "promote"} =>
          turn'[u].agent \in assignees'[turn'[u].row]
   BY <1>a, <1>b, <1>5, TurnRow DEF AssignedInv, StepsInv, TurnKnows, KnowsRow
 <2>k. TurnKnows(t) BY <1>a DEF StepsInv
 <2>3. turn'[t].pc \in {"confirm", "promote"} =>
          turn'[t].agent \in assignees'[turn'[t].row]
  <3> USE DEF Moves, Becomes
  <3>1. CASE AssignAgent(t)
   <4>1. PICK a \in Agents :
            /\ Assign(turn[t].row, a) /\ Becomes(t, "confirm", turn[t].row, turn[t].early, a)
     BY <1>a, <3>1, AssignEffect
   <4>2. turn[t].row \in Rows BY <2>k, <3>1 DEF AssignAgent, TurnKnows, KnowsRow
   <4>3. a \in assignees'[turn[t].row] BY <1>a, <4>1, <4>2 DEF Assign, TypeOK
   <4> QED BY <4>1, <4>3
  <3>2. CASE CheckHandoff(t)
   <4>1. turn[t].pc = "confirm" /\ turn[t].row \in Rows BY <2>k, <3>2 DEF CheckHandoff, TurnKnows, KnowsRow
   <4>2. turn'[t].row = turn[t].row /\ turn'[t].agent = turn[t].agent BY <1>a, <3>2, TurnEffects
   <4> QED BY <1>a, <1>b, <4>1, <4>2 DEF AssignedInv
  <3>3. CASE Lookup(t) BY <1>a, <3>3, TurnEffects DEF FirstStep
  <3>4. CASE CreateRow(t) BY <1>a, <3>4, CreateEffect DEF AfterReply
  <3>5. CASE Reopen(t) \/ BypassSave(t) \/ BypassCount(t) \/ CallGateway(t) BY <1>a, <3>5, TurnEffects
  <3>6. CASE GatewayReply(t) \/ RaceCheck(t) \/ AppendReply(t) BY <1>a, <3>6, TurnEffects DEF AfterGateway, AfterReply
  <3>7. CASE RequestHandoff(t) \/ NobodyToAssign(t) \/ PromoteHandoff(t) \/ TurnFails(t) BY <1>a, <3>7, TurnEffects
  <3> QED BY <1>5, <3>1, <3>2, <3>3, <3>4, <3>5, <3>6, <3>7 DEF VisitorTurn
 <2>4. AssignedFlowNamesAssignee'
  <3>1. CASE PromoteHandoff(t)
   <4>1. turn[t].agent \in assignees'[turn[t].row] /\ turn[t].row \in Rows
     BY <1>a, <1>b, <2>k, <3>1
     DEF PromoteHandoff, AssignedInv, TurnKnows, KnowsRow
   <4>2. flow'.agent = turn[t].agent BY <3>1 DEF PromoteHandoff
   <4> QED BY <4>1, <4>2 DEF AssignedFlowNamesAssignee
  <3>2. CASE RequestHandoff(t) BY <3>2 DEF RequestHandoff, AssignedFlowNamesAssignee
  <3>3. CASE ~PromoteHandoff(t) /\ ~RequestHandoff(t)
    BY <1>4, <1>5, <3>3
    DEF VisitorTurn, Lookup, Reopen, BypassSave, BypassCount, CallGateway,
        GatewayReply, RaceCheck, CreateRow, AppendReply,
        AssignAgent, NobodyToAssign, CheckHandoff, TurnFails
  <3> QED BY <3>1, <3>2, <3>3
 <2> QED BY <1>1, <1>2, <1>b, <2>1, <2>2, <2>3, <2>4 DEF AssignedInv
<1>6. ASSUME NEW d \in Desk, DeskRequest(d) PROVE AssignedInv'
 <2>1. UNCHANGED turn BY <1>6, OtherFrame DEF OtherStep
 <2>2. UNCHANGED flow
   BY <1>6 DEF DeskRequest, DeskRead, HandoverChat, SendAgentMessage, ClearUnread,
               CloseChat, DeleteChat
 <2>3. SpeakOK'
  <3>1. CASE SendAgentMessage(d)
   <4>1. desk[d].row \in Rows /\ desk[d].agent \in assignees'[desk[d].row]
     BY <1>a, <1>b, <3>1 DEF SendAgentMessage, StepsInv, DeskKnows, AssignedInv
   <4>2. spoke' = [spoke EXCEPT ![desk[d].row] = @ \cup {desk[d].agent}] BY <3>1 DEF SendAgentMessage
   <4> QED BY <1>a, <1>b, <1>c, <4>1, <4>2 DEF AssignedInv
  <3>2. CASE ~SendAgentMessage(d)
    BY <1>1, <1>6, <3>2
    DEF DeskRequest, DeskRead, HandoverChat, ClearUnread, CloseChat, DeleteChat
  <3> QED BY <3>1, <3>2
 <2>4. DeskOK'
  <3>1. ASSUME NEW e \in Desk, e # d, desk'[e].pc = "write", desk'[e].op = "message"
        PROVE  desk'[e].agent \in assignees'[desk'[e].row]
   <4>1. desk'[e] = desk[e]
    <5>1. CASE DeskRead(d) BY <1>a, <3>1, <5>1, DeskEffects
    <5>2. CASE ~DeskRead(d) BY <1>a, <1>6, <3>1, <5>2, DeskEffects DEF DeskRequest
    <5> QED BY <5>1, <5>2
   <4> QED BY <1>a, <1>b, <3>1, <4>1 DEF AssignedInv, StepsInv, DeskKnows
  <3>2. ASSUME desk'[d].pc = "write", desk'[d].op = "message"
        PROVE  desk'[d].agent \in assignees'[desk'[d].row]
   <4>1. CASE DeskRead(d)
    <5>1. PICK op \in DeskOps, r \in LiveRows, a \in Agents :
            /\ DeskMay(op, r, a) /\ desk'[d] = [pc |-> "write", op |-> op, row |-> r, agent |-> a]
      BY <1>a, <4>1, DeskEffects
    <5>2. op = "message" BY <3>2, <5>1
    <5>3. agent[r] = a BY <5>1, <5>2 DEF DeskMay
    <5>4. a \in assignees[r] BY <1>a, <1>c, <5>1, <5>3 DEF AssignedInv
    <5> QED BY <1>b, <1>c, <5>1, <5>4
   <4>2. CASE ~DeskRead(d) BY <1>a, <1>6, <3>2, <4>2, DeskEffects DEF DeskRequest
   <4> QED BY <4>1, <4>2
  <3> QED BY <3>1, <3>2
 <2> QED BY <1>3, <1>4, <1>b, <2>1, <2>2, <2>3, <2>4 DEF AssignedInv
<1>7. ASSUME UNCHANGED <<spoke, desk, turn, flow>> PROVE AssignedInv'
  BY <1>1, <1>2, <1>3, <1>4, <1>7, <1>b DEF AssignedInv
<1>8. ASSUME NEW r \in Rows, MarkRead(r) \/ Age(r)
      PROVE  UNCHANGED <<spoke, desk, turn, flow>>
  BY <1>8 DEF MarkRead, Age
<1>9. ASSUME FeedbackRead \/ FeedbackClose \/ EchoRead \/ EchoTakesOver
      PROVE  UNCHANGED <<spoke, desk, turn, flow>>
  BY <1>9 DEF FeedbackRead, FeedbackClose, EchoRead, EchoTakesOver
<1>10. ASSUME NEW p \in Pods, NEW j \in Jobs, Cron(p, j)
       PROVE  UNCHANGED <<spoke, desk, turn, flow>>
  BY <1>10 DEF Cron, CronScan, CronClose
<1>11. CASE UNCHANGED vars BY <1>7, <1>11 DEF vars
<1> QED BY <1>5, <1>6, <1>7, <1>8, <1>9, <1>10, <1>11 DEF Next

--------------------
\* A row that is with a human, or has unread messages, has been taken.
LEMMA TakenStep == IInv /\ [Next]_vars => TakenInv'
<1> SUFFICES ASSUME IInv, [Next]_vars PROVE TakenInv' OBVIOUS
<1>a. TypeOK /\ StepsInv /\ TakenInv BY DEF IInv
<1>b. /\ status \in [Rows -> Statuses \cup {"absent"}] /\ unread \in [Rows -> Nat] /\ LiveRows \subseteq Rows
  BY <1>a DEF TypeOK, LiveRows
<1> DEFINE Grows == taken \subseteq taken'
           HumanOK == \A r \in Rows : status'[r] = "HUMAN_ACTIVE" => r \in taken'
           UnreadOK == \A r \in Rows : unread'[r] > 0 => r \in taken'
           TurnOK == \A t \in Turns :
                        turn'[t].pc \in {"bypass", "count"} => turn'[t].row \in taken'
<1> USE DEF rowVars, savedVars, history
<1>1. ASSUME NEW s, GoHuman(s) PROVE Grows /\ HumanOK BY <1>a, <1>b, <1>1 DEF GoHuman, TakenInv
<1>2. ASSUME UNCHANGED <<status, taken>> PROVE Grows /\ HumanOK BY <1>a, <1>2 DEF TakenInv
<1>3. ASSUME NEW S, CloseRows(S), UNCHANGED taken PROVE Grows /\ HumanOK BY <1>a, <1>3 DEF CloseRows, TakenInv
<1>4. ASSUME NEW s, NEW x \in {"BOT_ACTIVE", "CLOSED"},
             status' = [status EXCEPT ![s] = x], UNCHANGED taken
      PROVE  Grows /\ HumanOK
  BY <1>a, <1>b, <1>4 DEF TakenInv
<1>5. ASSUME Grows, UNCHANGED unread PROVE UnreadOK BY <1>a, <1>5 DEF TakenInv
<1>6. ASSUME Grows, UNCHANGED turn PROVE TurnOK BY <1>a, <1>6 DEF TakenInv
<1>7. ASSUME Grows, NEW s, unread' = [unread EXCEPT ![s] = 0] PROVE UnreadOK BY <1>a, <1>b, <1>7 DEF TakenInv
<1>8. ASSUME NEW t \in Turns, VisitorTurn(t) PROVE Grows /\ HumanOK /\ UnreadOK /\ TurnOK
 <2>1. Grows /\ HumanOK
  <3>1. CASE Reopen(t) BY <1>4, <3>1 DEF Reopen
  <3>2. CASE CreateRow(t) BY <1>4, <3>2 DEF CreateRow
  <3>3. CASE AssignAgent(t) BY <1>1, <3>3 DEF AssignAgent, Assign
  <3>4. CASE ~Reopen(t) /\ ~CreateRow(t) /\ ~AssignAgent(t)
    BY <1>2, <1>8, <3>4
    DEF VisitorTurn, Lookup, BypassSave, BypassCount, CallGateway,
        GatewayReply, RaceCheck, AppendReply, RequestHandoff,
        NobodyToAssign, CheckHandoff, PromoteHandoff, TurnFails
  <3> QED BY <3>1, <3>2, <3>3, <3>4
 <2>2. UnreadOK
  <3>1. CASE BypassCount(t)
   <4>1. turn[t].row \in taken BY <1>a, <3>1 DEF BypassCount, TakenInv
   <4>2. unread' = [unread EXCEPT ![turn[t].row] = @ + 1] BY <3>1 DEF BypassCount
   <4> QED BY <1>a, <1>b, <2>1, <4>1, <4>2 DEF TakenInv
  <3>2. CASE ~BypassCount(t)
    BY <1>5, <1>8, <2>1, <3>2
    DEF VisitorTurn, Lookup, Reopen, BypassSave, CallGateway,
        GatewayReply, RaceCheck, CreateRow, AppendReply, RequestHandoff,
        AssignAgent, NobodyToAssign, CheckHandoff, PromoteHandoff, TurnFails
  <3> QED BY <3>1, <3>2
 <2>3. \A u \in Turns : u # t /\ turn'[u].pc \in {"bypass", "count"} =>
          turn'[u].row \in taken'
   BY <1>a, <1>8, <2>1, TurnRow DEF TakenInv
 <2>4. turn'[t].pc \in {"bypass", "count"} => turn'[t].row \in taken'
  <3> USE DEF Moves, Becomes
  <3>1. CASE Lookup(t)
   <4>1. CASE LiveRows = {} /\ Moves(t, "check") BY <4>1
   <4>2. CASE \E r \in LiveRows :
                 Becomes(t, FirstStep(r), r, turn[t].early, turn[t].agent)
    <5>1. PICK r \in LiveRows :
             Becomes(t, FirstStep(r), r, turn[t].early, turn[t].agent)
      BY <4>2
    <5>2. FirstStep(r) \in {"bypass", "count"} => r \in taken BY <1>a, <1>b DEF FirstStep, TakenInv
    <5> QED BY <2>1, <5>1, <5>2
   <4> QED BY <1>a, <3>1, <4>1, <4>2, TurnEffects
  <3>2. CASE BypassSave(t) BY <1>a, <2>1, <3>2, TurnEffects DEF BypassSave, TakenInv
  <3>3. CASE AssignAgent(t) BY <1>a, <3>3, AssignEffect
  <3>4. CASE CreateRow(t) BY <1>a, <3>4, CreateEffect DEF AfterReply
  <3>5. CASE Reopen(t) \/ BypassCount(t) \/ CallGateway(t) BY <1>a, <3>5, TurnEffects
  <3>6. CASE GatewayReply(t) \/ RaceCheck(t) \/ AppendReply(t) BY <1>a, <3>6, TurnEffects DEF AfterGateway, AfterReply
  <3>7. CASE \/ RequestHandoff(t) \/ NobodyToAssign(t) \/ CheckHandoff(t)
             \/ PromoteHandoff(t) \/ TurnFails(t)
    BY <1>a, <3>7, TurnEffects
  <3> QED BY <1>8, <3>1, <3>2, <3>3, <3>4, <3>5, <3>6, <3>7 DEF VisitorTurn
 <2> QED BY <2>1, <2>2, <2>3, <2>4
<1>9. ASSUME NEW d \in Desk, DeskRequest(d) PROVE Grows /\ HumanOK /\ UnreadOK /\ TurnOK
 <2>1. UNCHANGED turn BY <1>9, OtherFrame DEF OtherStep
 <2>2. CASE HandoverChat(d) BY <1>1, <1>5, <1>6, <2>1, <2>2 DEF HandoverChat, Assign
 <2>3. CASE CloseChat(d) BY <1>4, <1>6, <1>7, <2>1, <2>3 DEF CloseChat
 <2>4. CASE ClearUnread(d) BY <1>2, <1>6, <1>7, <2>1, <2>4 DEF ClearUnread
 <2>5. CASE DeskRead(d) \/ SendAgentMessage(d) \/ DeleteChat(d)
   BY <1>2, <1>5, <1>6, <2>1, <2>5 DEF DeskRead, SendAgentMessage, DeleteChat
 <2> QED BY <1>9, <2>2, <2>3, <2>4, <2>5 DEF DeskRequest
<1>10. ASSUME NEW s \in Rows, MarkRead(s) \/ Age(s)
       PROVE  Grows /\ HumanOK /\ UnreadOK /\ TurnOK
  BY <1>2, <1>5, <1>6, <1>7, <1>10 DEF MarkRead, Age
<1>11. ASSUME FeedbackRead \/ EchoRead
       PROVE  Grows /\ HumanOK /\ UnreadOK /\ TurnOK
  BY <1>2, <1>5, <1>6, <1>11 DEF FeedbackRead, EchoRead
<1>12. ASSUME FeedbackClose PROVE Grows /\ HumanOK /\ UnreadOK /\ TurnOK
 <2>1. CloseRows(survey) /\ UNCHANGED <<taken, unread, turn>> BY <1>12 DEF FeedbackClose, CloseRows
 <2> QED BY <1>3, <1>5, <1>6, <2>1
<1>13. ASSUME EchoTakesOver PROVE Grows /\ HumanOK /\ UnreadOK /\ TurnOK
 <2>1. GoHuman(echo) /\ UNCHANGED <<unread, turn>> BY <1>13 DEF EchoTakesOver
 <2> QED BY <1>1, <1>5, <1>6, <2>1
<1>14. ASSUME NEW p \in Pods, NEW j \in Jobs, Cron(p, j)
       PROVE  Grows /\ HumanOK /\ UnreadOK /\ TurnOK
 <2>1. /\ UNCHANGED <<taken, unread, turn>>
       /\ CloseRows(scan[<<p, j>>]) \/ UNCHANGED status
   BY <1>14 DEF Cron, CronScan, CronClose, CloseRows
 <2> QED BY <1>2, <1>3, <1>5, <1>6, <2>1
<1>15. CASE UNCHANGED vars BY <1>a, <1>15 DEF vars, TakenInv
<1> QED BY <1>8, <1>9, <1>10, <1>11, <1>12, <1>13, <1>14, <1>15 DEF Next, TakenInv

\* Without the echo takeover, a chat with a human has an agent, after a step.
LEMMA HumanStep == IInv /\ [Next]_vars => HumanInv'
<1> SUFFICES ASSUME IInv, [Next]_vars, ~EchoTakeover
             PROVE  /\ echo' = NoRow
                    /\ \A r \in Rows :
                         status'[r] = "HUMAN_ACTIVE" => agent'[r] \in assignees'[r]
  BY ConstantsAssumption DEF HumanInv, LiveChatHasAgent
<1>a. /\ status \in [Rows -> Statuses \cup {"absent"}] /\ agent \in [Rows -> Agents \cup {NoAgent}]
      /\ assignees \in [Rows -> SUBSET Agents] /\ echo = NoRow
      /\ \A r \in Rows : status[r] = "HUMAN_ACTIVE" => agent[r] \in assignees[r]
  BY DEF IInv, TypeOK, HumanInv, LiveChatHasAgent
<1> DEFINE Attended == \A r \in Rows :
             status'[r] = "HUMAN_ACTIVE" => agent'[r] \in assignees'[r]
<1> USE DEF rowVars, history
<1>1. ASSUME NEW s, NEW a, Assign(s, a) PROVE Attended BY <1>a, <1>1 DEF Assign, GoHuman
<1>2. ASSUME UNCHANGED <<status, agent, assignees>> PROVE Attended BY <1>a, <1>2
<1>3. ASSUME NEW S, CloseRows(S), UNCHANGED assignees PROVE Attended BY <1>a, <1>3 DEF CloseRows
<1>4. ASSUME NEW s, NEW x \in {"BOT_ACTIVE", "CLOSED"},
             status' = [status EXCEPT ![s] = x], UNCHANGED <<agent, assignees>>
      PROVE  Attended
  BY <1>a, <1>4
<1>5. ASSUME NEW t \in Turns, VisitorTurn(t) PROVE echo' = NoRow /\ Attended
 <2>1. CASE Reopen(t) BY <1>4, <1>a, <2>1 DEF Reopen
 <2>2. CASE CreateRow(t) BY <1>4, <1>a, <2>2 DEF CreateRow
 <2>3. CASE AssignAgent(t) BY <1>1, <1>a, <2>3 DEF AssignAgent
 <2>4. CASE ~Reopen(t) /\ ~CreateRow(t) /\ ~AssignAgent(t)
   BY <1>2, <1>5, <1>a, <2>4
   DEF VisitorTurn, Lookup, BypassSave, BypassCount, CallGateway,
       GatewayReply, RaceCheck, AppendReply, RequestHandoff,
       NobodyToAssign, CheckHandoff, PromoteHandoff, TurnFails
 <2> QED BY <2>1, <2>2, <2>3, <2>4
<1>6. ASSUME NEW d \in Desk, DeskRequest(d) PROVE echo' = NoRow /\ Attended
 <2>1. CASE HandoverChat(d) BY <1>1, <1>a, <2>1 DEF HandoverChat
 <2>2. CASE CloseChat(d) BY <1>4, <1>a, <2>2 DEF CloseChat
 <2>3. CASE ~HandoverChat(d) /\ ~CloseChat(d)
   BY <1>2, <1>6, <1>a, <2>3
   DEF DeskRequest, DeskRead, SendAgentMessage, ClearUnread, DeleteChat
 <2> QED BY <2>1, <2>2, <2>3
<1>7. ASSUME NEW s \in Rows, MarkRead(s) \/ Age(s) PROVE echo' = NoRow /\ Attended
  BY <1>2, <1>7, <1>a DEF MarkRead, Age
<1>8. ASSUME FeedbackRead PROVE echo' = NoRow /\ Attended BY <1>2, <1>8, <1>a DEF FeedbackRead
<1>9. ASSUME FeedbackClose PROVE echo' = NoRow /\ Attended BY <1>3, <1>9, <1>a DEF FeedbackClose
<1>10. ASSUME EchoRead \/ EchoTakesOver PROVE FALSE BY <1>10, <1>a DEF EchoRead, EchoTakesOver
<1>11. ASSUME NEW p \in Pods, NEW j \in Jobs, Cron(p, j) PROVE echo' = NoRow /\ Attended
  BY <1>2, <1>3, <1>11, <1>a DEF Cron, CronScan, CronClose
<1>12. CASE UNCHANGED vars BY <1>2, <1>12, <1>a DEF vars
<1> QED BY <1>5, <1>6, <1>7, <1>8, <1>9, <1>10, <1>11, <1>12 DEF Next

--------------------
(* The invariant, and what follows from it. *)

\* The initial state satisfies the invariant.
LEMMA InitInvariant == Init => IInv
<1> SUFFICES ASSUME Init PROVE IInv OBVIOUS
<1> USE ConstantsAssumption DEF Init
<1>t. \A t \in Turns : /\ turn[t].pc = "idle" /\ turn[t].row = NoRow
                       /\ turn[t].early = FALSE
  OBVIOUS
<1>d. \A d \in Desk : desk[d].pc = "idle" /\ desk[d].row = NoRow OBVIOUS
<1>1. TypeOK BY DEF TypeOK, Statuses, TurnState, TurnSteps, DeskState, AllDeskOps
<1>2. HandlesInv BY <1>t, <1>d DEF HandlesInv
<1>3. StepsInv BY <1>t, <1>d DEF StepsInv, TurnKnows, DeskKnows, KnowsRow
<1>4. SavedInv BY <1>t DEF SavedInv, WhereSaved, SavedNowhere, NotYetSaved, HasSaved
<1>5. ReplyInv BY <1>t DEF ReplyInv, WhereReplied, ReplyAnswersBilledTurn
<1>6. ForkInv BY <1>t DEF ForkInv, ForksOnlyFromRacingCreates, LiveRows, Live
<1>7. SilenceInv BY <1>t DEF SilenceInv, MayAnswer
<1>8. AssignedInv BY <1>t, <1>d DEF AssignedInv, AssignedFlowNamesAssignee
<1>9. TakenInv BY <1>t DEF TakenInv
<1>10. HumanInv BY DEF HumanInv, LiveChatHasAgent
<1> QED BY <1>1, <1>2, <1>3, <1>4, <1>5, <1>6, <1>7, <1>8, <1>9, <1>10 DEF IInv

\* The invariant is inductive: it holds in every reachable state.
THEOREM Invariance == Spec => []IInv
<1>1. IInv /\ [Next]_vars => IInv'
  BY TypeStep, HandlesStep, StepsStep, SavedStep, ReplyStep, ForkStep,
     SilenceStep, AssignedStep, TakenStep, HumanStep DEF IInv
<1> QED BY <1>1, InitInvariant, PTL DEF Spec

\* The variables keep their types.
THEOREM TypeCorrect == Spec => []TypeOK
<1>1. IInv => TypeOK BY DEF IInv
<1> QED BY <1>1, Invariance, PTL

\* Whatever the number of turns in flight, no visitor message is stored twice or
\* lost by a turn that ends well.
THEOREM MessagesAreSavedOnce == Spec => []MessageSavedOnce
<1>1. IInv => MessageSavedOnce
 <2> SUFFICES ASSUME IInv, NEW t \in Turns
              PROVE  /\ \A r \in Rows : userSaved[<<r, t>>] <= 1
                     /\ \A r, s \in Rows :
                          userSaved[<<r, t>>] > 0 /\ userSaved[<<s, t>>] > 0 => r = s
                     /\ turn[t].pc = "done" => \E r \in Rows : userSaved[<<r, t>>] = 1
   BY DEF MessageSavedOnce
 <2>1. WhereSaved(t) /\ TurnKnows(t) BY DEF IInv, SavedInv, StepsInv
 <2>2. turn[t].pc = "done" => \E r \in Rows : userSaved[<<r, t>>] = 1
   BY <2>1 DEF WhereSaved, SavedOnlyIn, HasSaved, TurnKnows, KnowsRow
 <2>3. CASE SavedNowhere(t) BY <2>2, <2>3 DEF SavedNowhere
 <2>4. CASE \E r \in Rows : SavedOnlyIn(r, t)
  <3>1. PICK q \in Rows : SavedOnlyIn(q, t) BY <2>4
  <3>2. \A r \in Rows : userSaved[<<r, t>>] = IF r = q THEN 1 ELSE 0 BY <3>1 DEF SavedOnlyIn
  <3> QED BY <2>2, <3>2
 <2> QED BY <2>1, <2>3, <2>4 DEF WhereSaved
<1> QED BY <1>1, Invariance, PTL

\* Every stored bot reply sits beside the message it answers and was billed.
THEOREM RepliesAnswerBilledTurns == Spec => []ReplyAnswersBilledTurn
<1>1. IInv => ReplyAnswersBilledTurn BY DEF IInv, ReplyInv
<1> QED BY <1>1, Invariance, PTL

\* A conversation forks into several rows only by creations that race.
THEOREM ForksComeFromRaces == Spec => []ForksOnlyFromRacingCreates
<1>1. IInv => ForksOnlyFromRacingCreates BY DEF IInv, ForkInv
<1> QED BY <1>1, Invariance, PTL

\* Without the echo takeover a chat with a human always has an agent.
THEOREM LiveChatsHaveAgents == Spec => []LiveChatHasAgent
<1>1. IInv => LiveChatHasAgent BY DEF IInv, HumanInv
<1> QED BY <1>1, Invariance, PTL

\* Agents only ever speak in chats that were assigned to them.
THEOREM AgentsSpeakInTheirChats == Spec => []AgentsSpeakWhereAssigned
<1>1. IInv => AgentsSpeakWhereAssigned BY DEF IInv, AssignedInv, AgentsSpeakWhereAssigned
<1> QED BY <1>1, Invariance, PTL

\* Only chats that have been with a human carry unread messages.
THEOREM UnreadMeansTaken == Spec => []UnreadNeedsHuman
<1>1. IInv => UnreadNeedsHuman BY DEF IInv, TakenInv, UnreadNeedsHuman
<1> QED BY <1>1, Invariance, PTL

\* The agent in an ASSIGNED flow was assigned a chat of the conversation.
THEOREM FlowNamesAnAssignee == Spec => []AssignedFlowNamesAssignee
<1>1. IInv => AssignedFlowNamesAssignee BY DEF IInv, AssignedInv
<1> QED BY <1>1, Invariance, PTL

\* After a takeover the bot answers only turns that were in flight at the time.
THEOREM BotFallsSilent == Spec => BotSilentAfterTakeover
<1> DEFINE Silent == \A r \in Rows, t \in Turns :
             status[r] = "HUMAN_ACTIVE" /\ botSaved'[<<r, t>>] > botSaved[<<r, t>>]
               => t \in before[r]
<1>1. IInv /\ [Next]_vars => Silent
 <2> SUFFICES ASSUME IInv, [Next]_vars, NEW r \in Rows, NEW t \in Turns,
                     status[r] = "HUMAN_ACTIVE",
                     botSaved'[<<r, t>>] > botSaved[<<r, t>>]
              PROVE  t \in before[r]
   OBVIOUS
 <2>a. /\ botSaved \in [Rows \X Turns -> Nat] /\ TypeOK /\ StepsInv /\ SilenceInv
   BY DEF IInv, TypeOK
 <2>b. botSaved'[<<r, t>>] # botSaved[<<r, t>>] BY <2>a
 <2>1. CASE AppendReply(t)
  <3>1. /\ turn[t].pc = "append" /\ turn[t].row \in Rows
        /\ botSaved' = [botSaved EXCEPT ![<<turn[t].row, t>>] = @ + 1]
    BY <2>a, <2>1 DEF AppendReply, StepsInv, TurnKnows, KnowsRow
  <3>2. turn[t].row = r BY <2>a, <2>b, <3>1, CopyUpdate
  <3> QED BY <2>a, <3>1, <3>2 DEF SilenceInv, MayAnswer
 <2>2. CASE CreateRow(t)
  <3>1. PICK s \in Rows :
           /\ status[s] = "absent" /\ botSaved' = [botSaved EXCEPT ![<<s, t>>] = @ + 1]
    BY <2>a, <2>2, CreateEffect
  <3>2. s = r BY <2>a, <2>b, <3>1, CopyUpdate
  <3> QED BY <3>1, <3>2
 <2>3. ASSUME NEW u \in Turns, VisitorTurn(u)
       PROVE  AppendReply(t) \/ CreateRow(t)
  <3>1. u = t BY <2>a, <2>b, <2>3, OwnCopies
  <3>2. AppendReply(u) \/ CreateRow(u) \/ UNCHANGED botSaved
    BY <2>3
    DEF VisitorTurn, Lookup, Reopen, BypassSave, BypassCount, CallGateway,
        GatewayReply, RaceCheck, RequestHandoff, AssignAgent, NobodyToAssign,
        CheckHandoff, PromoteHandoff, TurnFails, savedVars
  <3> QED BY <2>b, <3>1, <3>2
 <2>4. \E u \in Turns : VisitorTurn(u) BY <2>b, OtherFrame DEF Next, OtherStep, vars, savedVars
 <2> QED BY <2>1, <2>2, <2>3, <2>4
<1> QED BY <1>1, Invariance, PTL DEF Spec, BotSilentAfterTakeover

\* A human loses a chat to the bot only to a turn that took it for closed before.
THEOREM BotReturnsOnlyByStaleReopen == Spec => BackToBotOnlyByStaleReopen
<1> DEFINE Return == \A r \in Rows :
             status[r] = "HUMAN_ACTIVE" /\ status'[r] = "BOT_ACTIVE"
               => \E t \in before[r] : turn[t].pc = "reopen" /\ turn[t].row = r
<1>1. IInv /\ [Next]_vars => Return
 <2> SUFFICES ASSUME IInv, [Next]_vars, NEW r \in Rows,
                     status[r] = "HUMAN_ACTIVE", status'[r] = "BOT_ACTIVE"
              PROVE  \E t \in before[r] : turn[t].pc = "reopen" /\ turn[t].row = r
   OBVIOUS
 <2>a. /\ status \in [Rows -> Statuses \cup {"absent"}] /\ TypeOK /\ SilenceInv
   BY DEF IInv, TypeOK
 <2>1. ASSUME NEW s, GoHuman(s) PROVE FALSE BY <2>a, <2>1 DEF GoHuman
 <2>2. ASSUME NEW S, CloseRows(S) PROVE FALSE BY <2>2 DEF CloseRows
 <2>3. ASSUME NEW t \in Turns, Reopen(t)
       PROVE  \E u \in before[r] : turn[u].pc = "reopen" /\ turn[u].row = r
  <3>1. turn[t].pc = "reopen" /\ turn[t].row = r BY <2>a, <2>3 DEF Reopen
  <3>2. t \in before[r] BY <2>a, <3>1 DEF SilenceInv, MayAnswer
  <3> QED BY <3>1, <3>2
 <2>4. ASSUME NEW t \in Turns, CreateRow(t) PROVE FALSE BY <2>a, <2>4 DEF CreateRow
 <2>5. ASSUME NEW d \in Desk, CloseChat(d) PROVE FALSE BY <2>a, <2>5 DEF CloseChat
 <2>6. \/ \E t \in Turns : Reopen(t) \/ CreateRow(t)
       \/ \E s : GoHuman(s)
       \/ \E S : CloseRows(S)
       \/ \E d \in Desk : CloseChat(d)
  <3> USE DEF rowVars
  <3>1. ASSUME NEW t \in Turns, VisitorTurn(t)
        PROVE  Reopen(t) \/ CreateRow(t) \/ \E s : GoHuman(s)
    BY <3>1
    DEF VisitorTurn, Lookup, BypassSave, BypassCount, CallGateway,
        GatewayReply, RaceCheck, AppendReply, RequestHandoff, AssignAgent,
        Assign, NobodyToAssign, CheckHandoff, PromoteHandoff, TurnFails
  <3>2. ASSUME NEW d \in Desk, DeskRequest(d)
        PROVE  CloseChat(d) \/ \E s : GoHuman(s)
    BY <3>2 DEF DeskRequest, DeskRead, HandoverChat, Assign, SendAgentMessage,
                ClearUnread, DeleteChat
  <3>3. ~\E s \in Rows : MarkRead(s) \/ Age(s) BY DEF MarkRead, Age
  <3>4. ASSUME FeedbackRead \/ FeedbackClose \/ EchoRead \/ EchoTakesOver
        PROVE  (\E s : GoHuman(s)) \/ \E S : CloseRows(S)
    BY <3>4 DEF FeedbackRead, FeedbackClose, EchoRead, EchoTakesOver
  <3>5. ASSUME NEW p \in Pods, NEW j \in Jobs, Cron(p, j) PROVE \E S : CloseRows(S)
    BY <3>5 DEF Cron, CronScan, CronClose
  <3>6. ~UNCHANGED vars BY DEF vars
  <3> QED BY <3>1, <3>2, <3>3, <3>4, <3>5, <3>6 DEF Next
 <2> QED BY <2>1, <2>2, <2>3, <2>4, <2>5, <2>6
<1> QED BY <1>1, Invariance, PTL DEF Spec, BackToBotOnlyByStaleReopen
=============================================================================
