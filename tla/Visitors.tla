------------------------------ MODULE Visitors ------------------------------
(***************************************************************************)
(* Visitors of the widget: the session that names one by its fingerprint,  *)
(* the daily limits and the risk score of its messages, blocking, and the  *)
(* feedback at the end of a conversation.  The answer of the bot, in one   *)
(* piece or streamed, is LiveChat's subject: here it takes its time, fails *)
(* or says how many tokens it used.                                        *)
(***************************************************************************)
EXTENDS Requests

CONSTANTS
  Fingers,         \* what the address, the browser and its language hash to
  MaxMessages, MaxTokens, MaxRisk,
  Answers3         \* how satisfied a visitor may be

VARIABLES
  visitor,    \* Seq(row of WidgetVisitor)
  issued,     \* rows a session token names
  today,      \* days gone by
  talk,       \* the conversation feedback is about: its rating, and whether it is closed
  marker,     \* rating in the flow state of the conversation
  feedback    \* Seq(row of ChatFeedback), by the call that gave it

visitorVars == <<visitor, issued, today, talk, marker, feedback>>
VisitorOps == {"session", "chat", "chatStream", "block", "unblock", "nightly", "feedback", "rate"}
Chats == {"chat", "chatStream"}

VisitorsInit ==
  /\ visitor = <<>> /\ issued = {} /\ today = 0 /\ feedback = <<>>
  /\ talk = [rating |-> None, closed |-> FALSE] /\ marker = None

Finger(q) == Does(q).who
RowsFor(f) == {i \in DOMAIN visitor : visitor[i].finger = f}
rest == <<today, talk, marker, feedback>>

-----------------------------------------------------------------------------
(* createSession                                                           *)

FindVisitor(q) ==
  /\ \/ RowsFor(Finger(q)) = {} /\ Starts(q, {"session"}, "create", None)
     \/ \E i \in RowsFor(Finger(q)) : Starts(q, {"session"}, "refresh", [row |-> i, blocked |-> visitor[i].blocked])
     \/ plan.failures /\ Answers(q, {"session"}, "forbidden")
  /\ UNCHANGED visitorVars
NewVisitor(q) == [finger |-> Finger(q), blocked |-> FALSE, msgs |-> 0, toks |-> 0, risk |-> 0, day |-> today, by |-> q]
CreateVisitor(q) ==
  /\ At(q, {"session"}, "create") /\ Ends(q, "session")
  /\ visitor' = Append(visitor, NewVisitor(q)) /\ issued' = issued \cup {Len(visitor) + 1}
  /\ UNCHANGED rest
\* The hashes are written again; the block is the one that was read.
RefreshVisitor(q) ==
  /\ At(q, {"session"}, "refresh")
  /\ IF Loc(q).blocked THEN Ends(q, "denied") /\ UNCHANGED issued
     ELSE Ends(q, "session") /\ issued' = issued \cup {Loc(q).row}
  /\ UNCHANGED <<visitor, rest>>

-----------------------------------------------------------------------------
(* A message                                                               *)

NeedsReset(i) == visitor[i].day # today
ReadCounters(i) ==
  IF NeedsReset(i) THEN [row |-> i, now |-> today, reset |-> TRUE, msgs |-> 0, toks |-> 0, risk |-> 0]
  ELSE [row |-> i, now |-> today, reset |-> FALSE, msgs |-> visitor[i].msgs, toks |-> visitor[i].toks, risk |-> visitor[i].risk]

Limited(c) == c.msgs >= MaxMessages \/ c.toks >= MaxTokens
BeginChat(q) ==
  /\ \E i \in RowsFor(Finger(q)) \cap issued :
       LET c == ReadCounters(i)
       IN IF visitor[i].blocked THEN Answers(q, Chats, "denied")
          ELSE IF Limited(c) THEN Answers(q, Chats, "limited")
          ELSE \/ Starts(q, Chats, "answer", c)
               \/ plan.failures /\ Answers(q, Chats, "inactive")
  /\ UNCHANGED visitorVars
ChatFails(q) == plan.failures /\ At(q, Chats, "answer") /\ Ends(q, "failed") /\ UNCHANGED visitorVars

\* A long message, a message close to the limit, one closer still.
Risk(n, long) == (IF long THEN 5 ELSE 0) + (IF 10 * n > 8 * MaxMessages THEN 10 ELSE 0)
                 + (IF 10 * n > 9 * MaxMessages THEN 20 ELSE 0)
Capped(n) == IF n > 100 THEN 100 ELSE n
\* Mutation: a message with a low risk takes the block back.
VerdictAnew(blocked, risk) == risk >= MaxRisk
Verdict(blocked, risk) == blocked \/ risk >= MaxRisk
\* The counters that were read, with this message, are what the row holds.
CountChat(q) ==
  /\ At(q, Chats, "answer") /\ Ends(q, "answered")
  /\ \E used \in plan.tokens :
       LET c == Loc(q)
           risk == Capped(c.risk + Risk(c.msgs + 1, Does(q).long))
       IN visitor' = [visitor EXCEPT ![c.row].msgs = c.msgs + 1, ![c.row].toks = c.toks + used,
                                     ![c.row].risk = risk, ![c.row].blocked = Verdict(@, risk),
                                     ![c.row].day = IF c.reset THEN c.now ELSE @]
  /\ UNCHANGED <<issued, rest>>

-----------------------------------------------------------------------------
(* Administrators and the night                                            *)

BlockVisitor(q) ==
  /\ Answers(q, {"block"}, "blocked")
  /\ \E i \in RowsFor(Finger(q)) : visitor' = [visitor EXCEPT ![i].blocked = TRUE]
  /\ UNCHANGED <<issued, rest>>
UnblockVisitor(q) ==
  /\ Answers(q, {"unblock"}, "unblocked")
  /\ \E i \in RowsFor(Finger(q)) : visitor' = [visitor EXCEPT ![i].blocked = FALSE, ![i].risk = 0]
  /\ UNCHANGED <<issued, rest>>
\* Each pod runs it.
resetDailyVisitorStats(q) ==
  /\ today > 0 /\ Answers(q, {"nightly"}, "reset")
  /\ visitor' = [i \in DOMAIN visitor |-> [visitor[i] EXCEPT !.msgs = 0, !.toks = 0, !.risk = 0, !.day = today]]
  /\ UNCHANGED <<issued, rest>>
Midnight == /\ today < plan.days /\ today' = today + 1
            /\ UNCHANGED <<plan, call, visitor, issued, talk, marker, feedback>>

-----------------------------------------------------------------------------
(* recordFeedback                                                          *)

CloseRated(q) ==
  /\ Starts(q, {"feedback", "rate"}, "mark", None)
  /\ talk' = [rating |-> Does(q).answer, closed |-> TRUE]
  /\ UNCHANGED <<visitor, issued, today, marker, feedback>>
Marked(answer) == answer
\* safeTransition: the flow state is left as it is when it cannot be written.
\* A rating without an answer is kept nowhere else.
MarkFeedback(q) ==
  /\ At(q, {"feedback", "rate"}, "mark")
  /\ IF Does(q).op = "rate" THEN Ends(q, "rated") ELSE Goes(q, "store", None)
  /\ \/ marker' = Marked(Does(q).answer)
     \/ plan.failures /\ UNCHANGED marker
  /\ UNCHANGED <<visitor, issued, today, talk, feedback>>
\* The owner of a bot hears of a visitor who was not satisfied, then the row is
\* created; a mail that is not sent is noted in it.
StoreFeedback(q) ==
  /\ At(q, {"feedback"}, "store") /\ Ends(q, "stored")
  /\ feedback' = Append(feedback, Does(q).answer)
  /\ UNCHANGED <<visitor, issued, today, talk, marker>>

createSession(q) == FindVisitor(q) \/ CreateVisitor(q) \/ RefreshVisitor(q)
VisitorMessage(q) == BeginChat(q) \/ ChatFails(q) \/ CountChat(q)
\* chat, and the same for an answer that is streamed
widgetChat(q) == Does(q).op = "chat" /\ VisitorMessage(q)
chatStream(q) == Does(q).op = "chatStream" /\ VisitorMessage(q)
recordFeedback(q) == CloseRated(q) \/ MarkFeedback(q) \/ StoreFeedback(q)

VisitorStep(q) ==
  /\ \/ createSession(q) \/ widgetChat(q) \/ chatStream(q)
     \/ BlockVisitor(q) \/ UnblockVisitor(q) \/ resetDailyVisitorStats(q) \/ recordFeedback(q)
     \/ Does(q).op \in VisitorOps /\ Dies(q) /\ UNCHANGED visitorVars
  /\ UNCHANGED plan
VisitorsNext == Midnight \/ \E q \in Calls : VisitorStep(q)

-----------------------------------------------------------------------------
(* Properties                                                              *)

\* The rows of this module have the shape of the schema.
VisitorsTypeOK ==
  /\ \A i \in DOMAIN visitor : /\ visitor[i].finger \in Fingers /\ visitor[i].blocked \in BOOLEAN
                               /\ visitor[i].msgs \in 0..MaxMessages /\ visitor[i].toks \in Nat
                               /\ visitor[i].risk \in 0..100 /\ visitor[i].day \in 0..today
  /\ issued \subseteq DOMAIN visitor
  /\ talk.rating \in Answers3 \cup {None} /\ marker \in Answers3 \cup {None}
  /\ \A i \in DOMAIN feedback : feedback[i] \in Answers3

\* One browser is one visitor, and so has one budget, unless two sessions were
\* opened at the same time (createSession looks for the fingerprint, then
\* creates the row; the schema has no unique key for it).
OneVisitorUnlessRacing ==
  \A i, k \in DOMAIN visitor : i # k /\ visitor[i].finger = visitor[k].finger => Overlap(visitor[i].by, visitor[k].by)

AnsweredFor(i) == {q \in Calls : Does(q).op \in Chats /\ call[q].end = "answered" /\ Loc(q).row = i}
\* Messages one at a time, none across the night's reset.
InTurns(S) == \A q \in S : ~\E r \in Calls : /\ Does(r).op = "nightly" \/ (Does(r).op \in Chats /\ Does(r).who = Does(q).who)
                                             /\ Overlap(q, r)
Wiped(q) == \E r \in Calls : Does(r).op = "nightly" /\ Begun(r) /\ q \in call[r].since
\* The counter of the day says how many answers a visitor got since it was
\* last reset, unless messages overlapped each other or the reset (chat reads
\* the counters before the answer and overwrites them after it).
CountExplained ==
  \A i \in DOMAIN visitor :
    LET counted == {q \in AnsweredFor(i) : Loc(q).now = visitor[i].day /\ ~Wiped(q)}
        chats == {q \in Calls : Does(q).op \in Chats /\ Begun(q) /\ Loc(q) # None}
    IN InTurns(chats) => visitor[i].msgs = Cardinality(counted)

\* A visitor gets more answers in a day than the bot allows only by messages
\* that overlap, or across the night's reset.
DailyLimitOnlyRacing ==
  \A i \in DOMAIN visitor : \A S \in SUBSET AnsweredFor(i) :
    /\ \A q, r \in S : Loc(q).now = Loc(r).now
    /\ ~\E r \in Calls : Does(r).op = "nightly" /\ Begun(r)
    /\ InTurns(S)
    => Cardinality(S) <= MaxMessages

\* A block, by the risk score or by an administrator, stays until an
\* administrator lifts it: no message that was on its way and no night does.
BlockedUntilUnblocked ==
  [][\A i \in DOMAIN visitor : visitor[i].blocked /\ ~visitor'[i].blocked
        => \E q \in Calls : Does(q).op = "unblock" /\ call[q].pc = "new" /\ call'[q].pc = "done"]_<<plan, call, visitorVars>>

\* The conversation and its flow state keep the same rating once every feedback
\* is through, and the last stored row too where no bare rating came after it,
\* unless two were given at the same time (recordFeedback writes the three one
\* after the other).
FeedbackAgrees ==
  LET given == {q \in Calls : Does(q).op \in {"feedback", "rate"} /\ Begun(q)}
      newest == feedback[Len(feedback)]
  IN /\ ~plan.failures /\ given # {}
     /\ \A q \in given : call[q].pc = "done" /\ ~Racing(q, {"feedback", "rate"})
     => /\ talk.closed /\ talk.rating = marker
        /\ Len(feedback) > 0 => newest = marker \/ \E q \in given : Does(q).op = "rate"

\* One browser is one visitor with one budget, which is counted and kept, a
\* block stays, and what a visitor thought of the conversation is kept once.
VisitorsKept ==
  []OneVisitorUnlessRacing /\ []CountExplained /\ []DailyLimitOnlyRacing /\ []FeedbackAgrees /\ BlockedUntilUnblocked
=============================================================================
