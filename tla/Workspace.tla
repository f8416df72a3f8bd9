----------------------------- MODULE Workspace -----------------------------
(***************************************************************************)
(* What one team keeps: its bots, the files and chat attachments in object *)
(* storage, the web pages, questions and texts its bots learn from, and    *)
(* the two quotas that count them.                                         *)
(*                                                                         *)
(* A call is one request of the dashboard or the widget on some pod; its   *)
(* steps lie between the awaits.  The ingestion service is the             *)
(* environment: it takes the rows that are UPLOADED when its task starts,  *)
(* indexes them, counts a page as 1, and tells every pod when a task has   *)
(* failed.  A file has the size the plan gives it.                         *)
(***************************************************************************)
EXTENDS Integers, Sequences, FiniteSets, Functions

CONSTANTS
  Calls,    \* requests; each is made at most once
  Bots,
  Files,    \* files and attachments
  Urls,     \* pages, questions and texts
  Pods,
  Plans,    \* what an instance may do
  None

Uploads == {"upload", "attach", "widget"}
Ops == Uploads \cup {"deleteFile", "deleteFiles", "deleteAttachment", "createBot", "deleteBot",
                     "add", "addPages", "drop", "dropPages", "edit", "reingest", "none"}
\* An edit gives its page the address "to", which may be the one it has.
Op == [op : Ops, bot : Bots, pod : Pods, files : SUBSET Files, urls : SUBSET Urls, to : Urls, force : BOOLEAN]

\* An upload makes rows of its own, and so does createBot; all but uploadSingle
\* and deleteAll are about one file.
OwnRows(p) ==
  \A q \in Calls :
    /\ p.ops[q].op \in Uploads => p.ops[q].files \cap p.stored = {}
    /\ p.ops[q].op = "createBot" => p.ops[q].bot # p.bot
    /\ \A r \in Calls \ {q} :
         /\ p.ops[q].op \in Uploads /\ p.ops[r].op \in Uploads => p.ops[q].files \cap p.ops[r].files = {}
         /\ p.ops[q].op = "createBot" /\ p.ops[r].op = "createBot" => p.ops[q].bot # p.ops[r].bot
    /\ p.ops[q].op \in {"attach", "widget", "deleteFile", "deleteAttachment"} => \E f \in Files : p.ops[q].files = {f}

ASSUME PlanAssumption ==
  /\ Plans \subseteq [ops : [Calls -> Op], stored : SUBSET Files, indexed : SUBSET Urls,
                      size : [Files -> Nat \ {0}], limit : Nat, bot : Bots, botLimit : Nat,
                      failures : BOOLEAN]
  /\ \A p \in Plans : OwnRows(p)
  /\ IsFiniteSet(Files) /\ IsFiniteSet(Bots) /\ IsFiniteSet(Urls) /\ None \notin Calls

VARIABLES
  plan,
  bot,       \* [Bots -> state]
  botUsed,   \* used of the BOT quota
  cascade,   \* [Bots -> where the background cleanup of a deleted bot is]
  sweep,     \* [Bots -> the files it has to hide, the one in hand, those it could not hide]
  chats,     \* the bots whose chats are listed
  file,      \* [Files -> Storage row and object]
  used,      \* used of the FILE quota
  lock,      \* the pods whose cache holds the team's quota lock
  page,      \* Seq(Content row)
  vectors,   \* {<<bot, url>>} the ingestion service has indexed
  task,      \* Seq(task) of the ingestion service
  notices,   \* {<<pod, task>>}: notices of failed tasks on their way
  call       \* [Calls -> local state]

vars == <<plan, bot, botUsed, cascade, sweep, chats, file, used, lock, page, vectors, task, notices, call>>
bots == <<bot, botUsed, cascade, sweep, chats>>
content == <<page, vectors, task, notices>>

SizeOf(S) == SumFunctionOnSet(plan.size, S)
Over == {"done", "dead"}

NoFile == [status |-> "none", deleted |-> FALSE, object |-> FALSE, bot |-> None]
NewFile(b) == [status |-> "UPLOADED", deleted |-> FALSE, object |-> TRUE, bot |-> b]
NewPage(b, u, q) ==
  [bot |-> b, url |-> u, by |-> q, status |-> "UPLOADED", task |-> 0, deleted |-> FALSE, gone |-> FALSE]
Idle == [pc |-> "new", seen |-> 0, rows |-> {}, left |-> {}, cut |-> {}, at |-> None, end |-> "none", since |-> {}]
NoSweep == [left |-> {}, at |-> None, kept |-> {}]

InSomeOrder(S) == CHOOSE s \in [1 .. Cardinality(S) -> S] : {s[i] : i \in DOMAIN s} = S

Init ==
  /\ plan \in Plans
  /\ bot = [b \in Bots |-> IF b = plan.bot THEN "live" ELSE "none"] /\ botUsed = 1
  /\ cascade = [b \in Bots |-> "none"] /\ sweep = [b \in Bots |-> NoSweep] /\ chats = {plan.bot}
  /\ file = [f \in Files |-> IF f \in plan.stored THEN [NewFile(plan.bot) EXCEPT !.status = "INDEXED"]
                             ELSE NoFile]
  /\ page = [i \in 1 .. Cardinality(plan.indexed) |->
               [NewPage(plan.bot, InSomeOrder(plan.indexed)[i], None) EXCEPT !.status = "INDEXED"]]
  /\ vectors = {<<plan.bot, u>> : u \in plan.indexed}
  /\ used = SizeOf(plan.stored) + Cardinality(plan.indexed)
  /\ lock = {} /\ task = <<>> /\ notices = {} /\ call = [q \in Calls |-> Idle]

Does(q) == plan.ops[q]
\* A call is over when its steps are, and the task it dispatched.
Finished(r) ==
  call[r].pc \in Over /\ \A t \in DOMAIN task : task[t].by = r => task[t].status \in {"completed", "failed"}
Starts(q, ops, local) ==
  /\ call[q].pc = "new" /\ Does(q).op \in ops
  /\ call' = [call EXCEPT ![q] = [local EXCEPT !.since = {r \in Calls : Finished(r)}]]
Moves(q, from, local) == call[q].pc = from /\ call' = [call EXCEPT ![q] = local]
Goes(q, from, to) == Moves(q, from, [call[q] EXCEPT !.pc = to])
Ends(q, from, how) == Moves(q, from, [call[q] EXCEPT !.pc = "done", !.end = how])

-----------------------------------------------------------------------------
(* Uploads: uploadSingle and uploadChatAttachment take the team's lock in  *)
(* the cache of their pod, the widget's attachment takes none.             *)

TestLock(q) ==
  LET locked == Does(q).pod \in lock
  IN /\ Starts(q, {"upload", "attach"}, [call[q] EXCEPT !.pc = IF locked THEN "done" ELSE "lock",
                                            !.end = IF locked THEN "conflict" ELSE "none"])
     /\ UNCHANGED <<plan, bots, file, used, lock, content>>
SetLock(q) ==
  /\ Goes(q, "lock", "check") /\ lock' = lock \cup {Does(q).pod}
  /\ UNCHANGED <<plan, bots, file, used, content>>
\* The time to live is 60, and the cache counts milliseconds.
LockExpires(p) ==
  /\ p \in lock /\ lock' = lock \ {p}
  /\ UNCHANGED <<plan, bots, file, used, content, call>>

\* Mutation: an upload that starts under the limit may end beyond it.
FitsNow(q) == used < plan.limit
Fits(q) == used + SizeOf(Does(q).files) <= plan.limit

CheckQuota(q) ==
  LET local == [call[q] EXCEPT !.seen = used, !.pc = IF Fits(q) THEN "store" ELSE "unlock",
                               !.end = IF Fits(q) THEN "none" ELSE "full"]
  IN /\ Starts(q, {"widget"}, local) \/ Moves(q, "check", local)
     /\ UNCHANGED <<plan, bots, file, used, lock, content>>

\* Each file's object, then its row; an upload that fails leaves those before it.
StoreFiles(q) ==
  /\ \/ /\ Goes(q, "store", "count")
        /\ file' = [f \in Files |-> IF f \in Does(q).files THEN NewFile(Does(q).bot) ELSE file[f]]
     \/ /\ plan.failures /\ Moves(q, "store", [call[q] EXCEPT !.pc = "unlock", !.end = "threw"])
        /\ \E S, T \in SUBSET Does(q).files :
             /\ S # Does(q).files /\ S \cap T = {}
             /\ file' = [f \in Files |-> CASE f \in S -> NewFile(Does(q).bot)
                                           [] f \in T -> [file[f] EXCEPT !.object = TRUE] [] OTHER -> file[f]]
  /\ UNCHANGED <<plan, bots, used, lock, content>>

\* uploadSingle overwrites what it read, attachments increment.
CountUpload(q) ==
  /\ Moves(q, "count", [call[q] EXCEPT !.pc = "unlock", !.end = "stored"])
  /\ used' = SizeOf(Does(q).files) + (IF Does(q).op = "upload" THEN call[q].seen ELSE used)
  /\ UNCHANGED <<plan, bots, file, lock, content>>
ReleaseLock(q) ==
  /\ Goes(q, "unlock", "done")
  /\ lock' = IF Does(q).op = "widget" THEN lock ELSE lock \ {Does(q).pod}
  /\ UNCHANGED <<plan, bots, file, used, content>>

-----------------------------------------------------------------------------
(* Deletions: delete, deleteAll, deleteChatAttachment.                     *)
IsRow(f) == file[f].status # "none"
\* Written over what was read, never below zero.
Lower(q, n) == used' = IF call[q].seen < n THEN 0 ELSE call[q].seen - n

FindFile(q) ==
  LET found == {f \in Does(q).files : IsRow(f)}
  IN /\ Starts(q, {"deleteFile"}, [call[q] EXCEPT !.pc = IF found = {} THEN "done" ELSE "object",
                                                  !.rows = found, !.end = "none"])
     /\ UNCHANGED <<plan, bots, file, used, lock, content>>
\* Where the object of an attachment stays, that is logged.
DeleteObject(q) ==
  /\ \/ /\ Goes(q, "object", IF Does(q).op = "deleteFile" THEN "row" ELSE "hide")
        /\ file' = [f \in Files |-> IF f \in call[q].rows THEN [file[f] EXCEPT !.object = FALSE] ELSE file[f]]
     \/ /\ plan.failures /\ UNCHANGED file
        /\ IF Does(q).op = "deleteFile" THEN Ends(q, "object", "threw") ELSE Goes(q, "object", "hide")
  /\ UNCHANGED <<plan, bots, used, lock, content>>
\* A row that is gone already makes the delete throw.
DeleteRow(q) ==
  /\ call[q].pc = "row"
  /\ IF \A f \in call[q].rows : IsRow(f)
     THEN /\ Moves(q, "row", [call[q] EXCEPT !.pc = "lower", !.seen = used])
          /\ file' = [f \in Files |-> IF f \in call[q].rows THEN NoFile ELSE file[f]]
     ELSE Ends(q, "row", "threw") /\ UNCHANGED file
  /\ UNCHANGED <<plan, bots, used, lock, content>>
\* The vectors are asked for last; what the service answers changes nothing here.
LowerUsage(q) ==
  /\ Ends(q, "lower", "deleted") /\ Lower(q, SizeOf(call[q].rows))
  /\ UNCHANGED <<plan, bots, file, lock, content>>

\* deleteAll marks the rows, answers, and goes on in the background.
MarkFiles(q) ==
  LET found == {f \in Does(q).files : IsRow(f)}
  IN /\ Starts(q, {"deleteFiles"}, [call[q] EXCEPT !.rows = found, !.left = found,
                                      !.pc = IF found = {} THEN "done" ELSE "files"])
     /\ file' = [f \in Files |-> IF f \in found THEN [file[f] EXCEPT !.status = "BEING_DELETED"] ELSE file[f]]
     /\ UNCHANGED <<plan, bots, used, lock, content>>
\* One file at a time: its object, then its vectors and its row; after a failure
\* of any, INDEXED again.
DropObject(q) ==
  \E f \in call[q].left :
    /\ call[q].at = None /\ Moves(q, "files", [call[q] EXCEPT !.at = f])
    /\ file' = [file EXCEPT ![f].object = FALSE]
    /\ UNCHANGED <<plan, bots, used, lock, content>>
DeleteNext(q, f) ==
  /\ call[q].pc = "files" /\ f \in call[q].left
  /\ \/ /\ call[q].at = f /\ IsRow(f) /\ file' = [file EXCEPT ![f] = NoFile]
        /\ Moves(q, "files", [call[q] EXCEPT !.left = @ \ {f}, !.cut = @ \cup {f}, !.at = None])
     \/ /\ call[q].at = f \/ (call[q].at = None /\ plan.failures)
        /\ Moves(q, "files", [call[q] EXCEPT !.left = @ \ {f}, !.at = None])
        /\ IF IsRow(f) THEN plan.failures /\ file' = [file EXCEPT ![f].status = "INDEXED"] ELSE UNCHANGED file
  /\ UNCHANGED <<plan, bots, used, lock, content>>
\* What was asked for is taken off, not what was deleted.
ReadBulk(q) ==
  /\ call[q].pc = "files" /\ call[q].left = {}
  /\ IF call[q].cut = {} THEN Ends(q, "files", "threw")
     ELSE Moves(q, "files", [call[q] EXCEPT !.pc = "lower", !.seen = used])
  /\ UNCHANGED <<plan, bots, file, used, lock, content>>

\* Only what was uploaded to a chat is found (source: 'chat_upload').
FromChat(f) == \E r \in Calls : Does(r).op \in {"attach", "widget"} /\ f \in Does(r).files
FindAttachment(q) ==
  LET found == {f \in Does(q).files : FromChat(f) /\ IsRow(f) /\ ~file[f].deleted}
  IN /\ Starts(q, {"deleteAttachment"}, [call[q] EXCEPT !.pc = IF found = {} THEN "done" ELSE "object",
                                                        !.rows = found])
     /\ UNCHANGED <<plan, bots, file, used, lock, content>>
\* A row that is gone cannot be updated.
HideAttachment(q) ==
  /\ call[q].pc = "hide"
  /\ IF \A f \in call[q].rows : IsRow(f)
     THEN /\ Goes(q, "hide", "decrement")
          /\ file' = [f \in Files |-> IF f \in call[q].rows THEN [file[f] EXCEPT !.deleted = TRUE] ELSE file[f]]
     ELSE Ends(q, "hide", "threw") /\ UNCHANGED file
  /\ UNCHANGED <<plan, bots, used, lock, content>>
DecrementUsage(q) ==
  /\ Ends(q, "decrement", "deleted") /\ used' = used - SizeOf(call[q].rows)
  /\ UNCHANGED <<plan, bots, file, lock, content>>

-----------------------------------------------------------------------------
(* Bots: createBot counts the rows and reads the quota, deleteBot cleans up  *)
(* in the background.                                                      *)
LiveBots == {b \in Bots : bot[b] = "live"}
HasRoom == Cardinality(LiveBots) < plan.botLimit

ReadBots(q) ==
  /\ Starts(q, {"createBot"}, [call[q] EXCEPT !.pc = IF HasRoom THEN "create" ELSE "done",
                                 !.end = IF HasRoom THEN "none" ELSE "full", !.seen = botUsed])
  /\ UNCHANGED <<plan, bots, file, used, lock, content>>
CreateBot(q) ==
  /\ Goes(q, "create", "countBot") /\ bot' = [bot EXCEPT ![Does(q).bot] = "live"]
  /\ UNCHANGED <<plan, botUsed, cascade, sweep, chats, file, used, lock, content>>
CountBot(q) ==
  /\ Ends(q, "countBot", "created") /\ botUsed' = call[q].seen + 1
  /\ UNCHANGED <<plan, bot, cascade, sweep, chats, file, used, lock, content>>

FindBot(q) ==
  LET live == bot[Does(q).bot] = "live"
  IN /\ Starts(q, {"deleteBot"}, [call[q] EXCEPT !.pc = IF live THEN "bot" ELSE "done"])
     /\ UNCHANGED <<plan, bots, file, used, lock, content>>
\* The cleanup starts with the files it finds; the row goes meanwhile.
DeleteBot(q) ==
  LET b == Does(q).bot
  IN /\ Goes(q, "bot", "readBots")
     /\ bot' = [bot EXCEPT ![b] = "deleted"] /\ cascade' = [cascade EXCEPT ![b] = "files"]
     /\ UNCHANGED <<plan, botUsed, sweep, chats, file, used, lock, content>>
ReadBotQuota(q) ==
  /\ Moves(q, "readBots", [call[q] EXCEPT !.pc = "uncount", !.seen = botUsed])
  /\ UNCHANGED <<plan, bots, file, used, lock, content>>
UncountBot(q) ==
  /\ Ends(q, "uncount", "deleted") /\ botUsed' = IF call[q].seen = 0 THEN 0 ELSE call[q].seen - 1
  /\ UNCHANGED <<plan, bot, cascade, sweep, chats, file, used, lock, content>>

\* performBotCascadeCleanup: for each file it found the object and then the row,
\* whose failures are logged; the contents, the chats, and the index of the bot,
\* for which the service may have no endpoint.  Where a step throws, or the pod
\* dies, nothing goes on.
ListedFiles(b) == {f \in Files : file[f].bot = b /\ IsRow(f) /\ ~file[f].deleted}
Cleans(b, from, to) == cascade[b] = from /\ cascade' = [cascade EXCEPT ![b] = to]
FindFiles(b) ==
  /\ Cleans(b, "files", "sweep") /\ sweep' = [sweep EXCEPT ![b] = [left |-> ListedFiles(b), at |-> @.at, kept |-> @.kept]]
  /\ UNCHANGED <<plan, bot, botUsed, chats, file, used, lock, content, call>>
SweepObject(b) ==
  \E f \in sweep[b].left :
    /\ cascade[b] = "sweep" /\ sweep[b].at = None
    /\ sweep' = [sweep EXCEPT ![b] = [left |-> @.left \ {f}, at |-> f, kept |-> @.kept]]
    /\ file' = [file EXCEPT ![f].object = FALSE] \/ (plan.failures /\ UNCHANGED file)
    /\ UNCHANGED <<plan, bot, botUsed, cascade, chats, used, lock, content, call>>
\* A row that is gone meanwhile cannot be updated, which is logged too.
SweepRow(b) ==
  /\ cascade[b] = "sweep" /\ sweep[b].at # None
  /\ \E K \in {{}, {sweep[b].at}} :
       /\ sweep' = [sweep EXCEPT ![b] = [left |-> @.left, at |-> None, kept |-> @.kept \cup K]]
       /\ IF K = {} THEN file' = [f \in Files |-> IF f = sweep[b].at /\ IsRow(f) THEN [file[f] EXCEPT !.deleted = TRUE]
                                                ELSE file[f]]
          ELSE plan.failures /\ UNCHANGED file
  /\ UNCHANGED <<plan, bot, botUsed, cascade, chats, used, lock, content, call>>
CascadeFiles(b) == FindFiles(b) \/ SweepObject(b) \/ SweepRow(b)
\* Mutation: only the pages that are indexed.
CascadeIndexed(b) ==
  /\ sweep[b].left = {} /\ sweep[b].at = None /\ Cleans(b, "sweep", "chats")
  /\ page' = [i \in DOMAIN page |-> IF page[i].bot = b /\ page[i].status = "INDEXED"
                                    THEN [page[i] EXCEPT !.deleted = TRUE] ELSE page[i]]
  /\ UNCHANGED <<plan, bot, botUsed, sweep, chats, file, used, lock, vectors, task, notices, call>>
CascadeContents(b) ==
  /\ sweep[b].left = {} /\ sweep[b].at = None /\ Cleans(b, "sweep", "chats")
  /\ page' = [i \in DOMAIN page |-> IF page[i].bot = b THEN [page[i] EXCEPT !.deleted = TRUE] ELSE page[i]]
  /\ UNCHANGED <<plan, bot, botUsed, sweep, chats, file, used, lock, vectors, task, notices, call>>
CascadeChats(b) ==
  /\ Cleans(b, "chats", "index") /\ chats' = chats \ {b}
  /\ UNCHANGED <<plan, bot, botUsed, sweep, file, used, lock, content, call>>
\* The service drops the vectors and what they counted.
Forgotten(P) == vectors' = vectors \ P /\ used' = used - Cardinality(vectors \cap P)
CascadeIndex(b) ==
  /\ Cleans(b, "index", "done")
  /\ Forgotten({b} \X Urls) \/ UNCHANGED <<vectors, used>>
  /\ UNCHANGED <<plan, bot, botUsed, sweep, chats, file, lock, page, task, notices, call>>
Cleanup(b) == CascadeFiles(b) \/ CascadeContents(b) \/ CascadeChats(b) \/ CascadeIndex(b)

-----------------------------------------------------------------------------
(* Contents: createContent, ingestWebPages, deleteContent, deleteAllContent, *)
(* editContent, reIngestContents.                                          *)
Rows(q) == {i \in DOMAIN page : page[i].bot = Does(q).bot /\ page[i].url \in Does(q).urls /\ ~page[i].gone}
Listed(q) == {i \in Rows(q) : ~page[i].deleted}
Fresh(q) == Does(q).urls \ {page[i].url : i \in Listed(q)}
\* Mutation: a row that waits again keeps its old task.
MarkedKeepsTask(R, status) ==
  [i \in DOMAIN page |-> IF i \in R /\ ~page[i].gone THEN [page[i] EXCEPT !.status = status] ELSE page[i]]
Marked(R, status) ==
  [i \in DOMAIN page |-> IF i \in R /\ ~page[i].gone
     THEN [page[i] EXCEPT !.status = status, !.task = IF status = "UPLOADED" THEN 0 ELSE @] ELSE page[i]]
\* createContent wants any room for a new page, ingestWebPages an estimate of it.
Room(q) ==
  IF Does(q).op = "add" THEN Fresh(q) = {} \/ used < plan.limit
  ELSE plan.limit - used >= Cardinality(Fresh(q))

AddPages(q) ==
  LET goes == (Fresh(q) = Does(q).urls \/ Does(q).force) /\ Room(q)
  IN /\ Starts(q, {"add", "addPages"},
          [call[q] EXCEPT !.pc = IF goes THEN "rows" ELSE "done", !.end = IF goes THEN "none" ELSE "refused",
                          !.left = Fresh(q), !.rows = Listed(q)])
     /\ UNCHANGED <<plan, bots, file, used, lock, content>>
\* One row at a time, then those that exist are UPLOADED again, then the dispatch.
CreateRow(q, u) ==
  /\ call[q].pc = "rows" /\ u \in call[q].left
  /\ page' = Append(page, NewPage(Does(q).bot, u, q))
  /\ Moves(q, "rows", [call[q] EXCEPT !.left = @ \ {u}, !.cut = @ \cup {Len(page) + 1}])
  /\ UNCHANGED <<plan, bots, file, used, lock, vectors, task, notices>>
ResetRows(q) ==
  /\ call[q].left = {} /\ Moves(q, "rows", [call[q] EXCEPT !.pc = "dispatch", !.cut = @ \cup call[q].rows])
  /\ page' = Marked(call[q].rows, "UPLOADED")
  /\ UNCHANGED <<plan, bots, file, used, lock, vectors, task, notices>>

UrlsOf(R) == {page[i].url : i \in R}
Dispatched(q) == Append(task, [by |-> q, bot |-> Does(q).bot, urls |-> UrlsOf(call[q].cut), status |-> "queued"])
\* When the service cannot be reached, ingestWebPages fails its rows,
\* processReIngest calls its rows INDEXED, and the others leave them.
Dispatch(q) ==
  /\ \/ Ends(q, "dispatch", "dispatched") /\ task' = Dispatched(q) /\ UNCHANGED page
     \/ /\ plan.failures /\ Ends(q, "dispatch", "threw") /\ UNCHANGED task
        /\ page' = CASE Does(q).op = "addPages" -> Marked(call[q].cut, "FAILED")
                     [] Does(q).op = "reingest" -> Marked(call[q].rows, "INDEXED")
                     [] OTHER -> page
  /\ UNCHANGED <<plan, bots, file, used, lock, vectors, notices>>

\* The owner's edit and the new ingestion reset the rows first, a bulk deletion
\* marks them, a single one deletes its row; then the vectors are asked for: an
\* edit writes the content it is given, and asks for those of its new address.
Opened(q) ==
  CASE Does(q).op = "reingest" -> {Listed(q)}
    [] Does(q).op = "dropPages" \/ Rows(q) = {} -> {Rows(q)}
    [] OTHER -> {{i} : i \in Rows(q)}
Readdressed(q, R) ==
  [i \in DOMAIN page |-> IF i \in R THEN [Marked(R, "UPLOADED")[i] EXCEPT !.url = Does(q).to] ELSE page[i]]
OpenRows(q) ==
  \E found \in Opened(q) :
    /\ Starts(q, {"drop", "dropPages", "edit", "reingest"},
          [call[q] EXCEPT !.pc = IF found = {} THEN "done" ELSE "vectors", !.rows = found, !.left = found])
    /\ page' = CASE Does(q).op = "drop" ->
                      [i \in DOMAIN page |-> IF i \in found THEN [page[i] EXCEPT !.gone = TRUE] ELSE page[i]]
                 [] Does(q).op = "dropPages" -> Marked(found, "BEING_DELETED")
                 [] Does(q).op = "reingest" -> Marked(found, "UPLOADED")
                 [] OTHER -> Readdressed(q, found)
    /\ UNCHANGED <<plan, bots, file, used, lock, vectors, task, notices>>

Pairs(R) == {<<page[i].bot, page[i].url>> : i \in R}
\* A row whose vectors could not be deleted goes back to INDEXED in a bulk
\* deletion, is skipped by a new ingestion, and ends the other two; but an answer
\* that carries the code 500 passes for success.
ForgetOne(q, i) ==
  /\ call[q].pc = "vectors" /\ i \in call[q].left
  /\ \/ /\ Forgotten(Pairs({i})) \/ (plan.failures /\ UNCHANGED <<vectors, used>>)
        /\ page' = IF Does(q).op = "dropPages" THEN [page EXCEPT ![i].gone = TRUE] ELSE page
        /\ Moves(q, "vectors", [call[q] EXCEPT !.left = @ \ {i}, !.cut = @ \cup {i}])
     \/ /\ plan.failures /\ UNCHANGED <<vectors, used>>
        /\ page' = IF Does(q).op = "dropPages" THEN Marked({i}, "INDEXED") ELSE page
        /\ IF Does(q).op \in {"dropPages", "reingest"}
           THEN Moves(q, "vectors", [call[q] EXCEPT !.left = @ \ {i}]) ELSE Ends(q, "vectors", "threw")
  /\ UNCHANGED <<plan, bots, file, lock, task, notices>>
Forgot(q) ==
  LET more == Does(q).op \in {"edit", "reingest"} /\ call[q].cut # {}
  IN /\ call[q].pc = "vectors" /\ call[q].left = {}
     /\ IF more THEN Goes(q, "vectors", "dispatch") ELSE Ends(q, "vectors", "deleted")
     /\ UNCHANGED <<plan, bots, file, used, lock, content>>

-----------------------------------------------------------------------------
(* The ingestion service (external), and the notices of its tasks.         *)
Taken(t) ==
  {i \in DOMAIN page : /\ page[i].bot = task[t].bot /\ page[i].url \in task[t].urls
                       /\ page[i].status = "UPLOADED" /\ ~page[i].gone}
StartTask(t) ==
  /\ task[t].status = "queued" /\ task' = [task EXCEPT ![t].status = "running"]
  /\ page' = [i \in DOMAIN page |-> IF i \in Taken(t) THEN [page[i] EXCEPT !.status = "Processing", !.task = t]
                                    ELSE page[i]]
  /\ UNCHANGED <<plan, bots, file, used, lock, vectors, notices, call>>
Owned(t) == {i \in DOMAIN page : page[i].task = t /\ page[i].status = "Processing" /\ ~page[i].gone}
FinishTask(t) ==
  /\ task[t].status = "running" /\ task' = [task EXCEPT ![t].status = "completed"]
  /\ page' = Marked(Owned(t), "INDEXED")
  /\ vectors' = vectors \cup Pairs(Owned(t)) /\ used' = used + Cardinality(Pairs(Owned(t)) \ vectors)
  /\ UNCHANGED <<plan, bots, file, lock, notices, call>>
FailTask(t) ==
  /\ plan.failures /\ task[t].status = "running" /\ task' = [task EXCEPT ![t].status = "failed"]
  /\ notices' = notices \cup {<<p, t>> : p \in Pods}
  /\ UNCHANGED <<plan, bots, file, used, lock, page, vectors, call>>
\* Every pod fails the rows the task still holds.
CascadeFailed(p, t) ==
  /\ <<p, t>> \in notices /\ notices' = notices \ {<<p, t>>}
  /\ page' = Marked(Owned(t), "failed")
  /\ UNCHANGED <<plan, bots, file, used, lock, vectors, task, call>>

Die(q) ==
  /\ plan.failures /\ call[q].pc \notin Over \cup {"new"} /\ Moves(q, call[q].pc, [call[q] EXCEPT !.pc = "dead"])
  /\ UNCHANGED <<plan, bots, file, used, lock, content>>

Upload(q) == TestLock(q) \/ SetLock(q) \/ CheckQuota(q) \/ StoreFiles(q) \/ CountUpload(q) \/ ReleaseLock(q)
uploadSingle(q) == Does(q).op = "upload" /\ Upload(q)
uploadChatAttachment(q) == Does(q).op = "attach" /\ Upload(q)
uploadAttachment(q) == Does(q).op = "widget" /\ Upload(q)

FileStep(q) ==
  \/ uploadSingle(q) \/ uploadChatAttachment(q) \/ uploadAttachment(q)
  \/ FindFile(q) \/ DeleteObject(q) \/ DeleteRow(q) \/ LowerUsage(q)
  \/ MarkFiles(q) \/ ReadBulk(q) \/ DropObject(q) \/ \E f \in Files : DeleteNext(q, f)
  \/ FindAttachment(q) \/ HideAttachment(q) \/ DecrementUsage(q)
BotStep(q) ==
  \/ ReadBots(q) \/ CreateBot(q) \/ CountBot(q)
  \/ FindBot(q) \/ DeleteBot(q) \/ ReadBotQuota(q) \/ UncountBot(q)
PageStep(q) ==
  \/ AddPages(q) \/ ResetRows(q) \/ Dispatch(q) \/ OpenRows(q) \/ Forgot(q)
  \/ \E u \in Urls : CreateRow(q, u)
  \/ \E i \in DOMAIN page : ForgetOne(q, i)

Next ==
  \/ \E q \in Calls : FileStep(q) \/ BotStep(q) \/ PageStep(q) \/ Die(q)
  \/ \E p \in Pods : LockExpires(p)
  \/ \E b \in Bots : Cleanup(b)
  \/ \E t \in DOMAIN task : StartTask(t) \/ FinishTask(t) \/ FailTask(t) \/ \E p \in Pods : CascadeFailed(p, t)

Spec == Init /\ [][Next]_vars

-----------------------------------------------------------------------------
(* Properties.                                                             *)
Overlap(q, r) == q # r /\ q \notin call[r].since /\ r \notin call[q].since
Started(q) == call[q].pc # "new"
Racing(q, ops) == \E r \in Calls : Started(r) /\ Does(r).op \in ops /\ Overlap(q, r)
PageOps == {"add", "addPages", "drop", "dropPages", "edit", "reingest"}
CountsFiles == Uploads \cup {"deleteFile", "deleteFiles", "deleteAttachment"}
Calm == \A q \in Calls : call[q].pc \in {"new", "done"}
KeptFiles == {f \in Files : IsRow(f) /\ ~file[f].deleted}

TypeOK ==
  /\ plan \in Plans /\ bot \in [Bots -> {"none", "live", "deleted"}]
  /\ cascade \in [Bots -> {"none", "files", "sweep", "chats", "index", "done"}] /\ chats \subseteq Bots
  /\ \A b \in Bots : sweep[b].left \cup sweep[b].kept \subseteq Files
  /\ botUsed \in Nat /\ used \in Int /\ lock \subseteq Pods
  /\ \A f \in Files : file[f].status \in {"none", "UPLOADED", "INDEXED", "BEING_DELETED"}
  /\ \A i \in DOMAIN page :
       /\ page[i].status \in {"UPLOADED", "Processing", "INDEXED", "FAILED", "failed", "BEING_DELETED"}
       /\ page[i].task \in 0 .. Len(task)
       /\ page[i].status = "UPLOADED" => page[i].task = 0
  /\ vectors \subseteq Bots \X Urls /\ notices \subseteq Pods \X DOMAIN task

\* The FILE quota counts what the team keeps.  It drifts only when an operation
\* that overwrites the counter overlapped one that counts (the ingestion of pages
\* is one), when the same files were deleted twice at once, when a hidden
\* attachment was deleted again, when a bulk deletion or an upload left off
\* half-way, and when a bot took its files along.
Overwriting == {"upload", "deleteFile", "deleteFiles"}
Miscounts(q, r) ==
  /\ Started(q) /\ Started(r) /\ Overlap(q, r)
  /\ Does(q).op \in Overwriting \/ Does(q).files \cap Does(r).files # {}
  /\ Does(r).op \in CountsFiles \cup PageOps
Skipped(q) ==
  \/ Does(q).op = "deleteFiles" /\ call[q].cut # call[q].rows
  \/ Does(q).op = "upload" /\ call[q].end = "threw"
Twice(q, r) ==
  Does(q).op = "deleteAttachment" /\ Does(r).op \in {"deleteFile", "deleteFiles"} /\ call[q].rows \cap call[r].rows # {}
Excused ==
  \/ \E q, r \in Calls : Miscounts(q, r) \/ Twice(q, r)
  \/ \E q \in Calls : Skipped(q)
  \/ \E b \in Bots : bot[b] = "deleted"
UsageExplained == Calm /\ used # SizeOf(KeptFiles) + Cardinality(vectors) => Excused

\* The files of a team outgrow its quota only when two uploads overlapped, or
\* the counter had drifted below what is kept before.  A quota lowered since
\* (a subscription that ended) binds what is added.
Drifted == Excused \/ \E q \in Calls : Does(q).op \in Uploads /\ call[q].pc = "dead"
OverfullOnlyRacing ==
  SizeOf(KeptFiles) > plan.limit /\ SizeOf(KeptFiles) > SizeOf(plan.stored) =>
    Drifted \/ \E q \in Calls : Does(q).op \in Uploads /\ Started(q) /\ Racing(q, Uploads)

\* A file the team still lists has its object, unless a deletion or the cleanup of
\* its bot stands between the two, or has stopped there: a pod died, the row could
\* not be hidden, or a bulk deletion failed for it.
BetweenObjectAndRow(q, f) ==
  \/ Does(q).op \in {"deleteFile", "deleteAttachment"} /\ f \in call[q].rows /\ call[q].pc \in {"row", "hide", "dead"}
  \/ Does(q).op = "deleteFiles" /\ f \in call[q].rows \ call[q].cut
ListedHasObject ==
  \A f \in KeptFiles : ~file[f].object =>
    \/ \E q \in Calls : BetweenObjectAndRow(q, f)
    \/ \E b \in Bots : sweep[b].at = f \/ f \in sweep[b].kept

\* The bots a team runs outgrow its quota only when two were created at once,
\* and the counter is theirs unless creations and deletions overlapped.
BotsOverlap == \E q, r \in Calls : /\ Started(q) /\ Started(r) /\ Overlap(q, r)
                                   /\ {Does(q).op, Does(r).op} \subseteq {"createBot", "deleteBot"}
BotsWithinQuota ==
  /\ Cardinality(LiveBots) > plan.botLimit /\ Cardinality(LiveBots) > 1 => BotsOverlap
  /\ Calm /\ botUsed # Cardinality(LiveBots) => BotsOverlap

\* When the cleanup of a deleted bot is over, whatever failed on the way, nothing
\* that was there when the deletion was asked for is left listed: no page, no chat,
\* and no file but one whose own row could not be hidden (performBotCascadeCleanup).
Before(q, b) == \A r \in Calls : Does(r).op = "deleteBot" /\ Does(r).bot = b => q \in call[r].since
CleanupComplete ==
  \A b \in Bots : cascade[b] = "done" =>
    /\ \A f \in KeptFiles : file[f].bot = b =>
         f \in sweep[b].kept \/ \E q \in Calls : f \in Does(q).files /\ Does(q).op \in Uploads /\ ~Before(q, b)
    /\ \A i \in DOMAIN page : page[i].bot = b /\ ~page[i].deleted /\ ~page[i].gone =>
         page[i].by # None /\ ~Before(page[i].by, b)
    /\ b \notin chats

\* A page has one row, unless two calls added it at once, or an edit gave the row
\* of another page its address: editContent looks for no other row.
MadeOneByEdit(i, j) ==
  /\ i # j /\ page[i].url = page[j].url
  /\ \E q \in Calls : Does(q).op = "edit" /\ call[q].rows \cap {i, j} # {} /\ Does(q).to = page[i].url
OneRowPerPage ==
  \A i, j \in DOMAIN page :
    i < j /\ page[i].bot = page[j].bot /\ page[i].url = page[j].url /\ ~page[i].gone /\ ~page[j].gone
      => \/ page[i].deleted \/ page[j].deleted \/ (page[i].by # None /\ Overlap(page[i].by, page[j].by))
         \/ MadeOneByEdit(i, j)

\* No page stays UPLOADED with nobody to take it (the "ghosts" of a comment in
\* ingestWebPages), unless two calls overlapped, a pod died, a dispatch without a
\* rollback failed, or a new ingestion skipped the page.
Waiting(i) ==
  \/ \E t \in DOMAIN task : task[t].status = "queued" /\ page[i].bot = task[t].bot /\ page[i].url \in task[t].urls
  \/ \E q \in Calls : Does(q).op \in PageOps /\ call[q].pc \notin {"new", "done", "dead"}
Racy(q) == Started(q) /\ Does(q).op \in PageOps /\ Racing(q, PageOps)
Stuck(q) ==
  \/ call[q].pc = "dead" \/ Racy(q)
  \/ Does(q).op \in {"add", "edit"} /\ call[q].end = "threw"
  \/ Does(q).op = "reingest" /\ call[q].cut # call[q].rows
NoGhosts ==
  \A i \in DOMAIN page : page[i].status = "UPLOADED" /\ ~page[i].gone /\ ~Waiting(i) => \E q \in Calls : Stuck(q)

\* A page that is INDEXED is in the index, unless a call was stuck as above, or a
\* new ingestion took it out and could not be dispatched (processReIngest), or a
\* bulk deletion failed for a page another call had taken out before, or an edit
\* gave two pages one address, and what is done to one is done to the other, or the
\* page was added to a bot whose whole index went with it.
IndexedIsThere ==
  \A i \in DOMAIN page : page[i].status = "INDEXED" /\ ~page[i].gone /\ ~page[i].deleted
    => \/ <<page[i].bot, page[i].url>> \in vectors
       \/ \E q \in Calls : Stuck(q) \/ (Does(q).op = "reingest" /\ call[q].end = "threw")
       \/ \E q, r \in Calls : /\ q # r /\ Does(q).op = "dropPages" /\ call[q].cut # call[q].rows
                              /\ Started(r) /\ Does(r).op \in PageOps
       \/ (\E j \in DOMAIN page : MadeOneByEdit(i, j)) \/ cascade[page[i].bot] = "done"

\* The notice of a failed task, however late, fails only pages that task still
\* held: an attempt made after it keeps its own outcome.
NoticesHitTheirOwn ==
  [][\A i \in DOMAIN page : page[i].status # "failed" /\ page'[i].status = "failed"
       => page[i].status = "Processing" /\ task[page[i].task].status = "failed"]_vars

\* Both quotas of a team count what it keeps, and hold, but for the races and
\* the half-way failures that are told.
QuotasKept == UsageExplained /\ OverfullOnlyRacing /\ BotsWithinQuota

\* The rows of files and pages agree with the object storage, with the index and
\* with the ingestion service's tasks, whoever deletes, adds or fails meanwhile.
StoresAgree ==
  /\ [](/\ ListedHasObject /\ CleanupComplete
        /\ OneRowPerPage /\ NoGhosts /\ IndexedIsThere)
  /\ NoticesHitTheirOwn
=============================================================================
