-------------------------- MODULE WorkspaceProofs --------------------------
(* What Workspace promises for every set of calls, bots, files, pages and
   pods: its types, its two quotas, and the notices of failed tasks.
   
   Two calls that are both on their way overlap.  So until something is
   lost -- a step UsageExplained excuses -- whoever writes over the FILE
   counter is alone with it, and the counter is what is booked: the files
   kept but for those stored and not counted yet, those taken away and
   still counted, and the index.  Each step either leaves the books, or
   stores, counts, takes away, or pays off a set of files (Effects). *)
EXTENDS Workspace, FiniteSums, SequenceTheorems, TLAPS

(* The types *)

Ids == Files \cup Urls \cup Nat
Pcs ==
  Over \cup {"new", "lock", "check", "store", "count", "unlock", "object", "row", "lower", "files", "hide", "decrement",
             "create", "countBot", "bot", "readBots", "uncount", "rows", "dispatch", "vectors"}
Outcomes ==
  {"none", "conflict", "full", "threw", "stored", "deleted", "created", "refused", "dispatched"}
CallRow ==
  [pc : Pcs, seen : Int, rows : SUBSET Ids, left : SUBSET Ids, cut : SUBSET Ids, at : Files \cup {None},
   end : Outcomes, since : SUBSET Calls]
FileRow ==
  [status : {"none", "UPLOADED", "INDEXED", "BEING_DELETED"}, deleted : BOOLEAN, object : BOOLEAN,
   bot : Bots \cup {None}]
PageStatus == {"UPLOADED", "Processing", "INDEXED", "FAILED", "failed", "BEING_DELETED"}
PageRow ==
  [bot : Bots, url : Urls, by : Calls \cup {None}, status : PageStatus, task : Nat, deleted : BOOLEAN, gone : BOOLEAN]
TaskRow ==
  [by : Calls, bot : Bots, urls : SUBSET Urls, status : {"queued", "running", "completed", "failed"}]

Stages == {"none", "files", "sweep", "chats", "index", "done"}
Sweeping == [left : SUBSET Files, at : Files \cup {None}, kept : SUBSET Files]

Types ==
  /\ plan \in Plans /\ bot \in [Bots -> {"none", "live", "deleted"}] /\ botUsed \in Nat
  /\ cascade \in [Bots -> Stages] /\ sweep \in [Bots -> Sweeping] /\ chats \subseteq Bots
  /\ file \in [Files -> FileRow] /\ used \in Int /\ lock \subseteq Pods
  /\ page \in Seq(PageRow) /\ vectors \subseteq Bots \X Urls /\ task \in Seq(TaskRow)
  /\ notices \subseteq Pods \X DOMAIN task /\ call \in [Calls -> CallRow]

\* Where a call of each kind may be.
FileDeletes == {"deleteFile", "deleteFiles", "deleteAttachment"}
Forgets == {"drop", "dropPages", "edit", "reingest"}
InPlace(q, c) ==
  /\ Does(q).op \in {"upload", "attach"} => c.pc \in Over \cup {"new", "lock", "check", "store", "count", "unlock"}
  /\ Does(q).op = "widget" => c.pc \in Over \cup {"new", "store", "count", "unlock"}
  /\ Does(q).op = "deleteFile" => c.pc \in Over \cup {"new", "object", "row", "lower"}
  /\ Does(q).op = "deleteFiles" => c.pc \in Over \cup {"new", "files", "lower"}
  /\ Does(q).op = "deleteAttachment" => c.pc \in Over \cup {"new", "object", "hide", "decrement"}
  /\ Does(q).op = "createBot" => c.pc \in Over \cup {"new", "create", "countBot"}
  /\ Does(q).op = "deleteBot" => c.pc \in Over \cup {"new", "bot", "readBots", "uncount"}
  /\ Does(q).op \in {"add", "addPages"} => c.pc \in Over \cup {"new", "rows", "dispatch"}
  /\ Does(q).op \in Forgets => c.pc \in Over \cup {"new", "vectors", "dispatch"}
  /\ Does(q).op = "none" => c.pc = "new"

\* What a call keeps, by its kind.
Keeps(q, c, D) ==
  /\ c.pc = "new" => c = Idle
  /\ Does(q).op \in FileDeletes =>
       c.rows \subseteq Does(q).files /\ c.left \subseteq c.rows /\ c.cut \subseteq c.rows \ c.left
  /\ c.pc = "files" => c.rows # {}
  /\ Does(q).op \in PageOps => c.cut \subseteq D /\ c.rows \subseteq D
  /\ Does(q).op \in Forgets => c.left \subseteq D
  /\ c.pc = "rows" => c.left \subseteq Urls
  /\ Does(q).op \in {"createBot", "deleteBot"} => c.seen \in Nat
  /\ Does(q).op \in Uploads /\ c.end # "none" => c.pc \in Over \cup {"unlock"}

Places == \A q \in Calls : InPlace(q, call[q]) /\ Keeps(q, call[q], DOMAIN page)

\* A row refers to a task there is; one that waits to none.
PageTasks ==
  \A i \in DOMAIN page : /\ page[i].task \in 0 .. Len(task)
                         /\ page[i].status = "UPLOADED" => page[i].task = 0

\* The fields of a plan.
LEMMA PlanTypes ==
  ASSUME plan \in Plans
  PROVE  /\ plan.ops \in [Calls -> Op] /\ plan.stored \subseteq Files /\ plan.indexed \subseteq Urls
         /\ plan.size \in [Files -> Nat \ {0}] /\ plan.limit \in Nat /\ plan.bot \in Bots /\ plan.botLimit \in Nat
         /\ plan.failures \in BOOLEAN
         /\ \A q \in Calls : /\ Does(q).op \in Ops /\ Does(q).bot \in Bots /\ Does(q).pod \in Pods
                             /\ Does(q).files \subseteq Files /\ Does(q).urls \subseteq Urls /\ Does(q).force \in BOOLEAN
                             /\ Does(q).to \in Urls
<1>1. /\ plan.ops \in [Calls -> Op] /\ plan.stored \subseteq Files /\ plan.indexed \subseteq Urls
      /\ plan.size \in [Files -> Nat \ {0}] /\ plan.limit \in Nat /\ plan.bot \in Bots /\ plan.botLimit \in Nat
      /\ plan.failures \in BOOLEAN
  BY PlanAssumption
<1>2. \A q \in Calls : Does(q) \in Op BY <1>1 DEF Does
<1> QED BY <1>1, <1>2 DEF Op

\* The rows of pages.
LEMMA PageTypes ==
  ASSUME Types
  PROVE  /\ Len(page) \in Nat /\ DOMAIN page = 1 .. Len(page)
         /\ Len(task) \in Nat /\ DOMAIN task = 1 .. Len(task)
         /\ \A i \in DOMAIN page : /\ page[i] \in PageRow /\ page[i].bot \in Bots /\ page[i].url \in Urls
                                   /\ page[i].by \in Calls \cup {None} /\ page[i].status \in PageStatus
                                   /\ page[i].task \in Nat /\ page[i].deleted \in BOOLEAN /\ page[i].gone \in BOOLEAN
         /\ \A t \in DOMAIN task : /\ task[t] \in TaskRow /\ task[t].by \in Calls /\ task[t].bot \in Bots
                                   /\ task[t].urls \subseteq Urls
                                   /\ task[t].status \in {"queued", "running", "completed", "failed"}
<1>1. page \in Seq(PageRow) /\ task \in Seq(TaskRow) BY DEF Types
<1>2. /\ Len(page) \in Nat /\ DOMAIN page = 1 .. Len(page) /\ \A i \in DOMAIN page : page[i] \in PageRow
      /\ Len(task) \in Nat /\ DOMAIN task = 1 .. Len(task) /\ \A t \in DOMAIN task : task[t] \in TaskRow
  BY <1>1
<1> QED BY <1>2 DEF PageRow, TaskRow

\* A function on the rows is a sequence of rows.
LEMMA RowsAreSeq ==
  ASSUME NEW n \in Nat, NEW S, NEW s \in [1 .. n -> S]
  PROVE  s \in Seq(S) /\ Len(s) = n /\ DOMAIN s = 1 .. n
  BY SeqDef

\* What Marked makes of the rows.
LEMMA MarkedRows ==
  ASSUME Types, NEW R, NEW status \in PageStatus
  PROVE  /\ Marked(R, status) \in Seq(PageRow) /\ DOMAIN Marked(R, status) = DOMAIN page
         /\ Len(Marked(R, status)) = Len(page)
         /\ \A i \in DOMAIN page :
              LET row == Marked(R, status)[i]
              IN /\ row.bot = page[i].bot /\ row.url = page[i].url /\ row.by = page[i].by
                 /\ row.deleted = page[i].deleted /\ row.gone = page[i].gone
                 /\ row.status = IF i \in R /\ ~page[i].gone THEN status ELSE page[i].status
                 /\ row.task = IF i \in R /\ ~page[i].gone /\ status = "UPLOADED" THEN 0 ELSE page[i].task
<1> DEFINE m == Marked(R, status)
<1>1. /\ Len(page) \in Nat /\ DOMAIN page = 1 .. Len(page) /\ \A i \in DOMAIN page : page[i] \in PageRow BY PageTypes
<1>2. /\ DOMAIN m = DOMAIN page
      /\ \A i \in DOMAIN page :
           m[i] = IF i \in R /\ ~page[i].gone
                  THEN [page[i] EXCEPT !.status = status, !.task = IF status = "UPLOADED" THEN 0 ELSE @] ELSE page[i]
  BY DEF Marked
<1>3. \A i \in DOMAIN page :
        /\ m[i] \in PageRow /\ m[i].bot = page[i].bot /\ m[i].url = page[i].url /\ m[i].by = page[i].by
        /\ m[i].deleted = page[i].deleted /\ m[i].gone = page[i].gone
        /\ m[i].status = IF i \in R /\ ~page[i].gone THEN status ELSE page[i].status
        /\ m[i].task = IF i \in R /\ ~page[i].gone /\ status = "UPLOADED" THEN 0 ELSE page[i].task
 <2> SUFFICES ASSUME NEW i \in DOMAIN page
              PROVE  /\ m[i] \in PageRow /\ m[i].bot = page[i].bot /\ m[i].url = page[i].url /\ m[i].by = page[i].by
                     /\ m[i].deleted = page[i].deleted /\ m[i].gone = page[i].gone
                     /\ m[i].status = IF i \in R /\ ~page[i].gone THEN status ELSE page[i].status
                     /\ m[i].task = IF i \in R /\ ~page[i].gone /\ status = "UPLOADED" THEN 0 ELSE page[i].task
   OBVIOUS
 <2>1. page[i] \in PageRow BY <1>1
 <2>2. CASE ~(i \in R /\ ~page[i].gone)
  <3>1. m[i] = page[i] BY <1>2, <2>2
  <3> QED BY <2>1, <2>2, <3>1
 <2>3. CASE i \in R /\ ~page[i].gone
  <3>1. m[i] = [page[i] EXCEPT !.status = status, !.task = IF status = "UPLOADED" THEN 0 ELSE @] BY <1>2, <2>3
  <3> QED
   <4>1. status \in PageStatus /\ page[i].task \in Nat BY <2>1 DEF PageRow
   <4>2. /\ [page[i] EXCEPT !.status = status, !.task = 0] \in PageRow
         /\ [page[i] EXCEPT !.status = status, !.task = page[i].task] \in PageRow
     BY <2>1, <4>1 DEF PageRow
   <4>3. CASE status = "UPLOADED"
    <5>1. m[i] = [page[i] EXCEPT !.status = status, !.task = 0] BY <3>1, <4>3
    <5> QED BY <2>1, <2>3, <4>2, <4>3, <5>1 DEF PageRow
   <4>4. CASE status # "UPLOADED"
    <5>1. m[i] = [page[i] EXCEPT !.status = status, !.task = page[i].task] BY <3>1, <4>4
    <5> QED BY <2>1, <2>3, <4>2, <4>4, <5>1 DEF PageRow
   <4> QED BY <4>3, <4>4
 <2> QED BY <2>2, <2>3
<1>4. m \in [1 .. Len(page) -> PageRow]
 <2>1. m = [i \in DOMAIN page |-> m[i]] BY DEF Marked
 <2> QED BY <1>1, <1>3, <2>1
<1>5. m \in Seq(PageRow) /\ Len(m) = Len(page) /\ DOMAIN m = 1 .. Len(page) BY <1>1, <1>4, RowsAreSeq
<1> QED BY <1>1, <1>3, <1>5

--------------------
(* The initial states *)

\* InSomeOrder lists a finite set.
LEMMA OrderExists ==
  ASSUME NEW S, IsFiniteSet(S)
  PROVE  /\ Cardinality(S) \in Nat /\ InSomeOrder(S) \in [1 .. Cardinality(S) -> S]
         /\ {InSomeOrder(S)[i] : i \in DOMAIN InSomeOrder(S)} = S
<1>1. Cardinality(S) \in Nat /\ ExistsBijection(1 .. Cardinality(S), S) BY FS_CardinalityType
<1>2. PICK s \in Bijection(1 .. Cardinality(S), S) : TRUE BY <1>1 DEF ExistsBijection
<1>3. s \in [1 .. Cardinality(S) -> S] /\ \A x \in S : \E i \in 1 .. Cardinality(S) : s[i] = x
  BY <1>2 DEF Bijection, Surjection, Injection
<1>4. {s[i] : i \in DOMAIN s} = S BY <1>3
<1>5. \E t \in [1 .. Cardinality(S) -> S] : {t[i] : i \in DOMAIN t} = S BY <1>3, <1>4
<1> QED BY <1>1, <1>5 DEF InSomeOrder

\* The first rows of pages.
LEMMA InitPages ==
  ASSUME Init
  PROVE  /\ IsFiniteSet(plan.indexed) /\ plan.indexed \subseteq Urls
         /\ DOMAIN page = 1 .. Cardinality(plan.indexed) /\ page \in Seq(PageRow)
         /\ \A i \in DOMAIN page : /\ page[i].bot = plan.bot /\ page[i].url = InSomeOrder(plan.indexed)[i]
                                   /\ page[i].url \in plan.indexed
                                   /\ page[i].by = None /\ page[i].status = "INDEXED" /\ page[i].task = 0
                                   /\ ~page[i].deleted /\ ~page[i].gone
<1>1. plan.indexed \subseteq Urls /\ plan.bot \in Bots BY PlanTypes DEF Init
<1>2. IsFiniteSet(plan.indexed) BY <1>1, PlanAssumption, FS_Subset
<1>3. /\ Cardinality(plan.indexed) \in Nat
      /\ InSomeOrder(plan.indexed) \in [1 .. Cardinality(plan.indexed) -> plan.indexed]
  BY <1>2, OrderExists
<1>4. page = [i \in 1 .. Cardinality(plan.indexed) |->
               [NewPage(plan.bot, InSomeOrder(plan.indexed)[i], None) EXCEPT !.status = "INDEXED"]]
  BY DEF Init
<1>5. \A i \in 1 .. Cardinality(plan.indexed) :
        /\ page[i] \in PageRow /\ page[i].bot = plan.bot /\ page[i].url = InSomeOrder(plan.indexed)[i]
        /\ page[i].url \in plan.indexed /\ page[i].by = None /\ page[i].status = "INDEXED" /\ page[i].task = 0
        /\ ~page[i].deleted /\ ~page[i].gone
  BY <1>1, <1>3, <1>4 DEF NewPage, PageRow, PageStatus
<1>6. page \in [1 .. Cardinality(plan.indexed) -> PageRow] BY <1>4, <1>5
<1>7. page \in Seq(PageRow) /\ DOMAIN page = 1 .. Cardinality(plan.indexed) BY <1>3, <1>6, RowsAreSeq
<1> QED BY <1>1, <1>2, <1>5, <1>7

\* The initial states are typed.
LEMMA InitTypes == Init => Types /\ Places /\ PageTasks
<1> SUFFICES ASSUME Init PROVE Types /\ Places /\ PageTasks OBVIOUS
<1>1. plan \in Plans BY DEF Init
<1>2. /\ plan.stored \subseteq Files /\ plan.indexed \subseteq Urls /\ plan.size \in [Files -> Nat \ {0}]
      /\ plan.bot \in Bots /\ \A q \in Calls : Does(q).op \in Ops
  BY <1>1, PlanTypes
<1>3. /\ bot \in [Bots -> {"none", "live", "deleted"}] /\ botUsed \in Nat /\ cascade \in [Bots -> Stages]
      /\ sweep \in [Bots -> Sweeping] /\ chats \subseteq Bots
  BY <1>2 DEF Init, Stages, NoSweep, Sweeping
<1>4. file \in [Files -> FileRow]
 <2>1. NoFile \in FileRow /\ [NewFile(plan.bot) EXCEPT !.status = "INDEXED"] \in FileRow
   BY <1>2 DEF NoFile, NewFile, FileRow
 <2> QED BY <2>1 DEF Init
<1>5. page \in Seq(PageRow) /\ PageTasks BY InitPages DEF PageTasks, Init
<1>6. used \in Int
 <2>1. IsFiniteSet(plan.stored) /\ IsFiniteSet(plan.indexed) BY <1>2, PlanAssumption, FS_Subset
 <2>2. Cardinality(plan.indexed) \in Nat BY <2>1, FS_CardinalityType
 <2>3. \A f \in plan.stored : plan.size[f] \in Int BY <1>2
 <2>4. SizeOf(plan.stored) \in Int BY <2>1, <2>3, SumType DEF SizeOf
 <2> QED BY <2>2, <2>4 DEF Init
<1>7. vectors \subseteq Bots \X Urls BY <1>2 DEF Init
<1>8. /\ task \in Seq(TaskRow) /\ notices \subseteq Pods \X DOMAIN task /\ lock \subseteq Pods BY DEF Init
<1>9. Idle \in CallRow BY DEF Idle, CallRow, Pcs, Outcomes
<1>10. call \in [Calls -> CallRow] /\ \A q \in Calls : call[q] = Idle BY <1>9 DEF Init
<1>11. Places
 <2>1. \A q \in Calls : InPlace(q, call[q])
  <3>1. \A q \in Calls : call[q].pc = "new" /\ Does(q).op \in Ops BY <1>2, <1>10 DEF Idle
  <3> QED BY <3>1 DEF InPlace, Ops, Uploads, Forgets
 <2>2. \A q \in Calls : Keeps(q, call[q], DOMAIN page)
  <3>1. \A q \in Calls : /\ call[q] = Idle /\ call[q].pc = "new" /\ call[q].rows = {} /\ call[q].left = {}
                         /\ call[q].cut = {} /\ call[q].seen = 0 /\ call[q].end = "none"
    BY <1>10 DEF Idle
  <3> QED BY <3>1 DEF Keeps
 <2> QED BY <2>1, <2>2 DEF Places
<1> QED BY <1>1, <1>3, <1>4, <1>5, <1>6, <1>7, <1>8, <1>10, <1>11 DEF Types

--------------------
(* What a step makes of its call *)

\* The call becomes c, and the others stay.
Becomes(q, c) ==
  /\ c \in CallRow /\ InPlace(q, c) /\ Keeps(q, c, DOMAIN page') /\ c.pc # "new"
  /\ call' = [call EXCEPT ![q] = c] /\ call[q].pc \notin Over
  /\ c.since = IF call[q].pc = "new" THEN {r \in Calls : Finished(r)} ELSE call[q].since
  /\ Does(q).op \in FileDeletes /\ call[q].pc # "new" =>
       c.rows = call[q].rows /\ c.cut \cup c.left \subseteq call[q].cut \cup call[q].left
  /\ Does(q).op \in Uploads /\ call[q].end # "none" => c.end = call[q].end
\* An upload stores all its files, or some; a deletion takes rows away, or hides them.
StoresAll(q) == file' = [f \in Files |-> IF f \in Does(q).files THEN NewFile(Does(q).bot) ELSE file[f]]
StoresSome(q) ==
  /\ plan.failures
  /\ \E S, T \in SUBSET Does(q).files :
       /\ S # Does(q).files /\ S \cap T = {}
       /\ file' = [f \in Files |-> CASE f \in S -> NewFile(Does(q).bot)
                                     [] f \in T -> [file[f] EXCEPT !.object = TRUE] [] OTHER -> file[f]]
RowsGo(q) ==
  /\ \A f \in call[q].rows : IsRow(f)
  /\ file' = [f \in Files |-> IF f \in call[q].rows THEN NoFile ELSE file[f]]
RowsHide(q) ==
  /\ \A f \in call[q].rows : IsRow(f)
  /\ file' = [f \in Files |-> IF f \in call[q].rows THEN [file[f] EXCEPT !.deleted = TRUE] ELSE file[f]]
Typed == Types /\ Places /\ PageTasks

\* What the parts of a typed call are.
LEMMA CallTypes ==
  ASSUME Typed, NEW q \in Calls
  PROVE  /\ plan \in Plans /\ call[q] \in CallRow /\ InPlace(q, call[q]) /\ Keeps(q, call[q], DOMAIN page)
         /\ Does(q).op \in Ops /\ Does(q).bot \in Bots /\ Does(q).pod \in Pods
         /\ Does(q).files \subseteq Files /\ Does(q).urls \subseteq Urls
         /\ DOMAIN page \subseteq Nat /\ used \in Int /\ botUsed \in Nat
         /\ {r \in Calls : Finished(r)} \subseteq Calls
  BY PlanTypes, PageTypes DEF Typed, Types, Places

\* An upload is let in by the lock, or told of a conflict.
LEMMA TestLockCall ==
  ASSUME Typed, NEW q \in Calls, TestLock(q)
  PROVE  /\ Becomes(q, call'[q]) /\ call[q].pc = "new" /\ Does(q).op \in {"upload", "attach"}
         /\ call'[q].pc \in {"done", "lock"} /\ call'[q].since = {r \in Calls : Finished(r)}
         /\ call'[q].rows = call[q].rows /\ call'[q].left = call[q].left /\ call'[q].cut = call[q].cut
         /\ call'[q].seen = call[q].seen /\ (call'[q].end # "none" => call'[q].pc = "done")
<1>0. call \in [Calls -> CallRow] BY DEF Typed, Types
<1>1. call[q] \in CallRow /\ InPlace(q, call[q]) /\ Keeps(q, call[q], DOMAIN page) BY CallTypes
<1>2. call[q].pc = "new" /\ Does(q).op \in {"upload", "attach"} BY DEF TestLock, Starts, Moves, Goes, Ends
<1>3. call' = [call EXCEPT ![q] = call'[q]] BY <1>0 DEF TestLock, Starts, Moves, Goes, Ends
<1>4. call'[q] \in CallRow
  BY <1>0, <1>1, CallTypes DEF TestLock, Starts, Moves, Goes, Ends, CallRow, Pcs, Outcomes, Over, Ids
<1>5. /\ call'[q].pc \in {"done", "lock"} /\ call'[q].since = {r \in Calls : Finished(r)}
      /\ call'[q].rows = call[q].rows /\ call'[q].left = call[q].left /\ call'[q].cut = call[q].cut
      /\ call'[q].seen = call[q].seen /\ (call'[q].end # "none" => call'[q].pc = "done")
  BY <1>0, <1>1, <1>2, CallTypes DEF TestLock, Starts, Moves, Goes, Ends, CallRow
<1>6. InPlace(q, call'[q]) BY <1>1, <1>2, <1>5 DEF InPlace, Over, Forgets
<1>7. Keeps(q, call'[q], DOMAIN page)
  BY <1>1, <1>2, <1>5, CallTypes DEF Keeps, Over, Forgets, Uploads, FileDeletes, PageOps, Idle
<1>8. page' = page BY DEF TestLock, content
<1>10. Does(q).op \in Uploads /\ call[q].end # "none" => call'[q].end = call[q].end
  BY <1>1, <1>2, <1>5 DEF Keeps, Over, Uploads, Idle
<1>20. Becomes(q, call'[q]) BY <1>2, <1>8, <1>3, <1>4, <1>5, <1>6, <1>7, <1>10 DEF Becomes, Over, FileDeletes
<1> QED BY <1>2, <1>5, <1>20

\* An upload takes the lock.
LEMMA SetLockCall ==
  ASSUME Typed, NEW q \in Calls, SetLock(q)
  PROVE  /\ Becomes(q, call'[q]) /\ call[q].pc = "lock" /\ Does(q).op \in {"upload", "attach"}
         /\ call'[q].pc \in {"check"} /\ call'[q].since = call[q].since /\ call'[q].rows = call[q].rows
         /\ call'[q].left = call[q].left /\ call'[q].cut = call[q].cut /\ call'[q].seen = call[q].seen
         /\ call'[q].end = call[q].end
<1>0. call \in [Calls -> CallRow] BY DEF Typed, Types
<1>1. call[q] \in CallRow /\ InPlace(q, call[q]) /\ Keeps(q, call[q], DOMAIN page) BY CallTypes
<1>2. call[q].pc = "lock" /\ Does(q).op \in {"upload", "attach"}
 <2>1. call[q].pc = "lock" BY DEF SetLock, Starts, Moves, Goes, Ends
 <2> QED BY <1>1, <2>1, CallTypes DEF InPlace, Ops, Uploads, Forgets, Over
<1>3. call' = [call EXCEPT ![q] = call'[q]] BY <1>0 DEF SetLock, Starts, Moves, Goes, Ends
<1>4. call'[q] \in CallRow
  BY <1>0, <1>1, CallTypes DEF SetLock, Starts, Moves, Goes, Ends, CallRow, Pcs, Outcomes, Over, Ids
<1>5. /\ call'[q].pc \in {"check"} /\ call'[q].since = call[q].since /\ call'[q].rows = call[q].rows
      /\ call'[q].left = call[q].left /\ call'[q].cut = call[q].cut /\ call'[q].seen = call[q].seen
      /\ call'[q].end = call[q].end
  BY <1>0, <1>1, <1>2, CallTypes DEF SetLock, Starts, Moves, Goes, Ends, CallRow
<1>6. InPlace(q, call'[q]) BY <1>1, <1>2, <1>5 DEF InPlace, Over, Forgets
<1>7. Keeps(q, call'[q], DOMAIN page)
  BY <1>1, <1>2, <1>5, CallTypes DEF Keeps, Over, Forgets, Uploads, FileDeletes, PageOps, Idle
<1>8. page' = page BY DEF SetLock, content
<1>10. Does(q).op \in Uploads /\ call[q].end # "none" => call'[q].end = call[q].end
  BY <1>1, <1>2, <1>5 DEF Keeps, Over, Uploads, Idle
<1>20. Becomes(q, call'[q]) BY <1>2, <1>8, <1>3, <1>4, <1>5, <1>6, <1>7, <1>10 DEF Becomes, Over, FileDeletes
<1> QED BY <1>2, <1>5, <1>20

\* An upload reads the counter, and fits or does not.
LEMMA CheckQuotaCall ==
  ASSUME Typed, NEW q \in Calls, CheckQuota(q)
  PROVE  /\ Becomes(q, call'[q])
         /\ ((call[q].pc = "new" /\ Does(q).op = "widget") \/ (call[q].pc = "check" /\ Does(q).op \in {"upload", "attach"}))
         /\ call'[q].pc \in {"store", "unlock"} /\ call'[q].end \in {"none", "full"} /\ call'[q].seen = used
         /\ (call'[q].end # "none" => call'[q].pc = "unlock") /\ (call'[q].pc = "store" => Fits(q))
         /\ call'[q].rows = call[q].rows /\ call'[q].left = call[q].left /\ call'[q].cut = call[q].cut
         /\ call'[q].since = IF call[q].pc = "new" THEN {r \in Calls : Finished(r)} ELSE call[q].since
<1>0. call \in [Calls -> CallRow] BY DEF Typed, Types
<1>1. call[q] \in CallRow /\ InPlace(q, call[q]) /\ Keeps(q, call[q], DOMAIN page) BY CallTypes
<1>2. (call[q].pc = "new" /\ Does(q).op = "widget") \/ (call[q].pc = "check" /\ Does(q).op \in {"upload", "attach"})
 <2>1. (call[q].pc = "new" /\ Does(q).op = "widget") \/ call[q].pc = "check"
   BY DEF CheckQuota, Starts, Moves, Goes, Ends
 <2> QED BY <1>1, <2>1, CallTypes DEF InPlace, Ops, Uploads, Forgets, Over
<1>9. /\ call[q].pc = "new" => call' = [call EXCEPT ![q] = [[call[q] EXCEPT !.seen = used, !.pc = IF Fits(q) THEN "store" ELSE "unlock", !.end = IF Fits(q) THEN "none" ELSE "full"] EXCEPT !.since = {r \in Calls : Finished(r)}]]
      /\ call[q].pc # "new" => call' = [call EXCEPT ![q] = [call[q] EXCEPT !.seen = used, !.pc = IF Fits(q) THEN "store" ELSE "unlock", !.end = IF Fits(q) THEN "none" ELSE "full"]]
  BY <1>2 DEF CheckQuota, Starts, Moves, Goes, Ends, Over
<1>3. call' = [call EXCEPT ![q] = call'[q]] BY <1>0, <1>9
<1>5. /\ call'[q] \in CallRow /\ call'[q].pc \in {"store", "unlock"} /\ call'[q].end \in {"none", "full"}
      /\ call'[q].seen = used /\ (call'[q].end # "none" => call'[q].pc = "unlock")
      /\ (call'[q].pc = "store" => Fits(q)) /\ call'[q].rows = call[q].rows /\ call'[q].left = call[q].left
      /\ call'[q].cut = call[q].cut
      /\ call'[q].since = IF call[q].pc = "new" THEN {r \in Calls : Finished(r)} ELSE call[q].since
 <2>1. CASE call[q].pc = "new"
  <3>1. call'[q] = [[call[q] EXCEPT !.seen = used, !.pc = IF Fits(q) THEN "store" ELSE "unlock", !.end = IF Fits(q) THEN "none" ELSE "full"] EXCEPT !.since = {r \in Calls : Finished(r)}]
    BY <1>0, <1>9, <2>1
  <3>2. used \in Int /\ botUsed \in Int /\ {r \in Calls : Finished(r)} \subseteq Calls BY CallTypes
  <3>3. CASE Fits(q)
   <4>1. /\ call'[q] \in CallRow /\ call'[q].pc = "store" /\ call'[q].end = "none" /\ call'[q].seen = used
         /\ call'[q].rows = call[q].rows /\ call'[q].left = call[q].left /\ call'[q].cut = call[q].cut
     BY <1>1, <3>1, <3>2, <3>3 DEF CallRow, Pcs, Outcomes, Over
   <4>2. call'[q].since = IF call[q].pc = "new" THEN {r \in Calls : Finished(r)} ELSE call[q].since
     BY <1>1, <1>2, <2>1, <3>1 DEF CallRow
   <4> QED BY <3>3, <4>1, <4>2
  <3>4. CASE ~Fits(q)
   <4>1. /\ call'[q] \in CallRow /\ call'[q].pc = "unlock" /\ call'[q].end = "full" /\ call'[q].seen = used
         /\ call'[q].rows = call[q].rows /\ call'[q].left = call[q].left /\ call'[q].cut = call[q].cut
     BY <1>1, <3>1, <3>2, <3>4 DEF CallRow, Pcs, Outcomes, Over
   <4>2. call'[q].since = IF call[q].pc = "new" THEN {r \in Calls : Finished(r)} ELSE call[q].since
     BY <1>1, <1>2, <2>1, <3>1 DEF CallRow
   <4> QED BY <3>4, <4>1, <4>2
  <3> QED BY <3>3, <3>4
 <2>2. CASE call[q].pc # "new"
  <3>1. call'[q] = [call[q] EXCEPT !.seen = used, !.pc = IF Fits(q) THEN "store" ELSE "unlock", !.end = IF Fits(q) THEN "none" ELSE "full"]
    BY <1>0, <1>9, <2>2
  <3>2. used \in Int /\ botUsed \in Int /\ {r \in Calls : Finished(r)} \subseteq Calls BY CallTypes
  <3>3. CASE Fits(q)
   <4>1. /\ call'[q] \in CallRow /\ call'[q].pc = "store" /\ call'[q].end = "none" /\ call'[q].seen = used
         /\ call'[q].rows = call[q].rows /\ call'[q].left = call[q].left /\ call'[q].cut = call[q].cut
     BY <1>1, <3>1, <3>2, <3>3 DEF CallRow, Pcs, Outcomes, Over
   <4>2. call'[q].since = IF call[q].pc = "new" THEN {r \in Calls : Finished(r)} ELSE call[q].since
     BY <1>1, <1>2, <2>2, <3>1 DEF CallRow
   <4> QED BY <3>3, <4>1, <4>2
  <3>4. CASE ~Fits(q)
   <4>1. /\ call'[q] \in CallRow /\ call'[q].pc = "unlock" /\ call'[q].end = "full" /\ call'[q].seen = used
         /\ call'[q].rows = call[q].rows /\ call'[q].left = call[q].left /\ call'[q].cut = call[q].cut
     BY <1>1, <3>1, <3>2, <3>4 DEF CallRow, Pcs, Outcomes, Over
   <4>2. call'[q].since = IF call[q].pc = "new" THEN {r \in Calls : Finished(r)} ELSE call[q].since
     BY <1>1, <1>2, <2>2, <3>1 DEF CallRow
   <4> QED BY <3>4, <4>1, <4>2
  <3> QED BY <3>3, <3>4
 <2> QED BY <1>9, <2>1, <2>2
<1>6. InPlace(q, call'[q]) BY <1>1, <1>2, <1>5 DEF InPlace, Over, Forgets
<1>7. Keeps(q, call'[q], DOMAIN page)
  BY <1>1, <1>2, <1>5, CallTypes DEF Keeps, Over, Forgets, Uploads, FileDeletes, PageOps
<1>8. page' = page BY DEF CheckQuota, content
<1>10. Does(q).op \in Uploads /\ call[q].end # "none" => call'[q].end = call[q].end
  BY <1>1, <1>2, <1>5 DEF Keeps, Over, Uploads, Idle
<1>20. Becomes(q, call'[q]) BY <1>2, <1>8, <1>3, <1>5, <1>6, <1>7, <1>10 DEF Becomes, Over, FileDeletes
<1> QED BY <1>2, <1>5, <1>20

\* An upload stores its files, or leaves off.
LEMMA StoreFilesCall ==
  ASSUME Typed, NEW q \in Calls, StoreFiles(q)
  PROVE  /\ Becomes(q, call'[q]) /\ call[q].pc = "store" /\ Does(q).op \in {"upload", "attach", "widget"}
         /\ call'[q].pc \in {"count", "unlock"} /\ call'[q].since = call[q].since
         /\ call'[q].rows = call[q].rows /\ call'[q].left = call[q].left /\ call'[q].cut = call[q].cut
         /\ call'[q].seen = call[q].seen /\ (call'[q].pc = "count" => call'[q].end = call[q].end)
         /\ \/ call'[q].pc = "count" /\ StoresAll(q)
            \/ call'[q].pc = "unlock" /\ call'[q].end = "threw" /\ StoresSome(q)
<1>0. call \in [Calls -> CallRow] BY DEF Typed, Types
<1>1. call[q] \in CallRow /\ InPlace(q, call[q]) /\ Keeps(q, call[q], DOMAIN page) BY CallTypes
<1>2. call[q].pc = "store" /\ Does(q).op \in {"upload", "attach", "widget"}
 <2>1. call[q].pc = "store" BY DEF StoreFiles, Starts, Moves, Goes, Ends
 <2> QED BY <1>1, <2>1, CallTypes DEF InPlace, Ops, Uploads, Forgets, Over
<1>9. \/ call' = [call EXCEPT ![q] = [call[q] EXCEPT !.pc = "count"]]
      \/ call' = [call EXCEPT ![q] = [call[q] EXCEPT !.pc = "unlock", !.end = "threw"]]
  BY <1>2 DEF StoreFiles, Starts, Moves, Goes, Ends, Over
<1>3. call' = [call EXCEPT ![q] = call'[q]] BY <1>0, <1>9
<1>5. /\ call'[q] \in CallRow /\ call'[q].pc \in {"count", "unlock"} /\ call'[q].since = call[q].since
      /\ call'[q].rows = call[q].rows /\ call'[q].left = call[q].left /\ call'[q].cut = call[q].cut
      /\ call'[q].seen = call[q].seen /\ (call'[q].pc = "count" => call'[q].end = call[q].end)
 <2>1. CASE call' = [call EXCEPT ![q] = [call[q] EXCEPT !.pc = "count"]]
  <3>1. call'[q] = [call[q] EXCEPT !.pc = "count"] BY <1>0, <1>9, <2>1
  <3>2. used \in Int /\ botUsed \in Int /\ {r \in Calls : Finished(r)} \subseteq Calls BY CallTypes
  <3> QED BY <1>1, <1>2, <3>1, <3>2 DEF CallRow, Pcs, Outcomes, Over
 <2>2. CASE call' = [call EXCEPT ![q] = [call[q] EXCEPT !.pc = "unlock", !.end = "threw"]]
  <3>1. call'[q] = [call[q] EXCEPT !.pc = "unlock", !.end = "threw"] BY <1>0, <1>9, <2>2
  <3>2. used \in Int /\ botUsed \in Int /\ {r \in Calls : Finished(r)} \subseteq Calls BY CallTypes
  <3> QED BY <1>1, <1>2, <3>1, <3>2 DEF CallRow, Pcs, Outcomes, Over
 <2> QED BY <1>9, <2>1, <2>2
<1>6. InPlace(q, call'[q]) BY <1>1, <1>2, <1>5 DEF InPlace, Over, Forgets
<1>7. Keeps(q, call'[q], DOMAIN page)
  BY <1>1, <1>2, <1>5, CallTypes DEF Keeps, Over, Forgets, Uploads, FileDeletes, PageOps
<1>8. page' = page BY DEF StoreFiles, content
<1>10. Does(q).op \in Uploads /\ call[q].end # "none" => call'[q].end = call[q].end
  BY <1>1, <1>2, <1>5 DEF Keeps, Over, Uploads, Idle
<1>20. Becomes(q, call'[q]) BY <1>2, <1>8, <1>3, <1>5, <1>6, <1>7, <1>10 DEF Becomes, Over, FileDeletes
<1>11. \/ call'[q].pc = "count" /\ StoresAll(q)
       \/ call'[q].pc = "unlock" /\ call'[q].end = "threw" /\ StoresSome(q)
 <2>0. \/ call' = [call EXCEPT ![q] = [call[q] EXCEPT !.pc = "count"]] /\ StoresAll(q)
       \/ call' = [call EXCEPT ![q] = [call[q] EXCEPT !.pc = "unlock", !.end = "threw"]] /\ StoresSome(q)
   BY DEF StoreFiles, Goes, Ends, Moves, StoresAll, StoresSome, RowsGo, RowsHide
 <2>1. CASE call' = [call EXCEPT ![q] = [call[q] EXCEPT !.pc = "count"]] /\ StoresAll(q)
  <3>1. call'[q] = [call[q] EXCEPT !.pc = "count"] BY <1>0, <2>1
  <3>2. call'[q].pc = "count" BY <1>1, <3>1 DEF CallRow
  <3> QED BY <2>1, <3>2
 <2>2. CASE call' = [call EXCEPT ![q] = [call[q] EXCEPT !.pc = "unlock", !.end = "threw"]] /\ StoresSome(q)
  <3>1. call'[q] = [call[q] EXCEPT !.pc = "unlock", !.end = "threw"] BY <1>0, <2>2
  <3>2. call'[q].pc = "unlock" /\ call'[q].end = "threw" BY <1>1, <3>1 DEF CallRow
  <3> QED BY <2>2, <3>2
 <2> QED BY <2>0, <2>1, <2>2
<1> QED BY <1>2, <1>5, <1>20, <1>11

\* An upload adds its files to the counter.
LEMMA CountUploadCall ==
  ASSUME Typed, NEW q \in Calls, CountUpload(q)
  PROVE  /\ Becomes(q, call'[q]) /\ call[q].pc = "count" /\ Does(q).op \in {"upload", "attach", "widget"}
         /\ call'[q].pc \in {"unlock"} /\ call'[q].since = call[q].since /\ call'[q].rows = call[q].rows
         /\ call'[q].left = call[q].left /\ call'[q].cut = call[q].cut /\ call'[q].seen = call[q].seen
<1>0. call \in [Calls -> CallRow] BY DEF Typed, Types
<1>1. call[q] \in CallRow /\ InPlace(q, call[q]) /\ Keeps(q, call[q], DOMAIN page) BY CallTypes
<1>2. call[q].pc = "count" /\ Does(q).op \in {"upload", "attach", "widget"}
 <2>1. call[q].pc = "count" BY DEF CountUpload, Starts, Moves, Goes, Ends
 <2> QED BY <1>1, <2>1, CallTypes DEF InPlace, Ops, Uploads, Forgets, Over
<1>3. call' = [call EXCEPT ![q] = call'[q]] BY <1>0 DEF CountUpload, Starts, Moves, Goes, Ends
<1>4. call'[q] \in CallRow
  BY <1>0, <1>1, CallTypes DEF CountUpload, Starts, Moves, Goes, Ends, CallRow, Pcs, Outcomes, Over, Ids
<1>5. /\ call'[q].pc \in {"unlock"} /\ call'[q].since = call[q].since /\ call'[q].rows = call[q].rows
      /\ call'[q].left = call[q].left /\ call'[q].cut = call[q].cut /\ call'[q].seen = call[q].seen
  BY <1>0, <1>1, <1>2, CallTypes DEF CountUpload, Starts, Moves, Goes, Ends, CallRow
<1>6. InPlace(q, call'[q]) BY <1>1, <1>2, <1>5 DEF InPlace, Over, Forgets
<1>7. Keeps(q, call'[q], DOMAIN page)
  BY <1>1, <1>2, <1>5, CallTypes DEF Keeps, Over, Forgets, Uploads, FileDeletes, PageOps, Idle
<1>8. page' = page BY DEF CountUpload, content
<1>10. Does(q).op \in Uploads /\ call[q].end # "none" => call'[q].end = call[q].end
  BY <1>1, <1>2, <1>5 DEF Keeps, Over, Uploads, Idle
<1>20. Becomes(q, call'[q]) BY <1>2, <1>8, <1>3, <1>4, <1>5, <1>6, <1>7, <1>10 DEF Becomes, Over, FileDeletes
<1> QED BY <1>2, <1>5, <1>20

\* An upload gives the lock back and is over.
LEMMA ReleaseLockCall ==
  ASSUME Typed, NEW q \in Calls, ReleaseLock(q)
  PROVE  /\ Becomes(q, call'[q]) /\ call[q].pc = "unlock" /\ Does(q).op \in {"upload", "attach", "widget"}
         /\ call'[q].pc \in {"done"} /\ call'[q].since = call[q].since /\ call'[q].rows = call[q].rows
         /\ call'[q].left = call[q].left /\ call'[q].cut = call[q].cut /\ call'[q].seen = call[q].seen
         /\ call'[q].end = call[q].end
<1>0. call \in [Calls -> CallRow] BY DEF Typed, Types
<1>1. call[q] \in CallRow /\ InPlace(q, call[q]) /\ Keeps(q, call[q], DOMAIN page) BY CallTypes
<1>2. call[q].pc = "unlock" /\ Does(q).op \in {"upload", "attach", "widget"}
 <2>1. call[q].pc = "unlock" BY DEF ReleaseLock, Starts, Moves, Goes, Ends
 <2> QED BY <1>1, <2>1, CallTypes DEF InPlace, Ops, Uploads, Forgets, Over
<1>3. call' = [call EXCEPT ![q] = call'[q]] BY <1>0 DEF ReleaseLock, Starts, Moves, Goes, Ends
<1>4. call'[q] \in CallRow
  BY <1>0, <1>1, CallTypes DEF ReleaseLock, Starts, Moves, Goes, Ends, CallRow, Pcs, Outcomes, Over, Ids
<1>5. /\ call'[q].pc \in {"done"} /\ call'[q].since = call[q].since /\ call'[q].rows = call[q].rows
      /\ call'[q].left = call[q].left /\ call'[q].cut = call[q].cut /\ call'[q].seen = call[q].seen
      /\ call'[q].end = call[q].end
  BY <1>0, <1>1, <1>2, CallTypes DEF ReleaseLock, Starts, Moves, Goes, Ends, CallRow
<1>6. InPlace(q, call'[q]) BY <1>1, <1>2, <1>5 DEF InPlace, Over, Forgets
<1>7. Keeps(q, call'[q], DOMAIN page)
  BY <1>1, <1>2, <1>5, CallTypes DEF Keeps, Over, Forgets, Uploads, FileDeletes, PageOps, Idle
<1>8. page' = page BY DEF ReleaseLock, content
<1>10. Does(q).op \in Uploads /\ call[q].end # "none" => call'[q].end = call[q].end
  BY <1>1, <1>2, <1>5 DEF Keeps, Over, Uploads, Idle
<1>20. Becomes(q, call'[q]) BY <1>2, <1>8, <1>3, <1>4, <1>5, <1>6, <1>7, <1>10 DEF Becomes, Over, FileDeletes
<1> QED BY <1>2, <1>5, <1>20

\* A deletion finds its file, or is over.
LEMMA FindFileCall ==
  ASSUME Typed, NEW q \in Calls, FindFile(q)
  PROVE  /\ Becomes(q, call'[q]) /\ call[q].pc = "new" /\ Does(q).op \in {"deleteFile"}
         /\ call'[q].pc \in {"done", "object"} /\ call'[q].since = {r \in Calls : Finished(r)}
         /\ call'[q].rows \subseteq Does(q).files /\ call'[q].left = call[q].left
         /\ call'[q].cut = call[q].cut /\ call'[q].seen = call[q].seen
         /\ call'[q].rows = {f \in Does(q).files : IsRow(f)}
<1>0. call \in [Calls -> CallRow] BY DEF Typed, Types
<1>1. call[q] \in CallRow /\ InPlace(q, call[q]) /\ Keeps(q, call[q], DOMAIN page) BY CallTypes
<1>2. call[q].pc = "new" /\ Does(q).op \in {"deleteFile"} BY DEF FindFile, Starts, Moves, Goes, Ends
<1>3. call' = [call EXCEPT ![q] = call'[q]] BY <1>0 DEF FindFile, Starts, Moves, Goes, Ends
<1>4. call'[q] \in CallRow
  BY <1>0, <1>1, CallTypes DEF FindFile, Starts, Moves, Goes, Ends, CallRow, Pcs, Outcomes, Over, Ids
<1>5. /\ call'[q].pc \in {"done", "object"} /\ call'[q].since = {r \in Calls : Finished(r)}
      /\ call'[q].rows \subseteq Does(q).files /\ call'[q].left = call[q].left /\ call'[q].cut = call[q].cut
      /\ call'[q].seen = call[q].seen
  BY <1>0, <1>1, <1>2, CallTypes DEF FindFile, Starts, Moves, Goes, Ends, CallRow
<1>6. InPlace(q, call'[q]) BY <1>1, <1>2, <1>5 DEF InPlace, Over, Forgets
<1>7. Keeps(q, call'[q], DOMAIN page)
  BY <1>1, <1>2, <1>5, CallTypes DEF Keeps, Over, Forgets, Uploads, FileDeletes, PageOps, Idle
<1>8. page' = page BY DEF FindFile, content
<1>10. Does(q).op \in Uploads /\ call[q].end # "none" => call'[q].end = call[q].end
  BY <1>1, <1>2, <1>5 DEF Keeps, Over, Uploads, Idle
<1>20. Becomes(q, call'[q]) BY <1>2, <1>8, <1>3, <1>4, <1>5, <1>6, <1>7, <1>10 DEF Becomes, Over, FileDeletes
<1>11. call'[q].rows = {f \in Does(q).files : IsRow(f)} BY <1>0, <1>1 DEF FindFile, Starts, CallRow
<1> QED BY <1>2, <1>5, <1>20, <1>11

\* A deletion takes the object away, or is over; that of an attachment goes on.
LEMMA DeleteObjectCall ==
  ASSUME Typed, NEW q \in Calls, DeleteObject(q)
  PROVE  /\ Becomes(q, call'[q]) /\ call[q].pc = "object" /\ Does(q).op \in {"deleteFile", "deleteAttachment"}
         /\ call'[q].pc \in (IF Does(q).op = "deleteFile" THEN {"row", "done"} ELSE {"hide"}) /\ call'[q].since = call[q].since /\ call'[q].rows = call[q].rows
         /\ call'[q].left = call[q].left /\ call'[q].cut = call[q].cut /\ call'[q].seen = call[q].seen
<1>0. call \in [Calls -> CallRow] BY DEF Typed, Types
<1>1. call[q] \in CallRow /\ InPlace(q, call[q]) /\ Keeps(q, call[q], DOMAIN page) BY CallTypes
<1>2. call[q].pc = "object" /\ Does(q).op \in {"deleteFile", "deleteAttachment"}
 <2>1. call[q].pc = "object" BY DEF DeleteObject, Starts, Moves, Goes, Ends
 <2> QED BY <1>1, <2>1, CallTypes DEF InPlace, Ops, Uploads, Forgets, Over
<1>9. \/ call' = [call EXCEPT ![q] = [call[q] EXCEPT !.pc = "row"]] /\ Does(q).op = "deleteFile"
      \/ call' = [call EXCEPT ![q] = [call[q] EXCEPT !.pc = "hide"]] /\ Does(q).op # "deleteFile"
      \/ call' = [call EXCEPT ![q] = [call[q] EXCEPT !.pc = "done", !.end = "threw"]] /\ Does(q).op = "deleteFile"
  BY <1>2 DEF DeleteObject, Starts, Moves, Goes, Ends, Over
<1>3. call' = [call EXCEPT ![q] = call'[q]] BY <1>0, <1>9
<1>5. /\ call'[q] \in CallRow /\ call'[q].pc \in (IF Does(q).op = "deleteFile" THEN {"row", "done"} ELSE {"hide"}) /\ call'[q].since = call[q].since
      /\ call'[q].rows = call[q].rows /\ call'[q].left = call[q].left /\ call'[q].cut = call[q].cut
      /\ call'[q].seen = call[q].seen
 <2>3. CASE call' = [call EXCEPT ![q] = [call[q] EXCEPT !.pc = "hide"]] /\ Does(q).op # "deleteFile"
  <3>1. call'[q] = [call[q] EXCEPT !.pc = "hide"] BY <1>0, <1>9, <2>3
  <3> QED BY <1>1, <1>2, <2>3, <3>1 DEF CallRow, Pcs
 <2>1. CASE call' = [call EXCEPT ![q] = [call[q] EXCEPT !.pc = "row"]] /\ Does(q).op = "deleteFile"
  <3>1. call'[q] = [call[q] EXCEPT !.pc = "row"] BY <1>0, <1>9, <2>1
  <3> QED BY <1>1, <1>2, <2>1, <3>1 DEF CallRow, Pcs
 <2>2. CASE call' = [call EXCEPT ![q] = [call[q] EXCEPT !.pc = "done", !.end = "threw"]] /\ Does(q).op = "deleteFile"
  <3>1. call'[q] = [call[q] EXCEPT !.pc = "done", !.end = "threw"] BY <1>0, <2>2
  <3>2. call'[q] \in CallRow BY <1>1, <3>1 DEF CallRow, Pcs, Outcomes, Over
  <3>3. call'[q].pc = "done" BY <1>1, <3>1 DEF CallRow
  <3> QED BY <1>1, <2>2, <3>1, <3>2, <3>3 DEF CallRow
 <2> QED BY <1>9, <2>1, <2>2, <2>3
<1>6. InPlace(q, call'[q]) BY <1>1, <1>2, <1>5 DEF InPlace, Over, Forgets
<1>7. Keeps(q, call'[q], DOMAIN page)
  BY <1>1, <1>2, <1>5, CallTypes DEF Keeps, Over, Forgets, Uploads, FileDeletes, PageOps
<1>8. page' = page BY DEF DeleteObject, content
<1>10. Does(q).op \in Uploads /\ call[q].end # "none" => call'[q].end = call[q].end
  BY <1>1, <1>2, <1>5 DEF Keeps, Over, Uploads, Idle
<1>20. Becomes(q, call'[q]) BY <1>2, <1>8, <1>3, <1>5, <1>6, <1>7, <1>10 DEF Becomes, Over, FileDeletes
<1> QED BY <1>2, <1>5, <1>20

\* A deletion takes the row away and reads the counter, or is over.
LEMMA DeleteRowCall ==
  ASSUME Typed, NEW q \in Calls, DeleteRow(q)
  PROVE  /\ Becomes(q, call'[q]) /\ call[q].pc = "row" /\ Does(q).op \in {"deleteFile"}
         /\ call'[q].pc \in {"lower", "done"} /\ call'[q].since = call[q].since
         /\ call'[q].rows = call[q].rows /\ call'[q].left = call[q].left /\ call'[q].cut = call[q].cut
         /\ call'[q].seen \in {used, call[q].seen}
         /\ \/ call'[q].pc = "lower" /\ call'[q].seen = used /\ RowsGo(q)
            \/ call'[q].pc = "done" /\ file' = file
<1>0. call \in [Calls -> CallRow] BY DEF Typed, Types
<1>1. call[q] \in CallRow /\ InPlace(q, call[q]) /\ Keeps(q, call[q], DOMAIN page) BY CallTypes
<1>2. call[q].pc = "row" /\ Does(q).op \in {"deleteFile"}
 <2>1. call[q].pc = "row" BY DEF DeleteRow, Starts, Moves, Goes, Ends
 <2> QED BY <1>1, <2>1, CallTypes DEF InPlace, Ops, Uploads, Forgets, Over
<1>9. \/ call' = [call EXCEPT ![q] = [call[q] EXCEPT !.pc = "lower", !.seen = used]]
      \/ call' = [call EXCEPT ![q] = [call[q] EXCEPT !.pc = "done", !.end = "threw"]]
  BY <1>2 DEF DeleteRow, Starts, Moves, Goes, Ends, Over
<1>3. call' = [call EXCEPT ![q] = call'[q]] BY <1>0, <1>9
<1>5. /\ call'[q] \in CallRow /\ call'[q].pc \in {"lower", "done"} /\ call'[q].since = call[q].since
      /\ call'[q].rows = call[q].rows /\ call'[q].left = call[q].left /\ call'[q].cut = call[q].cut
      /\ call'[q].seen \in {used, call[q].seen}
 <2>1. CASE call' = [call EXCEPT ![q] = [call[q] EXCEPT !.pc = "lower", !.seen = used]]
  <3>1. call'[q] = [call[q] EXCEPT !.pc = "lower", !.seen = used] BY <1>0, <1>9, <2>1
  <3>2. used \in Int /\ botUsed \in Int /\ {r \in Calls : Finished(r)} \subseteq Calls BY CallTypes
  <3> QED BY <1>1, <1>2, <3>1, <3>2 DEF CallRow, Pcs, Outcomes, Over
 <2>2. CASE call' = [call EXCEPT ![q] = [call[q] EXCEPT !.pc = "done", !.end = "threw"]]
  <3>1. call'[q] = [call[q] EXCEPT !.pc = "done", !.end = "threw"] BY <1>0, <1>9, <2>2
  <3>2. used \in Int /\ botUsed \in Int /\ {r \in Calls : Finished(r)} \subseteq Calls BY CallTypes
  <3> QED BY <1>1, <1>2, <3>1, <3>2 DEF CallRow, Pcs, Outcomes, Over
 <2> QED BY <1>9, <2>1, <2>2
<1>6. InPlace(q, call'[q]) BY <1>1, <1>2, <1>5 DEF InPlace, Over, Forgets
<1>7. Keeps(q, call'[q], DOMAIN page)
  BY <1>1, <1>2, <1>5, CallTypes DEF Keeps, Over, Forgets, Uploads, FileDeletes, PageOps
<1>8. page' = page BY DEF DeleteRow, content
<1>10. Does(q).op \in Uploads /\ call[q].end # "none" => call'[q].end = call[q].end
  BY <1>1, <1>2, <1>5 DEF Keeps, Over, Uploads, Idle
<1>20. Becomes(q, call'[q]) BY <1>2, <1>8, <1>3, <1>5, <1>6, <1>7, <1>10 DEF Becomes, Over, FileDeletes
<1>11. \/ call'[q].pc = "lower" /\ call'[q].seen = used /\ RowsGo(q)
       \/ call'[q].pc = "done" /\ file' = file
 <2>0. \/ call' = [call EXCEPT ![q] = [call[q] EXCEPT !.pc = "lower", !.seen = used]] /\ RowsGo(q)
       \/ call' = [call EXCEPT ![q] = [call[q] EXCEPT !.pc = "done", !.end = "threw"]] /\ file' = file
   BY DEF DeleteRow, Goes, Ends, Moves, StoresAll, StoresSome, RowsGo, RowsHide
 <2>1. CASE call' = [call EXCEPT ![q] = [call[q] EXCEPT !.pc = "lower", !.seen = used]] /\ RowsGo(q)
  <3>1. call'[q] = [call[q] EXCEPT !.pc = "lower", !.seen = used] BY <1>0, <2>1
  <3>2. call'[q].pc = "lower" /\ call'[q].seen = used BY <1>1, <3>1 DEF CallRow
  <3> QED BY <2>1, <3>2
 <2>2. CASE call' = [call EXCEPT ![q] = [call[q] EXCEPT !.pc = "done", !.end = "threw"]] /\ file' = file
  <3>1. call'[q] = [call[q] EXCEPT !.pc = "done", !.end = "threw"] BY <1>0, <2>2
  <3>2. call'[q].pc = "done" BY <1>1, <3>1 DEF CallRow
  <3> QED BY <2>2, <3>2
 <2> QED BY <2>0, <2>1, <2>2
<1> QED BY <1>2, <1>5, <1>20, <1>11

\* A deletion writes the counter and is over.
LEMMA LowerUsageCall ==
  ASSUME Typed, NEW q \in Calls, LowerUsage(q)
  PROVE  /\ Becomes(q, call'[q]) /\ call[q].pc = "lower" /\ Does(q).op \in {"deleteFile", "deleteFiles"}
         /\ call'[q].pc \in {"done"} /\ call'[q].since = call[q].since /\ call'[q].rows = call[q].rows
         /\ call'[q].left = call[q].left /\ call'[q].cut = call[q].cut /\ call'[q].seen = call[q].seen
<1>0. call \in [Calls -> CallRow] BY DEF Typed, Types
<1>1. call[q] \in CallRow /\ InPlace(q, call[q]) /\ Keeps(q, call[q], DOMAIN page) BY CallTypes
<1>2. call[q].pc = "lower" /\ Does(q).op \in {"deleteFile", "deleteFiles"}
 <2>1. call[q].pc = "lower" BY DEF LowerUsage, Starts, Moves, Goes, Ends
 <2> QED BY <1>1, <2>1, CallTypes DEF InPlace, Ops, Uploads, Forgets, Over
<1>3. call' = [call EXCEPT ![q] = call'[q]] BY <1>0 DEF LowerUsage, Starts, Moves, Goes, Ends
<1>4. call'[q] \in CallRow
  BY <1>0, <1>1, CallTypes DEF LowerUsage, Starts, Moves, Goes, Ends, CallRow, Pcs, Outcomes, Over, Ids
<1>5. /\ call'[q].pc \in {"done"} /\ call'[q].since = call[q].since /\ call'[q].rows = call[q].rows
      /\ call'[q].left = call[q].left /\ call'[q].cut = call[q].cut /\ call'[q].seen = call[q].seen
  BY <1>0, <1>1, <1>2, CallTypes DEF LowerUsage, Starts, Moves, Goes, Ends, CallRow
<1>6. InPlace(q, call'[q]) BY <1>1, <1>2, <1>5 DEF InPlace, Over, Forgets
<1>7. Keeps(q, call'[q], DOMAIN page)
  BY <1>1, <1>2, <1>5, CallTypes DEF Keeps, Over, Forgets, Uploads, FileDeletes, PageOps, Idle
<1>8. page' = page BY DEF LowerUsage, content
<1>10. Does(q).op \in Uploads /\ call[q].end # "none" => call'[q].end = call[q].end
  BY <1>1, <1>2, <1>5 DEF Keeps, Over, Uploads, Idle
<1>20. Becomes(q, call'[q]) BY <1>2, <1>8, <1>3, <1>4, <1>5, <1>6, <1>7, <1>10 DEF Becomes, Over, FileDeletes
<1> QED BY <1>2, <1>5, <1>20

\* A bulk deletion marks the rows it finds.
LEMMA MarkFilesCall ==
  ASSUME Typed, NEW q \in Calls, MarkFiles(q)
  PROVE  /\ Becomes(q, call'[q]) /\ call[q].pc = "new" /\ Does(q).op \in {"deleteFiles"}
         /\ call'[q].pc \in {"done", "files"} /\ call'[q].since = {r \in Calls : Finished(r)}
         /\ call'[q].rows \subseteq Does(q).files /\ call'[q].left = call'[q].rows
         /\ (call'[q].pc = "files" => call'[q].rows # {}) /\ call'[q].cut = call[q].cut
         /\ call'[q].seen = call[q].seen /\ call'[q].rows = {f \in Does(q).files : IsRow(f)}
         /\ file' = [f \in Files |-> IF f \in call'[q].rows THEN [file[f] EXCEPT !.status = "BEING_DELETED"] ELSE file[f]]
<1>0. call \in [Calls -> CallRow] BY DEF Typed, Types
<1>1. call[q] \in CallRow /\ InPlace(q, call[q]) /\ Keeps(q, call[q], DOMAIN page) BY CallTypes
<1>2. call[q].pc = "new" /\ Does(q).op \in {"deleteFiles"} BY DEF MarkFiles, Starts, Moves, Goes, Ends
<1>3. call' = [call EXCEPT ![q] = call'[q]] BY <1>0 DEF MarkFiles, Starts, Moves, Goes, Ends
<1>4. call'[q] \in CallRow
  BY <1>0, <1>1, CallTypes DEF MarkFiles, Starts, Moves, Goes, Ends, CallRow, Pcs, Outcomes, Over, Ids
<1>5. /\ call'[q].pc \in {"done", "files"} /\ call'[q].since = {r \in Calls : Finished(r)}
      /\ call'[q].rows \subseteq Does(q).files /\ call'[q].left = call'[q].rows
      /\ (call'[q].pc = "files" => call'[q].rows # {}) /\ call'[q].cut = call[q].cut
      /\ call'[q].seen = call[q].seen
  BY <1>0, <1>1, <1>2, CallTypes DEF MarkFiles, Starts, Moves, Goes, Ends, CallRow
<1>6. InPlace(q, call'[q]) BY <1>1, <1>2, <1>5 DEF InPlace, Over, Forgets
<1>7. Keeps(q, call'[q], DOMAIN page)
  BY <1>1, <1>2, <1>5, CallTypes DEF Keeps, Over, Forgets, Uploads, FileDeletes, PageOps, Idle
<1>8. page' = page BY DEF MarkFiles, content
<1>10. Does(q).op \in Uploads /\ call[q].end # "none" => call'[q].end = call[q].end
  BY <1>1, <1>2, <1>5 DEF Keeps, Over, Uploads, Idle
<1>20. Becomes(q, call'[q]) BY <1>2, <1>8, <1>3, <1>4, <1>5, <1>6, <1>7, <1>10 DEF Becomes, Over, FileDeletes
<1>11. call'[q].rows = {f \in Does(q).files : IsRow(f)} BY <1>0, <1>1 DEF MarkFiles, Starts, CallRow
<1>12. file' = [f \in Files |-> IF f \in call'[q].rows THEN [file[f] EXCEPT !.status = "BEING_DELETED"] ELSE file[f]]
  BY <1>11 DEF MarkFiles
<1> QED BY <1>2, <1>5, <1>20, <1>11, <1>12

\* A bulk deletion has been through its rows, and reads the counter or is over.
LEMMA ReadBulkCall ==
  ASSUME Typed, NEW q \in Calls, ReadBulk(q)
  PROVE  /\ Becomes(q, call'[q]) /\ call[q].pc = "files" /\ Does(q).op \in {"deleteFiles"}
         /\ call'[q].pc \in {"lower", "done"} /\ call'[q].since = call[q].since
         /\ call'[q].rows = call[q].rows /\ call'[q].left = call[q].left /\ call'[q].cut = call[q].cut
         /\ call'[q].seen \in {used, call[q].seen}
         /\ \/ call'[q].pc = "lower" /\ call'[q].seen = used /\ call[q].cut # {} /\ call[q].left = {}
            \/ call'[q].pc = "done" /\ call[q].cut = {} /\ call[q].left = {}
<1>0. call \in [Calls -> CallRow] BY DEF Typed, Types
<1>1. call[q] \in CallRow /\ InPlace(q, call[q]) /\ Keeps(q, call[q], DOMAIN page) BY CallTypes
<1>2. call[q].pc = "files" /\ Does(q).op \in {"deleteFiles"}
 <2>1. call[q].pc = "files" BY DEF ReadBulk, Starts, Moves, Goes, Ends
 <2> QED BY <1>1, <2>1, CallTypes DEF InPlace, Ops, Uploads, Forgets, Over
<1>9. \/ call' = [call EXCEPT ![q] = [call[q] EXCEPT !.pc = "lower", !.seen = used]]
      \/ call' = [call EXCEPT ![q] = [call[q] EXCEPT !.pc = "done", !.end = "threw"]]
  BY <1>2 DEF ReadBulk, Starts, Moves, Goes, Ends, Over
<1>3. call' = [call EXCEPT ![q] = call'[q]] BY <1>0, <1>9
<1>5. /\ call'[q] \in CallRow /\ call'[q].pc \in {"lower", "done"} /\ call'[q].since = call[q].since
      /\ call'[q].rows = call[q].rows /\ call'[q].left = call[q].left /\ call'[q].cut = call[q].cut
      /\ call'[q].seen \in {used, call[q].seen}
 <2>1. CASE call' = [call EXCEPT ![q] = [call[q] EXCEPT !.pc = "lower", !.seen = used]]
  <3>1. call'[q] = [call[q] EXCEPT !.pc = "lower", !.seen = used] BY <1>0, <1>9, <2>1
  <3>2. used \in Int /\ botUsed \in Int /\ {r \in Calls : Finished(r)} \subseteq Calls BY CallTypes
  <3> QED BY <1>1, <1>2, <3>1, <3>2 DEF CallRow, Pcs, Outcomes, Over
 <2>2. CASE call' = [call EXCEPT ![q] = [call[q] EXCEPT !.pc = "done", !.end = "threw"]]
  <3>1. call'[q] = [call[q] EXCEPT !.pc = "done", !.end = "threw"] BY <1>0, <1>9, <2>2
  <3>2. used \in Int /\ botUsed \in Int /\ {r \in Calls : Finished(r)} \subseteq Calls BY CallTypes
  <3> QED BY <1>1, <1>2, <3>1, <3>2 DEF CallRow, Pcs, Outcomes, Over
 <2> QED BY <1>9, <2>1, <2>2
<1>6. InPlace(q, call'[q]) BY <1>1, <1>2, <1>5 DEF InPlace, Over, Forgets
<1>7. Keeps(q, call'[q], DOMAIN page)
  BY <1>1, <1>2, <1>5, CallTypes DEF Keeps, Over, Forgets, Uploads, FileDeletes, PageOps
<1>8. page' = page BY DEF ReadBulk, content
<1>10. Does(q).op \in Uploads /\ call[q].end # "none" => call'[q].end = call[q].end
  BY <1>1, <1>2, <1>5 DEF Keeps, Over, Uploads, Idle
<1>20. Becomes(q, call'[q]) BY <1>2, <1>8, <1>3, <1>5, <1>6, <1>7, <1>10 DEF Becomes, Over, FileDeletes
<1>11. \/ call'[q].pc = "lower" /\ call'[q].seen = used /\ call[q].cut # {} /\ call[q].left = {}
       \/ call'[q].pc = "done" /\ call[q].cut = {} /\ call[q].left = {}
 <2>0. \/ call' = [call EXCEPT ![q] = [call[q] EXCEPT !.pc = "lower", !.seen = used]] /\ call[q].cut # {} /\ call[q].left = {}
       \/ call' = [call EXCEPT ![q] = [call[q] EXCEPT !.pc = "done", !.end = "threw"]] /\ call[q].cut = {} /\ call[q].left = {}
   BY DEF ReadBulk, Goes, Ends, Moves, StoresAll, StoresSome, RowsGo, RowsHide
 <2>1. CASE call' = [call EXCEPT ![q] = [call[q] EXCEPT !.pc = "lower", !.seen = used]] /\ call[q].cut # {} /\ call[q].left = {}
  <3>1. call'[q] = [call[q] EXCEPT !.pc = "lower", !.seen = used] BY <1>0, <2>1
  <3>2. call'[q].pc = "lower" /\ call'[q].seen = used BY <1>1, <3>1 DEF CallRow
  <3> QED BY <2>1, <3>2
 <2>2. CASE call' = [call EXCEPT ![q] = [call[q] EXCEPT !.pc = "done", !.end = "threw"]] /\ call[q].cut = {} /\ call[q].left = {}
  <3>1. call'[q] = [call[q] EXCEPT !.pc = "done", !.end = "threw"] BY <1>0, <2>2
  <3>2. call'[q].pc = "done" BY <1>1, <3>1 DEF CallRow
  <3> QED BY <2>2, <3>2
 <2> QED BY <2>0, <2>1, <2>2
<1> QED BY <1>2, <1>5, <1>20, <1>11

\* The deletion of an attachment finds it, or is over.
LEMMA FindAttachmentCall ==
  ASSUME Typed, NEW q \in Calls, FindAttachment(q)
  PROVE  /\ Becomes(q, call'[q]) /\ call[q].pc = "new" /\ Does(q).op \in {"deleteAttachment"}
         /\ call'[q].pc \in {"done", "object"} /\ call'[q].since = {r \in Calls : Finished(r)}
         /\ call'[q].rows \subseteq Does(q).files /\ call'[q].left = call[q].left
         /\ call'[q].cut = call[q].cut /\ call'[q].seen = call[q].seen
         /\ call'[q].rows = {f \in Does(q).files : FromChat(f) /\ IsRow(f) /\ ~file[f].deleted}
<1>0. call \in [Calls -> CallRow] BY DEF Typed, Types
<1>1. call[q] \in CallRow /\ InPlace(q, call[q]) /\ Keeps(q, call[q], DOMAIN page) BY CallTypes
<1>2. call[q].pc = "new" /\ Does(q).op \in {"deleteAttachment"} BY DEF FindAttachment, Starts, Moves, Goes, Ends
<1>3. call' = [call EXCEPT ![q] = call'[q]] BY <1>0 DEF FindAttachment, Starts, Moves, Goes, Ends
<1>4. call'[q] \in CallRow
  BY <1>0, <1>1, CallTypes DEF FindAttachment, Starts, Moves, Goes, Ends, CallRow, Pcs, Outcomes, Over, Ids
<1>5. /\ call'[q].pc \in {"done", "object"} /\ call'[q].since = {r \in Calls : Finished(r)}
      /\ call'[q].rows \subseteq Does(q).files /\ call'[q].left = call[q].left /\ call'[q].cut = call[q].cut
      /\ call'[q].seen = call[q].seen
  BY <1>0, <1>1, <1>2, CallTypes DEF FindAttachment, Starts, Moves, Goes, Ends, CallRow
<1>6. InPlace(q, call'[q]) BY <1>1, <1>2, <1>5 DEF InPlace, Over, Forgets
<1>7. Keeps(q, call'[q], DOMAIN page)
  BY <1>1, <1>2, <1>5, CallTypes DEF Keeps, Over, Forgets, Uploads, FileDeletes, PageOps, Idle
<1>8. page' = page BY DEF FindAttachment, content
<1>10. Does(q).op \in Uploads /\ call[q].end # "none" => call'[q].end = call[q].end
  BY <1>1, <1>2, <1>5 DEF Keeps, Over, Uploads, Idle
<1>20. Becomes(q, call'[q]) BY <1>2, <1>8, <1>3, <1>4, <1>5, <1>6, <1>7, <1>10 DEF Becomes, Over, FileDeletes
<1>11. call'[q].rows = {f \in Does(q).files : FromChat(f) /\ IsRow(f) /\ ~file[f].deleted}
  BY <1>0, <1>1 DEF FindAttachment, Starts, CallRow
<1> QED BY <1>2, <1>5, <1>20, <1>11

\* The deletion of an attachment hides its row, or is over.
LEMMA HideAttachmentCall ==
  ASSUME Typed, NEW q \in Calls, HideAttachment(q)
  PROVE  /\ Becomes(q, call'[q]) /\ call[q].pc = "hide" /\ Does(q).op \in {"deleteAttachment"}
         /\ call'[q].pc \in {"decrement", "done"} /\ call'[q].since = call[q].since
         /\ call'[q].rows = call[q].rows /\ call'[q].left = call[q].left /\ call'[q].cut = call[q].cut
         /\ call'[q].seen = call[q].seen
         /\ \/ call'[q].pc = "decrement" /\ RowsHide(q)
            \/ call'[q].pc = "done" /\ file' = file
<1>0. call \in [Calls -> CallRow] BY DEF Typed, Types
<1>1. call[q] \in CallRow /\ InPlace(q, call[q]) /\ Keeps(q, call[q], DOMAIN page) BY CallTypes
<1>2. call[q].pc = "hide" /\ Does(q).op \in {"deleteAttachment"}
 <2>1. call[q].pc = "hide" BY DEF HideAttachment, Starts, Moves, Goes, Ends
 <2> QED BY <1>1, <2>1, CallTypes DEF InPlace, Ops, Uploads, Forgets, Over
<1>9. \/ call' = [call EXCEPT ![q] = [call[q] EXCEPT !.pc = "decrement"]]
      \/ call' = [call EXCEPT ![q] = [call[q] EXCEPT !.pc = "done", !.end = "threw"]]
  BY <1>2 DEF HideAttachment, Starts, Moves, Goes, Ends, Over
<1>3. call' = [call EXCEPT ![q] = call'[q]] BY <1>0, <1>9
<1>5. /\ call'[q] \in CallRow /\ call'[q].pc \in {"decrement", "done"} /\ call'[q].since = call[q].since
      /\ call'[q].rows = call[q].rows /\ call'[q].left = call[q].left /\ call'[q].cut = call[q].cut
      /\ call'[q].seen = call[q].seen
 <2>1. CASE call' = [call EXCEPT ![q] = [call[q] EXCEPT !.pc = "decrement"]]
  <3>1. call'[q] = [call[q] EXCEPT !.pc = "decrement"] BY <1>0, <1>9, <2>1
  <3>2. used \in Int /\ botUsed \in Int /\ {r \in Calls : Finished(r)} \subseteq Calls BY CallTypes
  <3> QED BY <1>1, <1>2, <3>1, <3>2 DEF CallRow, Pcs, Outcomes, Over
 <2>2. CASE call' = [call EXCEPT ![q] = [call[q] EXCEPT !.pc = "done", !.end = "threw"]]
  <3>1. call'[q] = [call[q] EXCEPT !.pc = "done", !.end = "threw"] BY <1>0, <1>9, <2>2
  <3>2. used \in Int /\ botUsed \in Int /\ {r \in Calls : Finished(r)} \subseteq Calls BY CallTypes
  <3> QED BY <1>1, <1>2, <3>1, <3>2 DEF CallRow, Pcs, Outcomes, Over
 <2> QED BY <1>9, <2>1, <2>2
<1>6. InPlace(q, call'[q]) BY <1>1, <1>2, <1>5 DEF InPlace, Over, Forgets
<1>7. Keeps(q, call'[q], DOMAIN page)
  BY <1>1, <1>2, <1>5, CallTypes DEF Keeps, Over, Forgets, Uploads, FileDeletes, PageOps
<1>8. page' = page BY DEF HideAttachment, content
<1>10. Does(q).op \in Uploads /\ call[q].end # "none" => call'[q].end = call[q].end
  BY <1>1, <1>2, <1>5 DEF Keeps, Over, Uploads, Idle
<1>20. Becomes(q, call'[q]) BY <1>2, <1>8, <1>3, <1>5, <1>6, <1>7, <1>10 DEF Becomes, Over, FileDeletes
<1>11. \/ call'[q].pc = "decrement" /\ RowsHide(q)
       \/ call'[q].pc = "done" /\ file' = file
 <2>0. \/ call' = [call EXCEPT ![q] = [call[q] EXCEPT !.pc = "decrement"]] /\ RowsHide(q)
       \/ call' = [call EXCEPT ![q] = [call[q] EXCEPT !.pc = "done", !.end = "threw"]] /\ file' = file
   BY DEF HideAttachment, Goes, Ends, Moves, StoresAll, StoresSome, RowsGo, RowsHide
 <2>1. CASE call' = [call EXCEPT ![q] = [call[q] EXCEPT !.pc = "decrement"]] /\ RowsHide(q)
  <3>1. call'[q] = [call[q] EXCEPT !.pc = "decrement"] BY <1>0, <2>1
  <3>2. call'[q].pc = "decrement" BY <1>1, <3>1 DEF CallRow
  <3> QED BY <2>1, <3>2
 <2>2. CASE call' = [call EXCEPT ![q] = [call[q] EXCEPT !.pc = "done", !.end = "threw"]] /\ file' = file
  <3>1. call'[q] = [call[q] EXCEPT !.pc = "done", !.end = "threw"] BY <1>0, <2>2
  <3>2. call'[q].pc = "done" BY <1>1, <3>1 DEF CallRow
  <3> QED BY <2>2, <3>2
 <2> QED BY <2>0, <2>1, <2>2
<1> QED BY <1>2, <1>5, <1>20, <1>11

\* The deletion of an attachment lowers the counter and is over.
LEMMA DecrementUsageCall ==
  ASSUME Typed, NEW q \in Calls, DecrementUsage(q)
  PROVE  /\ Becomes(q, call'[q]) /\ call[q].pc = "decrement" /\ Does(q).op \in {"deleteAttachment"}
         /\ call'[q].pc \in {"done"} /\ call'[q].since = call[q].since /\ call'[q].rows = call[q].rows
         /\ call'[q].left = call[q].left /\ call'[q].cut = call[q].cut /\ call'[q].seen = call[q].seen
<1>0. call \in [Calls -> CallRow] BY DEF Typed, Types
<1>1. call[q] \in CallRow /\ InPlace(q, call[q]) /\ Keeps(q, call[q], DOMAIN page) BY CallTypes
<1>2. call[q].pc = "decrement" /\ Does(q).op \in {"deleteAttachment"}
 <2>1. call[q].pc = "decrement" BY DEF DecrementUsage, Starts, Moves, Goes, Ends
 <2> QED BY <1>1, <2>1, CallTypes DEF InPlace, Ops, Uploads, Forgets, Over
<1>3. call' = [call EXCEPT ![q] = call'[q]] BY <1>0 DEF DecrementUsage, Starts, Moves, Goes, Ends
<1>4. call'[q] \in CallRow
  BY <1>0, <1>1, CallTypes DEF DecrementUsage, Starts, Moves, Goes, Ends, CallRow, Pcs, Outcomes, Over, Ids
<1>5. /\ call'[q].pc \in {"done"} /\ call'[q].since = call[q].since /\ call'[q].rows = call[q].rows
      /\ call'[q].left = call[q].left /\ call'[q].cut = call[q].cut /\ call'[q].seen = call[q].seen
  BY <1>0, <1>1, <1>2, CallTypes DEF DecrementUsage, Starts, Moves, Goes, Ends, CallRow
<1>6. InPlace(q, call'[q]) BY <1>1, <1>2, <1>5 DEF InPlace, Over, Forgets
<1>7. Keeps(q, call'[q], DOMAIN page)
  BY <1>1, <1>2, <1>5, CallTypes DEF Keeps, Over, Forgets, Uploads, FileDeletes, PageOps, Idle
<1>8. page' = page BY DEF DecrementUsage, content
<1>10. Does(q).op \in Uploads /\ call[q].end # "none" => call'[q].end = call[q].end
  BY <1>1, <1>2, <1>5 DEF Keeps, Over, Uploads, Idle
<1>20. Becomes(q, call'[q]) BY <1>2, <1>8, <1>3, <1>4, <1>5, <1>6, <1>7, <1>10 DEF Becomes, Over, FileDeletes
<1> QED BY <1>2, <1>5, <1>20

\* A creation reads the quota of bots.
LEMMA ReadBotsCall ==
  ASSUME Typed, NEW q \in Calls, ReadBots(q)
  PROVE  /\ Becomes(q, call'[q]) /\ call[q].pc = "new" /\ Does(q).op \in {"createBot"}
         /\ call'[q].pc \in {"done", "create"} /\ call'[q].since = {r \in Calls : Finished(r)}
         /\ call'[q].rows = call[q].rows /\ call'[q].left = call[q].left /\ call'[q].cut = call[q].cut
         /\ call'[q].seen = botUsed
         /\ call'[q].pc = "create" => HasRoom
<1>0. call \in [Calls -> CallRow] BY DEF Typed, Types
<1>1. call[q] \in CallRow /\ InPlace(q, call[q]) /\ Keeps(q, call[q], DOMAIN page) BY CallTypes
<1>2. call[q].pc = "new" /\ Does(q).op \in {"createBot"} BY DEF ReadBots, Starts, Moves, Goes, Ends
<1>9. call' = [call EXCEPT ![q] = [[call[q] EXCEPT !.pc = IF HasRoom THEN "create" ELSE "done", !.end = IF HasRoom THEN "none" ELSE "full", !.seen = botUsed] EXCEPT !.since = {r \in Calls : Finished(r)}]]
  BY <1>2 DEF ReadBots, Starts, Moves, Goes, Ends, Over
<1>3. call' = [call EXCEPT ![q] = call'[q]] BY <1>0, <1>9
<1>5. /\ call'[q] \in CallRow /\ call'[q].pc \in {"done", "create"}
      /\ call'[q].since = {r \in Calls : Finished(r)} /\ call'[q].rows = call[q].rows
      /\ call'[q].left = call[q].left /\ call'[q].cut = call[q].cut /\ call'[q].seen = botUsed
 <2>1. CASE call' = [call EXCEPT ![q] = [[call[q] EXCEPT !.pc = IF HasRoom THEN "create" ELSE "done", !.end = IF HasRoom THEN "none" ELSE "full", !.seen = botUsed] EXCEPT !.since = {r \in Calls : Finished(r)}]]
  <3>1. call'[q] = [[call[q] EXCEPT !.pc = IF HasRoom THEN "create" ELSE "done", !.end = IF HasRoom THEN "none" ELSE "full", !.seen = botUsed] EXCEPT !.since = {r \in Calls : Finished(r)}]
    BY <1>0, <1>9, <2>1
  <3>2. used \in Int /\ botUsed \in Int /\ {r \in Calls : Finished(r)} \subseteq Calls BY CallTypes
  <3> QED BY <1>1, <1>2, <3>1, <3>2 DEF CallRow, Pcs, Outcomes, Over
 <2> QED BY <1>9, <2>1
<1>6. InPlace(q, call'[q]) BY <1>1, <1>2, <1>5 DEF InPlace, Over, Forgets
<1>7. Keeps(q, call'[q], DOMAIN page)
  BY <1>1, <1>2, <1>5, CallTypes DEF Keeps, Over, Forgets, Uploads, FileDeletes, PageOps
<1>8. page' = page BY DEF ReadBots, content
<1>10. Does(q).op \in Uploads /\ call[q].end # "none" => call'[q].end = call[q].end
  BY <1>1, <1>2, <1>5 DEF Keeps, Over, Uploads, Idle
<1>20. Becomes(q, call'[q]) BY <1>2, <1>8, <1>3, <1>5, <1>6, <1>7, <1>10 DEF Becomes, Over, FileDeletes
<1>11. call'[q].pc = "create" => HasRoom BY <1>0, <1>1 DEF ReadBots, Starts, CallRow
<1> QED BY <1>2, <1>5, <1>20, <1>11

\* A creation makes the row of its bot.
LEMMA CreateBotCall ==
  ASSUME Typed, NEW q \in Calls, CreateBot(q)
  PROVE  /\ Becomes(q, call'[q]) /\ call[q].pc = "create" /\ Does(q).op \in {"createBot"}
         /\ call'[q].pc \in {"countBot"} /\ call'[q].since = call[q].since /\ call'[q].rows = call[q].rows
         /\ call'[q].left = call[q].left /\ call'[q].cut = call[q].cut /\ call'[q].seen = call[q].seen
<1>0. call \in [Calls -> CallRow] BY DEF Typed, Types
<1>1. call[q] \in CallRow /\ InPlace(q, call[q]) /\ Keeps(q, call[q], DOMAIN page) BY CallTypes
<1>2. call[q].pc = "create" /\ Does(q).op \in {"createBot"}
 <2>1. call[q].pc = "create" BY DEF CreateBot, Starts, Moves, Goes, Ends
 <2> QED BY <1>1, <2>1, CallTypes DEF InPlace, Ops, Uploads, Forgets, Over
<1>3. call' = [call EXCEPT ![q] = call'[q]] BY <1>0 DEF CreateBot, Starts, Moves, Goes, Ends
<1>4. call'[q] \in CallRow
  BY <1>0, <1>1, CallTypes DEF CreateBot, Starts, Moves, Goes, Ends, CallRow, Pcs, Outcomes, Over, Ids
<1>5. /\ call'[q].pc \in {"countBot"} /\ call'[q].since = call[q].since /\ call'[q].rows = call[q].rows
      /\ call'[q].left = call[q].left /\ call'[q].cut = call[q].cut /\ call'[q].seen = call[q].seen
  BY <1>0, <1>1, <1>2, CallTypes DEF CreateBot, Starts, Moves, Goes, Ends, CallRow
<1>6. InPlace(q, call'[q]) BY <1>1, <1>2, <1>5 DEF InPlace, Over, Forgets
<1>7. Keeps(q, call'[q], DOMAIN page)
  BY <1>1, <1>2, <1>5, CallTypes DEF Keeps, Over, Forgets, Uploads, FileDeletes, PageOps, Idle
<1>8. page' = page BY DEF CreateBot, content
<1>10. Does(q).op \in Uploads /\ call[q].end # "none" => call'[q].end = call[q].end
  BY <1>1, <1>2, <1>5 DEF Keeps, Over, Uploads, Idle
<1>20. Becomes(q, call'[q]) BY <1>2, <1>8, <1>3, <1>4, <1>5, <1>6, <1>7, <1>10 DEF Becomes, Over, FileDeletes
<1> QED BY <1>2, <1>5, <1>20

\* A creation writes the counter of bots and is over.
LEMMA CountBotCall ==
  ASSUME Typed, NEW q \in Calls, CountBot(q)
  PROVE  /\ Becomes(q, call'[q]) /\ call[q].pc = "countBot" /\ Does(q).op \in {"createBot"}
         /\ call'[q].pc \in {"done"} /\ call'[q].since = call[q].since /\ call'[q].rows = call[q].rows
         /\ call'[q].left = call[q].left /\ call'[q].cut = call[q].cut /\ call'[q].seen = call[q].seen
<1>0. call \in [Calls -> CallRow] BY DEF Typed, Types
<1>1. call[q] \in CallRow /\ InPlace(q, call[q]) /\ Keeps(q, call[q], DOMAIN page) BY CallTypes
<1>2. call[q].pc = "countBot" /\ Does(q).op \in {"createBot"}
 <2>1. call[q].pc = "countBot" BY DEF CountBot, Starts, Moves, Goes, Ends
 <2> QED BY <1>1, <2>1, CallTypes DEF InPlace, Ops, Uploads, Forgets, Over
<1>3. call' = [call EXCEPT ![q] = call'[q]] BY <1>0 DEF CountBot, Starts, Moves, Goes, Ends
<1>4. call'[q] \in CallRow
  BY <1>0, <1>1, CallTypes DEF CountBot, Starts, Moves, Goes, Ends, CallRow, Pcs, Outcomes, Over, Ids
<1>5. /\ call'[q].pc \in {"done"} /\ call'[q].since = call[q].since /\ call'[q].rows = call[q].rows
      /\ call'[q].left = call[q].left /\ call'[q].cut = call[q].cut /\ call'[q].seen = call[q].seen
  BY <1>0, <1>1, <1>2, CallTypes DEF CountBot, Starts, Moves, Goes, Ends, CallRow
<1>6. InPlace(q, call'[q]) BY <1>1, <1>2, <1>5 DEF InPlace, Over, Forgets
<1>7. Keeps(q, call'[q], DOMAIN page)
  BY <1>1, <1>2, <1>5, CallTypes DEF Keeps, Over, Forgets, Uploads, FileDeletes, PageOps, Idle
<1>8. page' = page BY DEF CountBot, content
<1>10. Does(q).op \in Uploads /\ call[q].end # "none" => call'[q].end = call[q].end
  BY <1>1, <1>2, <1>5 DEF Keeps, Over, Uploads, Idle
<1>20. Becomes(q, call'[q]) BY <1>2, <1>8, <1>3, <1>4, <1>5, <1>6, <1>7, <1>10 DEF Becomes, Over, FileDeletes
<1> QED BY <1>2, <1>5, <1>20

\* A deletion finds its bot, or is over.
LEMMA FindBotCall ==
  ASSUME Typed, NEW q \in Calls, FindBot(q)
  PROVE  /\ Becomes(q, call'[q]) /\ call[q].pc = "new" /\ Does(q).op \in {"deleteBot"}
         /\ call'[q].pc \in {"done", "bot"} /\ call'[q].since = {r \in Calls : Finished(r)}
         /\ call'[q].rows = call[q].rows /\ call'[q].left = call[q].left /\ call'[q].cut = call[q].cut
         /\ call'[q].seen = call[q].seen
         /\ call'[q].pc = "bot" => bot[Does(q).bot] = "live"
<1>0. call \in [Calls -> CallRow] BY DEF Typed, Types
<1>1. call[q] \in CallRow /\ InPlace(q, call[q]) /\ Keeps(q, call[q], DOMAIN page) BY CallTypes
<1>2. call[q].pc = "new" /\ Does(q).op \in {"deleteBot"} BY DEF FindBot, Starts, Moves, Goes, Ends
<1>3. call' = [call EXCEPT ![q] = call'[q]] BY <1>0 DEF FindBot, Starts, Moves, Goes, Ends
<1>4. call'[q] \in CallRow
  BY <1>0, <1>1, CallTypes DEF FindBot, Starts, Moves, Goes, Ends, CallRow, Pcs, Outcomes, Over, Ids
<1>5. /\ call'[q].pc \in {"done", "bot"} /\ call'[q].since = {r \in Calls : Finished(r)}
      /\ call'[q].rows = call[q].rows /\ call'[q].left = call[q].left /\ call'[q].cut = call[q].cut
      /\ call'[q].seen = call[q].seen
  BY <1>0, <1>1, <1>2, CallTypes DEF FindBot, Starts, Moves, Goes, Ends, CallRow
<1>6. InPlace(q, call'[q]) BY <1>1, <1>2, <1>5 DEF InPlace, Over, Forgets
<1>7. Keeps(q, call'[q], DOMAIN page)
  BY <1>1, <1>2, <1>5, CallTypes DEF Keeps, Over, Forgets, Uploads, FileDeletes, PageOps, Idle
<1>8. page' = page BY DEF FindBot, content
<1>10. Does(q).op \in Uploads /\ call[q].end # "none" => call'[q].end = call[q].end
  BY <1>1, <1>2, <1>5 DEF Keeps, Over, Uploads, Idle
<1>20. Becomes(q, call'[q]) BY <1>2, <1>8, <1>3, <1>4, <1>5, <1>6, <1>7, <1>10 DEF Becomes, Over, FileDeletes
<1>11. call'[q].pc = "bot" => bot[Does(q).bot] = "live" BY <1>0, <1>1 DEF FindBot, Starts, CallRow
<1> QED BY <1>2, <1>5, <1>20, <1>11

\* A deletion takes its bot away and starts the cleanup.
LEMMA DeleteBotCall ==
  ASSUME Typed, NEW q \in Calls, DeleteBot(q)
  PROVE  /\ Becomes(q, call'[q]) /\ call[q].pc = "bot" /\ Does(q).op \in {"deleteBot"}
         /\ call'[q].pc \in {"readBots"} /\ call'[q].since = call[q].since /\ call'[q].rows = call[q].rows
         /\ call'[q].left = call[q].left /\ call'[q].cut = call[q].cut /\ call'[q].seen = call[q].seen
<1>0. call \in [Calls -> CallRow] BY DEF Typed, Types
<1>1. call[q] \in CallRow /\ InPlace(q, call[q]) /\ Keeps(q, call[q], DOMAIN page) BY CallTypes
<1>2. call[q].pc = "bot" /\ Does(q).op \in {"deleteBot"}
 <2>1. call[q].pc = "bot" BY DEF DeleteBot, Starts, Moves, Goes, Ends
 <2> QED BY <1>1, <2>1, CallTypes DEF InPlace, Ops, Uploads, Forgets, Over
<1>3. call' = [call EXCEPT ![q] = call'[q]] BY <1>0 DEF DeleteBot, Starts, Moves, Goes, Ends
<1>4. call'[q] \in CallRow
  BY <1>0, <1>1, CallTypes DEF DeleteBot, Starts, Moves, Goes, Ends, CallRow, Pcs, Outcomes, Over, Ids
<1>5. /\ call'[q].pc \in {"readBots"} /\ call'[q].since = call[q].since /\ call'[q].rows = call[q].rows
      /\ call'[q].left = call[q].left /\ call'[q].cut = call[q].cut /\ call'[q].seen = call[q].seen
  BY <1>0, <1>1, <1>2, CallTypes DEF DeleteBot, Starts, Moves, Goes, Ends, CallRow
<1>6. InPlace(q, call'[q]) BY <1>1, <1>2, <1>5 DEF InPlace, Over, Forgets
<1>7. Keeps(q, call'[q], DOMAIN page)
  BY <1>1, <1>2, <1>5, CallTypes DEF Keeps, Over, Forgets, Uploads, FileDeletes, PageOps, Idle
<1>8. page' = page BY DEF DeleteBot, content
<1>10. Does(q).op \in Uploads /\ call[q].end # "none" => call'[q].end = call[q].end
  BY <1>1, <1>2, <1>5 DEF Keeps, Over, Uploads, Idle
<1>20. Becomes(q, call'[q]) BY <1>2, <1>8, <1>3, <1>4, <1>5, <1>6, <1>7, <1>10 DEF Becomes, Over, FileDeletes
<1> QED BY <1>2, <1>5, <1>20

\* A deletion reads the counter of bots.
LEMMA ReadBotQuotaCall ==
  ASSUME Typed, NEW q \in Calls, ReadBotQuota(q)
  PROVE  /\ Becomes(q, call'[q]) /\ call[q].pc = "readBots" /\ Does(q).op \in {"deleteBot"}
         /\ call'[q].pc \in {"uncount"} /\ call'[q].since = call[q].since /\ call'[q].rows = call[q].rows
         /\ call'[q].left = call[q].left /\ call'[q].cut = call[q].cut /\ call'[q].seen = botUsed
<1>0. call \in [Calls -> CallRow] BY DEF Typed, Types
<1>1. call[q] \in CallRow /\ InPlace(q, call[q]) /\ Keeps(q, call[q], DOMAIN page) BY CallTypes
<1>2. call[q].pc = "readBots" /\ Does(q).op \in {"deleteBot"}
 <2>1. call[q].pc = "readBots" BY DEF ReadBotQuota, Starts, Moves, Goes, Ends
 <2> QED BY <1>1, <2>1, CallTypes DEF InPlace, Ops, Uploads, Forgets, Over
<1>9. call' = [call EXCEPT ![q] = [call[q] EXCEPT !.pc = "uncount", !.seen = botUsed]]
  BY <1>2 DEF ReadBotQuota, Starts, Moves, Goes, Ends, Over
<1>3. call' = [call EXCEPT ![q] = call'[q]] BY <1>0, <1>9
<1>5. /\ call'[q] \in CallRow /\ call'[q].pc \in {"uncount"} /\ call'[q].since = call[q].since
      /\ call'[q].rows = call[q].rows /\ call'[q].left = call[q].left /\ call'[q].cut = call[q].cut
      /\ call'[q].seen = botUsed
 <2>1. CASE call' = [call EXCEPT ![q] = [call[q] EXCEPT !.pc = "uncount", !.seen = botUsed]]
  <3>1. call'[q] = [call[q] EXCEPT !.pc = "uncount", !.seen = botUsed] BY <1>0, <1>9, <2>1
  <3>2. used \in Int /\ botUsed \in Int /\ {r \in Calls : Finished(r)} \subseteq Calls BY CallTypes
  <3> QED BY <1>1, <1>2, <3>1, <3>2 DEF CallRow, Pcs, Outcomes, Over
 <2> QED BY <1>9, <2>1
<1>6. InPlace(q, call'[q]) BY <1>1, <1>2, <1>5 DEF InPlace, Over, Forgets
<1>7. Keeps(q, call'[q], DOMAIN page)
  BY <1>1, <1>2, <1>5, CallTypes DEF Keeps, Over, Forgets, Uploads, FileDeletes, PageOps
<1>8. page' = page BY DEF ReadBotQuota, content
<1>10. Does(q).op \in Uploads /\ call[q].end # "none" => call'[q].end = call[q].end
  BY <1>1, <1>2, <1>5 DEF Keeps, Over, Uploads, Idle
<1>20. Becomes(q, call'[q]) BY <1>2, <1>8, <1>3, <1>5, <1>6, <1>7, <1>10 DEF Becomes, Over, FileDeletes
<1> QED BY <1>2, <1>5, <1>20

\* A deletion writes the counter of bots and is over.
LEMMA UncountBotCall ==
  ASSUME Typed, NEW q \in Calls, UncountBot(q)
  PROVE  /\ Becomes(q, call'[q]) /\ call[q].pc = "uncount" /\ Does(q).op \in {"deleteBot"}
         /\ call'[q].pc \in {"done"} /\ call'[q].since = call[q].since /\ call'[q].rows = call[q].rows
         /\ call'[q].left = call[q].left /\ call'[q].cut = call[q].cut /\ call'[q].seen = call[q].seen
<1>0. call \in [Calls -> CallRow] BY DEF Typed, Types
<1>1. call[q] \in CallRow /\ InPlace(q, call[q]) /\ Keeps(q, call[q], DOMAIN page) BY CallTypes
<1>2. call[q].pc = "uncount" /\ Does(q).op \in {"deleteBot"}
 <2>1. call[q].pc = "uncount" BY DEF UncountBot, Starts, Moves, Goes, Ends
 <2> QED BY <1>1, <2>1, CallTypes DEF InPlace, Ops, Uploads, Forgets, Over
<1>3. call' = [call EXCEPT ![q] = call'[q]] BY <1>0 DEF UncountBot, Starts, Moves, Goes, Ends
<1>4. call'[q] \in CallRow
  BY <1>0, <1>1, CallTypes DEF UncountBot, Starts, Moves, Goes, Ends, CallRow, Pcs, Outcomes, Over, Ids
<1>5. /\ call'[q].pc \in {"done"} /\ call'[q].since = call[q].since /\ call'[q].rows = call[q].rows
      /\ call'[q].left = call[q].left /\ call'[q].cut = call[q].cut /\ call'[q].seen = call[q].seen
  BY <1>0, <1>1, <1>2, CallTypes DEF UncountBot, Starts, Moves, Goes, Ends, CallRow
<1>6. InPlace(q, call'[q]) BY <1>1, <1>2, <1>5 DEF InPlace, Over, Forgets
<1>7. Keeps(q, call'[q], DOMAIN page)
  BY <1>1, <1>2, <1>5, CallTypes DEF Keeps, Over, Forgets, Uploads, FileDeletes, PageOps, Idle
<1>8. page' = page BY DEF UncountBot, content
<1>10. Does(q).op \in Uploads /\ call[q].end # "none" => call'[q].end = call[q].end
  BY <1>1, <1>2, <1>5 DEF Keeps, Over, Uploads, Idle
<1>20. Becomes(q, call'[q]) BY <1>2, <1>8, <1>3, <1>4, <1>5, <1>6, <1>7, <1>10 DEF Becomes, Over, FileDeletes
<1> QED BY <1>2, <1>5, <1>20

\* One row of a bulk deletion: left loses it, cut may gain it.
LEMMA DeleteNextCall ==
  ASSUME Typed, NEW q \in Calls, NEW f \in Files, DeleteNext(q, f)
  PROVE  /\ Becomes(q, call'[q]) /\ Does(q).op = "deleteFiles" /\ call[q].pc = "files" /\ f \in call[q].left
         /\ call'[q].pc = "files" /\ call'[q].left = call[q].left \ {f}
         /\ call'[q].end = call[q].end /\ call'[q].seen = call[q].seen
         /\ \/ call'[q].cut = call[q].cut \cup {f} /\ IsRow(f) /\ file' = [file EXCEPT ![f] = NoFile]
            \/ /\ call'[q].cut = call[q].cut
               /\ file' = file \/ (IsRow(f) /\ file' = [file EXCEPT ![f].status = "INDEXED"])
<1>0. call \in [Calls -> CallRow] BY DEF Typed, Types
<1>1. call[q] \in CallRow /\ InPlace(q, call[q]) /\ Keeps(q, call[q], DOMAIN page) BY CallTypes
<1>2. call[q].pc = "files" /\ f \in call[q].left /\ Does(q).op = "deleteFiles"
 <2>1. call[q].pc = "files" /\ f \in call[q].left BY DEF DeleteNext
 <2> QED BY <1>1, <2>1, CallTypes DEF InPlace, Ops, Uploads, Forgets, Over
<1>3. \/ /\ call' = [call EXCEPT ![q] = [call[q] EXCEPT !.left = @ \ {f}, !.cut = @ \cup {f}, !.at = None]]
         /\ IsRow(f) /\ file' = [file EXCEPT ![f] = NoFile]
      \/ /\ call' = [call EXCEPT ![q] = [call[q] EXCEPT !.left = @ \ {f}, !.at = None]]
         /\ file' = file \/ (IsRow(f) /\ file' = [file EXCEPT ![f].status = "INDEXED"])
  BY DEF DeleteNext, Moves
<1>4. /\ call' = [call EXCEPT ![q] = call'[q]] /\ call'[q] \in CallRow /\ call'[q].pc = "files"
      /\ call'[q].left = call[q].left \ {f} /\ call'[q].rows = call[q].rows /\ call'[q].end = call[q].end
      /\ call'[q].seen = call[q].seen /\ call'[q].since = call[q].since
      /\ call'[q].cut = call[q].cut \/ call'[q].cut = call[q].cut \cup {f}
 <2>1. CASE call' = [call EXCEPT ![q] = [call[q] EXCEPT !.left = @ \ {f}, !.cut = @ \cup {f}, !.at = None]]
   BY <1>0, <1>1, <1>2, <2>1 DEF CallRow, Ids
 <2>2. CASE call' = [call EXCEPT ![q] = [call[q] EXCEPT !.left = @ \ {f}, !.at = None]] BY <1>0, <1>1, <1>2, <2>2 DEF CallRow, Ids
 <2> QED BY <1>3, <2>1, <2>2
<1>5. InPlace(q, call'[q]) BY <1>2, <1>4 DEF InPlace, Over, Forgets
<1>6. Keeps(q, call'[q], DOMAIN page)
  BY <1>1, <1>2, <1>4, CallTypes DEF Keeps, Over, Forgets, Uploads, FileDeletes, PageOps
<1>7. page' = page BY DEF DeleteNext, content
<1>8. Becomes(q, call'[q]) BY <1>2, <1>4, <1>5, <1>6, <1>7 DEF Becomes, Over, FileDeletes, Uploads
<1>9. \/ call'[q].cut = call[q].cut \cup {f} /\ IsRow(f) /\ file' = [file EXCEPT ![f] = NoFile]
      \/ /\ call'[q].cut = call[q].cut
         /\ file' = file \/ (IsRow(f) /\ file' = [file EXCEPT ![f].status = "INDEXED"])
 <2>1. CASE /\ call' = [call EXCEPT ![q] = [call[q] EXCEPT !.left = @ \ {f}, !.cut = @ \cup {f}, !.at = None]]
            /\ IsRow(f) /\ file' = [file EXCEPT ![f] = NoFile]
  <3>1. call'[q].cut = call[q].cut \cup {f} BY <1>0, <1>1, <2>1 DEF CallRow
  <3> QED BY <2>1, <3>1
 <2>2. CASE /\ call' = [call EXCEPT ![q] = [call[q] EXCEPT !.left = @ \ {f}, !.at = None]]
            /\ file' = file \/ (IsRow(f) /\ file' = [file EXCEPT ![f].status = "INDEXED"])
  <3>1. call'[q].cut = call[q].cut BY <1>0, <1>1, <2>2 DEF CallRow
  <3> QED BY <2>2, <3>1
 <2> QED BY <1>3, <2>1, <2>2
<1> QED BY <1>2, <1>4, <1>8, <1>9

\* A bulk deletion takes an object away.
LEMMA DropObjectCall ==
  ASSUME Typed, NEW q \in Calls, DropObject(q)
  PROVE  /\ Becomes(q, call'[q]) /\ Does(q).op = "deleteFiles" /\ call[q].pc = "files" /\ call'[q].pc = "files"
         /\ call'[q].rows = call[q].rows /\ call'[q].left = call[q].left /\ call'[q].cut = call[q].cut
         /\ call'[q].end = call[q].end /\ call'[q].seen = call[q].seen
         /\ \E f \in Files : file' = [file EXCEPT ![f].object = FALSE]
<1>0. call \in [Calls -> CallRow] BY DEF Typed, Types
<1>1. call[q] \in CallRow /\ InPlace(q, call[q]) /\ Keeps(q, call[q], DOMAIN page) BY CallTypes
<1>2. PICK f \in call[q].left : /\ call[q].pc = "files" /\ call' = [call EXCEPT ![q] = [call[q] EXCEPT !.at = f]]
                               /\ file' = [file EXCEPT ![f].object = FALSE] /\ page' = page
  BY DEF DropObject, Moves, content
<1>3. Does(q).op = "deleteFiles" BY <1>1, <1>2, CallTypes DEF InPlace, Ops, Uploads, Forgets, Over
<1>4. f \in Files BY <1>1, <1>3, CallTypes DEF Keeps, FileDeletes
<1>5. /\ call' = [call EXCEPT ![q] = call'[q]] /\ call'[q] \in CallRow /\ call'[q].pc = "files"
      /\ call'[q].left = call[q].left /\ call'[q].rows = call[q].rows /\ call'[q].end = call[q].end
      /\ call'[q].seen = call[q].seen /\ call'[q].since = call[q].since /\ call'[q].cut = call[q].cut
  BY <1>0, <1>1, <1>2, <1>4 DEF CallRow
<1>6. InPlace(q, call'[q]) BY <1>3, <1>5 DEF InPlace, Over, Forgets
<1>7. Keeps(q, call'[q], DOMAIN page)
  BY <1>1, <1>2, <1>5, CallTypes DEF Keeps, Over, Forgets, Uploads, FileDeletes, PageOps
<1> QED BY <1>2, <1>3, <1>4, <1>5, <1>6, <1>7 DEF Becomes, Over, FileDeletes, Uploads

\* A pod dies.
LEMMA DieCall ==
  ASSUME Typed, NEW q \in Calls, Die(q)
  PROVE  /\ Becomes(q, call'[q]) /\ call[q].pc \notin Over \cup {"new"} /\ call'[q].pc = "dead"
         /\ call'[q].rows = call[q].rows /\ call'[q].cut = call[q].cut /\ call'[q].left = call[q].left
         /\ call'[q].end = call[q].end /\ call'[q].seen = call[q].seen
<1>0. call \in [Calls -> CallRow] BY DEF Typed, Types
<1>1. call[q] \in CallRow /\ InPlace(q, call[q]) /\ Keeps(q, call[q], DOMAIN page) BY CallTypes
<1>2. call[q].pc \notin Over \cup {"new"} /\ call' = [call EXCEPT ![q] = [call[q] EXCEPT !.pc = "dead"]]
  BY DEF Die, Moves
<1>3. /\ call' = [call EXCEPT ![q] = call'[q]] /\ call'[q] \in CallRow /\ call'[q].pc = "dead"
      /\ call'[q].left = call[q].left /\ call'[q].rows = call[q].rows /\ call'[q].end = call[q].end
      /\ call'[q].seen = call[q].seen /\ call'[q].since = call[q].since /\ call'[q].cut = call[q].cut
  BY <1>0, <1>1, <1>2 DEF CallRow, Pcs, Over
<1>4. Does(q).op # "none" BY <1>1, <1>2 DEF InPlace
<1>5. InPlace(q, call'[q]) BY <1>3, <1>4 DEF InPlace, Over, Forgets
<1>6. Keeps(q, call'[q], DOMAIN page) BY <1>1, <1>3, CallTypes DEF Keeps, Over
<1>7. page' = page BY DEF Die, content
<1> QED BY <1>2, <1>3, <1>5, <1>6, <1>7 DEF Becomes

\* The rows a call names are rows.
LEMMA RowSets ==
  ASSUME Typed, NEW q \in Calls
  PROVE  /\ Rows(q) \subseteq DOMAIN page /\ Listed(q) \subseteq DOMAIN page /\ Fresh(q) \subseteq Urls
         /\ DOMAIN page \subseteq Ids /\ Urls \subseteq Ids /\ DOMAIN page = 1 .. Len(page) /\ Len(page) \in Nat
         /\ \A found \in Opened(q) : found \subseteq DOMAIN page
<1>1. Rows(q) \subseteq DOMAIN page /\ Listed(q) \subseteq DOMAIN page BY DEF Rows, Listed
<1>2. \A found \in Opened(q) : found \subseteq DOMAIN page BY <1>1 DEF Opened
<1> QED BY <1>1, <1>2, CallTypes, PageTypes DEF Typed, Fresh, Ids

\* A page to add is looked up.
LEMMA AddPagesCall ==
  ASSUME Typed, NEW q \in Calls, AddPages(q)
  PROVE  /\ Becomes(q, call'[q]) /\ call[q].pc = "new" /\ Does(q).op \in {"add", "addPages"}
         /\ call'[q].pc \in {"rows", "done"} /\ call'[q].left = Fresh(q) /\ call'[q].rows = Listed(q)
         /\ call'[q].cut = {} /\ call'[q].end \in {"none", "refused"}
<1>0. call \in [Calls -> CallRow] BY DEF Typed, Types
<1>1. call[q] \in CallRow /\ InPlace(q, call[q]) /\ Keeps(q, call[q], DOMAIN page) BY CallTypes
<1>2. call[q].pc = "new" /\ Does(q).op \in {"add", "addPages"} /\ page' = page BY DEF AddPages, Starts, content
<1>3. call[q].cut = {} BY <1>1, <1>2 DEF Keeps, Idle
<1>4. PICK goes \in BOOLEAN :
        call' = [call EXCEPT ![q] =
                  [[call[q] EXCEPT !.pc = IF goes THEN "rows" ELSE "done", !.end = IF goes THEN "none" ELSE "refused",
                                   !.left = Fresh(q), !.rows = Listed(q)] EXCEPT !.since = {r \in Calls : Finished(r)}]]
  BY DEF AddPages, Starts
<1>5. call'[q] = [[call[q] EXCEPT !.pc = IF goes THEN "rows" ELSE "done", !.end = IF goes THEN "none" ELSE "refused",
                                   !.left = Fresh(q), !.rows = Listed(q)] EXCEPT !.since = {r \in Calls : Finished(r)}]
  BY <1>0, <1>4
<1>6. /\ call' = [call EXCEPT ![q] = call'[q]] /\ call'[q] \in CallRow /\ call'[q].pc \in {"rows", "done"}
      /\ call'[q].left = Fresh(q) /\ call'[q].rows = Listed(q) /\ call'[q].cut = {}
      /\ call'[q].end \in {"none", "refused"} /\ call'[q].since = {r \in Calls : Finished(r)}
 <2>1. Fresh(q) \subseteq Ids /\ Listed(q) \subseteq Ids /\ {r \in Calls : Finished(r)} \subseteq Calls BY RowSets
 <2>2. call' = [call EXCEPT ![q] = call'[q]] BY <1>0, <1>4
 <2>3. (IF goes THEN "rows" ELSE "done") \in {"rows", "done"} /\ (IF goes THEN "none" ELSE "refused") \in {"none", "refused"}
   OBVIOUS
 <2>4. PICK pc \in {"rows", "done"}, end \in {"none", "refused"} :
         call'[q] = [[call[q] EXCEPT !.pc = pc, !.end = end, !.left = Fresh(q), !.rows = Listed(q)]
                       EXCEPT !.since = {r \in Calls : Finished(r)}]
   BY <1>5, <2>3
 <2> QED BY <1>1, <1>3, <2>1, <2>2, <2>4 DEF CallRow, Pcs, Outcomes, Over
<1>7. InPlace(q, call'[q]) BY <1>2, <1>6 DEF InPlace, Over, Forgets
<1>8. Keeps(q, call'[q], DOMAIN page)
  BY <1>1, <1>2, <1>6, RowSets DEF Keeps, Over, Forgets, Uploads, FileDeletes, PageOps
<1> QED BY <1>2, <1>6, <1>7, <1>8 DEF Becomes, Over, FileDeletes, Uploads

\* A row is created.
LEMMA CreateRowCall ==
  ASSUME Typed, NEW q \in Calls, NEW u \in Urls, CreateRow(q, u)
  PROVE  /\ Becomes(q, call'[q]) /\ call[q].pc = "rows" /\ u \in call[q].left /\ Does(q).op \in {"add", "addPages"}
         /\ call'[q].pc = "rows" /\ call'[q].left = call[q].left \ {u} /\ call'[q].rows = call[q].rows
         /\ call'[q].cut = call[q].cut \cup {Len(page) + 1} /\ call'[q].end = call[q].end
         /\ page' \in Seq(PageRow) /\ Len(page') = Len(page) + 1 /\ DOMAIN page' = DOMAIN page \cup {Len(page) + 1}
         /\ Len(page) + 1 \notin DOMAIN page
         /\ page'[Len(page) + 1] = NewPage(Does(q).bot, u, q) /\ \A i \in DOMAIN page : page'[i] = page[i]
<1>0. call \in [Calls -> CallRow] BY DEF Typed, Types
<1>1. call[q] \in CallRow /\ InPlace(q, call[q]) /\ Keeps(q, call[q], DOMAIN page) BY CallTypes
<1>2. call[q].pc = "rows" /\ u \in call[q].left /\ Does(q).op \in {"add", "addPages"}
 <2>1. call[q].pc = "rows" /\ u \in call[q].left BY DEF CreateRow
 <2> QED BY <1>1, <2>1, CallTypes DEF InPlace, Ops, Uploads, Forgets, Over
<1>3. /\ call' = [call EXCEPT ![q] = [call[q] EXCEPT !.left = @ \ {u}, !.cut = @ \cup {Len(page) + 1}]]
      /\ page' = Append(page, NewPage(Does(q).bot, u, q))
  BY DEF CreateRow, Moves
<1>4. NewPage(Does(q).bot, u, q) \in PageRow /\ page \in Seq(PageRow)
  BY CallTypes DEF Typed, Types, NewPage, PageRow, PageStatus
<1>5. /\ page' \in Seq(PageRow) /\ Len(page') = Len(page) + 1
      /\ page'[Len(page) + 1] = NewPage(Does(q).bot, u, q) /\ \A i \in 1 .. Len(page) : page'[i] = page[i]
  BY <1>3, <1>4, AppendProperties
<1>6. DOMAIN page = 1 .. Len(page) /\ DOMAIN page' = 1 .. Len(page') /\ Len(page) \in Nat BY <1>4, <1>5
<1>7. /\ DOMAIN page' = DOMAIN page \cup {Len(page) + 1} /\ Len(page) + 1 \notin DOMAIN page
      /\ \A i \in DOMAIN page : page'[i] = page[i]
  BY <1>5, <1>6
<1>8. /\ call' = [call EXCEPT ![q] = call'[q]] /\ call'[q] \in CallRow /\ call'[q].pc = "rows"
      /\ call'[q].left = call[q].left \ {u} /\ call'[q].rows = call[q].rows /\ call'[q].end = call[q].end
      /\ call'[q].since = call[q].since /\ call'[q].cut = call[q].cut \cup {Len(page) + 1}
 <2>1. Len(page) + 1 \in Ids BY <1>6 DEF Ids
 <2> QED BY <1>0, <1>1, <1>2, <1>3, <2>1 DEF CallRow
<1>9. InPlace(q, call'[q]) BY <1>2, <1>8 DEF InPlace, Over, Forgets
<1>10. Keeps(q, call'[q], DOMAIN page')
  BY <1>1, <1>2, <1>7, <1>8, RowSets DEF Keeps, Over, Forgets, Uploads, FileDeletes, PageOps
<1> QED BY <1>2, <1>5, <1>7, <1>8, <1>9, <1>10 DEF Becomes, Over, FileDeletes, Uploads

\* The rows wait again.
LEMMA ResetRowsCall ==
  ASSUME Typed, NEW q \in Calls, ResetRows(q)
  PROVE  /\ Becomes(q, call'[q]) /\ call[q].pc = "rows" /\ call[q].left = {} /\ Does(q).op \in {"add", "addPages"}
         /\ call'[q].pc = "dispatch" /\ call'[q].rows = call[q].rows /\ call'[q].left = call[q].left
         /\ call'[q].cut = call[q].cut \cup call[q].rows /\ call'[q].end = call[q].end
         /\ page' = Marked(call[q].rows, "UPLOADED") /\ DOMAIN page' = DOMAIN page
<1>0. call \in [Calls -> CallRow] BY DEF Typed, Types
<1>1. call[q] \in CallRow /\ InPlace(q, call[q]) /\ Keeps(q, call[q], DOMAIN page) BY CallTypes
<1>2. call[q].pc = "rows" /\ call[q].left = {} /\ Does(q).op \in {"add", "addPages"}
 <2>1. call[q].pc = "rows" /\ call[q].left = {} BY DEF ResetRows, Moves
 <2> QED BY <1>1, <2>1, CallTypes DEF InPlace, Ops, Uploads, Forgets, Over
<1>3. /\ call' = [call EXCEPT ![q] = [call[q] EXCEPT !.pc = "dispatch", !.cut = @ \cup call[q].rows]]
      /\ page' = Marked(call[q].rows, "UPLOADED")
  BY DEF ResetRows, Moves
<1>4. DOMAIN page' = DOMAIN page BY <1>3, MarkedRows DEF Typed, PageStatus
<1>5. /\ call' = [call EXCEPT ![q] = call'[q]] /\ call'[q] \in CallRow /\ call'[q].pc = "dispatch"
      /\ call'[q].left = call[q].left /\ call'[q].rows = call[q].rows /\ call'[q].end = call[q].end
      /\ call'[q].since = call[q].since /\ call'[q].cut = call[q].cut \cup call[q].rows
  BY <1>0, <1>1, <1>3 DEF CallRow, Pcs
<1>6. InPlace(q, call'[q]) BY <1>2, <1>5 DEF InPlace, Over, Forgets
<1>7. Keeps(q, call'[q], DOMAIN page')
  BY <1>1, <1>2, <1>4, <1>5 DEF Keeps, Over, Forgets, Uploads, FileDeletes, PageOps
<1> QED BY <1>2, <1>3, <1>4, <1>5, <1>6, <1>7 DEF Becomes, Over, FileDeletes, Uploads

\* The rows are handed to the ingestion service, or not.
LEMMA DispatchCall ==
  ASSUME Typed, NEW q \in Calls, Dispatch(q)
  PROVE  /\ Becomes(q, call'[q]) /\ call[q].pc = "dispatch" /\ Does(q).op \in PageOps
         /\ call'[q].pc = "done" /\ call'[q].rows = call[q].rows /\ call'[q].left = call[q].left
         /\ call'[q].cut = call[q].cut
         /\ \/ call'[q].end = "dispatched" /\ task' = Dispatched(q) /\ page' = page
            \/ /\ plan.failures /\ call'[q].end = "threw" /\ task' = task
               /\ page' = CASE Does(q).op = "addPages" -> Marked(call[q].cut, "FAILED")
                            [] Does(q).op = "reingest" -> Marked(call[q].rows, "INDEXED")
                            [] OTHER -> page
         /\ DOMAIN page' = DOMAIN page
<1>0. call \in [Calls -> CallRow] BY DEF Typed, Types
<1>1. call[q] \in CallRow /\ InPlace(q, call[q]) /\ Keeps(q, call[q], DOMAIN page) BY CallTypes
<1>2. call[q].pc = "dispatch" /\ Does(q).op \in PageOps
 <2>1. call[q].pc = "dispatch" BY DEF Dispatch, Ends, Moves
 <2> QED BY <1>1, <2>1, CallTypes DEF InPlace, Ops, Uploads, Forgets, Over, PageOps
<1>3. \/ /\ call' = [call EXCEPT ![q] = [call[q] EXCEPT !.pc = "done", !.end = "dispatched"]]
         /\ task' = Dispatched(q) /\ page' = page
      \/ /\ call' = [call EXCEPT ![q] = [call[q] EXCEPT !.pc = "done", !.end = "threw"]]
         /\ plan.failures /\ task' = task
         /\ page' = CASE Does(q).op = "addPages" -> Marked(call[q].cut, "FAILED")
                      [] Does(q).op = "reingest" -> Marked(call[q].rows, "INDEXED")
                      [] OTHER -> page
  BY DEF Dispatch, Ends, Moves
<1>4. DOMAIN page' = DOMAIN page
 <2>1. /\ DOMAIN Marked(call[q].cut, "FAILED") = DOMAIN page /\ DOMAIN Marked(call[q].rows, "INDEXED") = DOMAIN page
   BY MarkedRows DEF Typed, PageStatus
 <2> QED BY <1>3, <2>1
<1>5. /\ call' = [call EXCEPT ![q] = call'[q]] /\ call'[q] \in CallRow /\ call'[q].pc = "done"
      /\ call'[q].left = call[q].left /\ call'[q].rows = call[q].rows
      /\ call'[q].since = call[q].since /\ call'[q].cut = call[q].cut
      /\ \/ call'[q].end = "dispatched" /\ task' = Dispatched(q) /\ page' = page
         \/ /\ plan.failures /\ call'[q].end = "threw" /\ task' = task
            /\ page' = CASE Does(q).op = "addPages" -> Marked(call[q].cut, "FAILED")
                         [] Does(q).op = "reingest" -> Marked(call[q].rows, "INDEXED")
                         [] OTHER -> page
 <2>1. CASE /\ call' = [call EXCEPT ![q] = [call[q] EXCEPT !.pc = "done", !.end = "dispatched"]]
            /\ task' = Dispatched(q) /\ page' = page
  <3>1. call'[q] = [call[q] EXCEPT !.pc = "done", !.end = "dispatched"] /\ call' = [call EXCEPT ![q] = call'[q]]
    BY <1>0, <2>1
  <3>2. /\ call' = [call EXCEPT ![q] = call'[q]] /\ call'[q] \in CallRow /\ call'[q].pc = "done"
        /\ call'[q].left = call[q].left /\ call'[q].rows = call[q].rows
        /\ call'[q].since = call[q].since /\ call'[q].cut = call[q].cut /\ call'[q].end = "dispatched"
    BY <1>1, <3>1 DEF CallRow, Pcs, Outcomes, Over
  <3> QED BY <2>1, <3>2
 <2>2. CASE /\ call' = [call EXCEPT ![q] = [call[q] EXCEPT !.pc = "done", !.end = "threw"]]
            /\ plan.failures /\ task' = task
            /\ page' = CASE Does(q).op = "addPages" -> Marked(call[q].cut, "FAILED")
                         [] Does(q).op = "reingest" -> Marked(call[q].rows, "INDEXED")
                         [] OTHER -> page
  <3>1. call'[q] = [call[q] EXCEPT !.pc = "done", !.end = "threw"] /\ call' = [call EXCEPT ![q] = call'[q]]
    BY <1>0, <2>2
  <3>2. /\ call' = [call EXCEPT ![q] = call'[q]] /\ call'[q] \in CallRow /\ call'[q].pc = "done"
        /\ call'[q].left = call[q].left /\ call'[q].rows = call[q].rows
        /\ call'[q].since = call[q].since /\ call'[q].cut = call[q].cut /\ call'[q].end = "threw"
    BY <1>1, <3>1 DEF CallRow, Pcs, Outcomes, Over
  <3> QED BY <2>2, <3>2
 <2> QED BY <1>3, <2>1, <2>2
<1>6. InPlace(q, call'[q]) BY <1>2, <1>5 DEF InPlace, Over, Forgets, PageOps
<1>7. Keeps(q, call'[q], DOMAIN page')
  BY <1>1, <1>2, <1>4, <1>5 DEF Keeps, Over, Forgets, Uploads, FileDeletes, PageOps
<1>8. Does(q).op \in PageOps BY <1>2
<1>9. Becomes(q, call'[q]) BY <1>2, <1>5, <1>6, <1>7 DEF Becomes, Over, FileDeletes, PageOps, Uploads
<1> QED BY <1>2, <1>4, <1>5, <1>8, <1>9

\* Rows are opened to be taken out.
LEMMA OpenRowsCall ==
  ASSUME Typed, NEW q \in Calls, OpenRows(q)
  PROVE  /\ Becomes(q, call'[q]) /\ call[q].pc = "new" /\ Does(q).op \in Forgets
         /\ call'[q].rows \in Opened(q) /\ call'[q].rows \subseteq DOMAIN page
         /\ call'[q].left = call'[q].rows /\ call'[q].cut = {} /\ call'[q].end = "none"
         /\ call'[q].pc = IF call'[q].rows = {} THEN "done" ELSE "vectors"
         /\ Does(q).op = "drop" =>
              page' = [i \in DOMAIN page |-> IF i \in call'[q].rows THEN [page[i] EXCEPT !.gone = TRUE] ELSE page[i]]
         /\ Does(q).op = "dropPages" => page' = Marked(call'[q].rows, "BEING_DELETED")
         /\ Does(q).op = "reingest" => page' = Marked(call'[q].rows, "UPLOADED")
         /\ Does(q).op = "edit" => page' = Readdressed(q, call'[q].rows)
         /\ DOMAIN page' = DOMAIN page
<1>0. call \in [Calls -> CallRow] BY DEF Typed, Types
<1>1. call[q] \in CallRow /\ InPlace(q, call[q]) /\ Keeps(q, call[q], DOMAIN page) BY CallTypes
<1>2. call[q].pc = "new" /\ Does(q).op \in Forgets BY DEF OpenRows, Starts, Forgets
<1>3. call[q].cut = {} /\ call[q].end = "none" BY <1>1, <1>2 DEF Keeps, Idle
<1>4. PICK found \in Opened(q) :
        /\ call' = [call EXCEPT ![q] =
                [[call[q] EXCEPT !.pc = IF found = {} THEN "done" ELSE "vectors", !.rows = found, !.left = found]
                   EXCEPT !.since = {r \in Calls : Finished(r)}]]
        /\ page' = CASE Does(q).op = "drop" ->
                      [i \in DOMAIN page |-> IF i \in found THEN [page[i] EXCEPT !.gone = TRUE] ELSE page[i]]
                     [] Does(q).op = "dropPages" -> Marked(found, "BEING_DELETED")
                     [] Does(q).op = "reingest" -> Marked(found, "UPLOADED")
                     [] OTHER -> Readdressed(q, found)
  BY DEF OpenRows, Starts
<1>5. call'[q] = [[call[q] EXCEPT !.pc = IF found = {} THEN "done" ELSE "vectors", !.rows = found, !.left = found]
                    EXCEPT !.since = {r \in Calls : Finished(r)}]
  BY <1>0, <1>4
<1>6. found \subseteq DOMAIN page /\ found \subseteq Ids /\ {r \in Calls : Finished(r)} \subseteq Calls BY RowSets
<1>7. /\ Does(q).op = "drop" =>
              page' = [i \in DOMAIN page |-> IF i \in found THEN [page[i] EXCEPT !.gone = TRUE] ELSE page[i]]
      /\ Does(q).op = "dropPages" => page' = Marked(found, "BEING_DELETED")
      /\ Does(q).op = "reingest" => page' = Marked(found, "UPLOADED")
      /\ Does(q).op = "edit" => page' = Readdressed(q, found)
  BY <1>4
<1>8. /\ call' = [call EXCEPT ![q] = call'[q]] /\ call'[q] \in CallRow
      /\ call'[q].pc = (IF found = {} THEN "done" ELSE "vectors")
      /\ call'[q].left = found /\ call'[q].rows = found /\ call'[q].cut = {}
      /\ call'[q].end = "none" /\ call'[q].since = {r \in Calls : Finished(r)}
 <2>1. call' = [call EXCEPT ![q] = call'[q]] BY <1>0, <1>4
 <2>2. CASE found = {}
  <3>1. call'[q] = [[call[q] EXCEPT !.pc = "done", !.rows = found, !.left = found] EXCEPT !.since = {r \in Calls : Finished(r)}]
    BY <1>5, <2>2
  <3> QED BY <1>1, <1>3, <1>6, <2>1, <2>2, <3>1 DEF CallRow, Pcs, Over
 <2>3. CASE found # {}
  <3>1. call'[q] = [[call[q] EXCEPT !.pc = "vectors", !.rows = found, !.left = found] EXCEPT !.since = {r \in Calls : Finished(r)}]
    BY <1>5, <2>3
  <3> QED BY <1>1, <1>3, <1>6, <2>1, <2>3, <3>1 DEF CallRow, Pcs, Over
 <2> QED BY <2>2, <2>3
<1>9. DOMAIN page' = DOMAIN page
 <2>1. /\ DOMAIN Marked(found, "BEING_DELETED") = DOMAIN page /\ DOMAIN Marked(found, "UPLOADED") = DOMAIN page
       /\ DOMAIN Readdressed(q, found) = DOMAIN page
   BY MarkedRows DEF Typed, PageStatus, Readdressed
 <2> QED BY <1>2, <1>7, <2>1 DEF Forgets
<1>10. InPlace(q, call'[q]) BY <1>2, <1>8 DEF InPlace, Over, Forgets
<1>11. Keeps(q, call'[q], DOMAIN page')
  BY <1>1, <1>2, <1>6, <1>8, <1>9 DEF Keeps, Over, Forgets, Uploads, FileDeletes, PageOps
<1>12. Becomes(q, call'[q]) BY <1>2, <1>8, <1>10, <1>11 DEF Becomes, Over, FileDeletes, Forgets, Uploads
<1> QED BY <1>2, <1>6, <1>7, <1>8, <1>9, <1>12

\* The vectors of one row.
LEMMA ForgetOneCall ==
  ASSUME Typed, NEW q \in Calls, NEW i \in DOMAIN page, ForgetOne(q, i)
  PROVE  /\ Becomes(q, call'[q]) /\ call[q].pc = "vectors" /\ i \in call[q].left /\ Does(q).op \in Forgets
         /\ call'[q].rows = call[q].rows
         /\ \/ /\ call'[q].pc = "vectors" /\ call'[q].left = call[q].left \ {i} /\ call'[q].cut = call[q].cut \cup {i}
               /\ call'[q].end = call[q].end
               /\ Forgotten(Pairs({i})) \/ (plan.failures /\ vectors' = vectors /\ used' = used)
               /\ page' = IF Does(q).op = "dropPages" THEN [page EXCEPT ![i].gone = TRUE] ELSE page
            \/ /\ plan.failures /\ vectors' = vectors /\ used' = used
               /\ page' = IF Does(q).op = "dropPages" THEN Marked({i}, "INDEXED") ELSE page
               /\ call'[q].cut = call[q].cut
               /\ \/ /\ Does(q).op \in {"dropPages", "reingest"} /\ call'[q].pc = "vectors"
                     /\ call'[q].left = call[q].left \ {i} /\ call'[q].end = call[q].end
                  \/ /\ Does(q).op \in {"drop", "edit"} /\ call'[q].pc = "done" /\ call'[q].left = call[q].left
                     /\ call'[q].end = "threw"
         /\ DOMAIN page' = DOMAIN page
<1>0. call \in [Calls -> CallRow] BY DEF Typed, Types
<1>1. call[q] \in CallRow /\ InPlace(q, call[q]) /\ Keeps(q, call[q], DOMAIN page) BY CallTypes
<1>2. call[q].pc = "vectors" /\ i \in call[q].left /\ Does(q).op \in Forgets
 <2>1. call[q].pc = "vectors" /\ i \in call[q].left BY DEF ForgetOne
 <2> QED BY <1>1, <2>1, CallTypes DEF InPlace, Ops, Uploads, Forgets, Over
<1> DEFINE Took == /\ call' = [call EXCEPT ![q] = [call[q] EXCEPT !.left = @ \ {i}, !.cut = @ \cup {i}]]
                   /\ Forgotten(Pairs({i})) \/ (plan.failures /\ vectors' = vectors /\ used' = used)
                   /\ page' = IF Does(q).op = "dropPages" THEN [page EXCEPT ![i].gone = TRUE] ELSE page
           Failed == /\ plan.failures /\ vectors' = vectors /\ used' = used
                     /\ page' = IF Does(q).op = "dropPages" THEN Marked({i}, "INDEXED") ELSE page
           Skips == /\ Does(q).op \in {"dropPages", "reingest"}
                    /\ call' = [call EXCEPT ![q] = [call[q] EXCEPT !.left = @ \ {i}]]
           Throws == /\ Does(q).op \in {"drop", "edit"}
                     /\ call' = [call EXCEPT ![q] = [call[q] EXCEPT !.pc = "done", !.end = "threw"]]
<1>3. Took \/ (Failed /\ (Skips \/ Throws)) BY <1>2 DEF ForgetOne, Moves, Ends, Forgets
<1>4. ASSUME Took
      PROVE  /\ call' = [call EXCEPT ![q] = call'[q]] /\ call'[q] \in CallRow /\ call'[q].pc = "vectors"
             /\ call'[q].left = call[q].left \ {i} /\ call'[q].cut = call[q].cut \cup {i}
             /\ call'[q].rows = call[q].rows /\ call'[q].end = call[q].end /\ call'[q].since = call[q].since
             /\ DOMAIN page' = DOMAIN page
 <2>1. i \in Ids BY RowSets
 <2> QED BY <1>0, <1>1, <1>2, <1>4, <2>1 DEF CallRow
<1>5. ASSUME Failed, Skips
      PROVE  /\ call' = [call EXCEPT ![q] = call'[q]] /\ call'[q] \in CallRow /\ call'[q].pc = "vectors"
             /\ call'[q].left = call[q].left \ {i} /\ call'[q].cut = call[q].cut
             /\ call'[q].rows = call[q].rows /\ call'[q].end = call[q].end /\ call'[q].since = call[q].since
             /\ DOMAIN page' = DOMAIN page
 <2>1. DOMAIN Marked({i}, "INDEXED") = DOMAIN page BY MarkedRows DEF Typed, PageStatus
 <2> QED BY <1>0, <1>1, <1>2, <1>5, <2>1 DEF CallRow
<1>6. ASSUME Failed, Throws
      PROVE  /\ call' = [call EXCEPT ![q] = call'[q]] /\ call'[q] \in CallRow /\ call'[q].pc = "done"
             /\ call'[q].left = call[q].left /\ call'[q].cut = call[q].cut
             /\ call'[q].rows = call[q].rows /\ call'[q].end = "threw" /\ call'[q].since = call[q].since
             /\ DOMAIN page' = DOMAIN page
 <2>1. DOMAIN Marked({i}, "INDEXED") = DOMAIN page BY MarkedRows DEF Typed, PageStatus
 <2> QED BY <1>0, <1>1, <1>2, <1>6, <2>1 DEF CallRow, Pcs, Outcomes, Over
<1>7. /\ call' = [call EXCEPT ![q] = call'[q]] /\ call'[q] \in CallRow /\ call'[q].pc \in {"vectors", "done"}
      /\ call'[q].left \subseteq call[q].left /\ call'[q].cut \subseteq call[q].cut \cup {i}
      /\ call'[q].rows = call[q].rows /\ call'[q].since = call[q].since /\ DOMAIN page' = DOMAIN page
 <2>1. CASE Took BY <1>4, <2>1
 <2>2. CASE Failed /\ Skips BY <1>5, <2>2
 <2>3. CASE Failed /\ Throws BY <1>6, <2>3
 <2> QED BY <1>3, <2>1, <2>2, <2>3
<1>8. InPlace(q, call'[q]) BY <1>2, <1>7 DEF InPlace, Over, Forgets
<1>9. Keeps(q, call'[q], DOMAIN page') BY <1>1, <1>2, <1>7 DEF Keeps, Over, Forgets, Uploads, FileDeletes, PageOps
<1>10. Becomes(q, call'[q]) BY <1>2, <1>7, <1>8, <1>9 DEF Becomes, Over, FileDeletes, Forgets, Uploads
<1>11. CASE Took BY <1>2, <1>4, <1>10, <1>11
<1>12. CASE Failed /\ Skips BY <1>2, <1>5, <1>10, <1>12
<1>13. CASE Failed /\ Throws BY <1>2, <1>6, <1>10, <1>13
<1> QED BY <1>3, <1>11, <1>12, <1>13

\* All vectors were asked for.
LEMMA ForgotCall ==
  ASSUME Typed, NEW q \in Calls, Forgot(q)
  PROVE  /\ Becomes(q, call'[q]) /\ call[q].pc = "vectors" /\ call[q].left = {} /\ Does(q).op \in Forgets
         /\ call'[q].rows = call[q].rows /\ call'[q].left = call[q].left /\ call'[q].cut = call[q].cut
         /\ \/ call'[q].pc = "dispatch" /\ Does(q).op \in {"edit", "reingest"} /\ call[q].cut # {} /\ call'[q].end = call[q].end
            \/ call'[q].pc = "done" /\ ~(Does(q).op \in {"edit", "reingest"} /\ call[q].cut # {}) /\ call'[q].end = "deleted"
<1>0. call \in [Calls -> CallRow] BY DEF Typed, Types
<1>1. call[q] \in CallRow /\ InPlace(q, call[q]) /\ Keeps(q, call[q], DOMAIN page) BY CallTypes
<1>2. call[q].pc = "vectors" /\ call[q].left = {} /\ Does(q).op \in Forgets /\ page' = page
 <2>1. call[q].pc = "vectors" /\ call[q].left = {} /\ page' = page BY DEF Forgot, content
 <2> QED BY <1>1, <2>1, CallTypes DEF InPlace, Ops, Uploads, Forgets, Over
<1> DEFINE more == Does(q).op \in {"edit", "reingest"} /\ call[q].cut # {}
<1>3. \/ more /\ call' = [call EXCEPT ![q] = [call[q] EXCEPT !.pc = "dispatch"]]
      \/ ~more /\ call' = [call EXCEPT ![q] = [call[q] EXCEPT !.pc = "done", !.end = "deleted"]]
  BY DEF Forgot, Goes, Ends, Moves
<1> HIDE DEF more
<1>4. /\ call' = [call EXCEPT ![q] = call'[q]] /\ call'[q] \in CallRow
      /\ call'[q].left = call[q].left /\ call'[q].rows = call[q].rows
      /\ call'[q].since = call[q].since /\ call'[q].cut = call[q].cut
      /\ \/ more /\ call'[q].pc = "dispatch" /\ call'[q].end = call[q].end
         \/ ~more /\ call'[q].pc = "done" /\ call'[q].end = "deleted"
 <2>1. CASE more /\ call' = [call EXCEPT ![q] = [call[q] EXCEPT !.pc = "dispatch"]]
  <3>1. call'[q] = [call[q] EXCEPT !.pc = "dispatch"] /\ call' = [call EXCEPT ![q] = call'[q]] BY <1>0, <2>1
  <3>2. /\ call'[q] \in CallRow /\ call'[q].left = call[q].left /\ call'[q].rows = call[q].rows
        /\ call'[q].since = call[q].since /\ call'[q].cut = call[q].cut /\ call'[q].pc = "dispatch"
        /\ call'[q].end = call[q].end
    BY <1>1, <3>1 DEF CallRow, Pcs
  <3> QED BY <2>1, <3>1, <3>2
 <2>2. CASE ~more /\ call' = [call EXCEPT ![q] = [call[q] EXCEPT !.pc = "done", !.end = "deleted"]]
  <3>1. call'[q] = [call[q] EXCEPT !.pc = "done", !.end = "deleted"] /\ call' = [call EXCEPT ![q] = call'[q]]
    BY <1>0, <2>2
  <3>2. /\ call'[q] \in CallRow /\ call'[q].left = call[q].left /\ call'[q].rows = call[q].rows
        /\ call'[q].since = call[q].since /\ call'[q].cut = call[q].cut /\ call'[q].pc = "done"
        /\ call'[q].end = "deleted"
    BY <1>1, <3>1 DEF CallRow, Pcs, Over, Outcomes
  <3> QED BY <2>2, <3>1, <3>2
 <2> QED BY <1>3, <2>1, <2>2
<1>5. InPlace(q, call'[q]) BY <1>2, <1>4 DEF InPlace, Over, Forgets
<1>6. Keeps(q, call'[q], DOMAIN page') BY <1>1, <1>2, <1>4 DEF Keeps, Over, Forgets, Uploads, FileDeletes, PageOps
<1>7. Becomes(q, call'[q]) BY <1>2, <1>4, <1>5, <1>6 DEF Becomes, Over, FileDeletes, Forgets, Uploads
<1> QED BY <1>2, <1>4, <1>7 DEF more

--------------------
(* Which steps change what *)

\* The steps of a call, in groups: an upload's, one file's deletion, the steps of several files and of attachments,
\* the bots', and the pages'.
Storing(q) == TestLock(q) \/ SetLock(q) \/ CheckQuota(q) \/ StoreFiles(q) \/ CountUpload(q)
Removing(q) == ReleaseLock(q) \/ FindFile(q) \/ DeleteObject(q) \/ DeleteRow(q) \/ LowerUsage(q)
Marking(q) == MarkFiles(q) \/ ReadBulk(q) \/ DropObject(q) \/ FindAttachment(q) \/ HideAttachment(q) \/ DecrementUsage(q)
CountingBots(q) == ReadBots(q) \/ CreateBot(q) \/ CountBot(q) \/ FindBot(q) \/ DeleteBot(q) \/ ReadBotQuota(q) \/ UncountBot(q)
Paging(q) == AddPages(q) \/ ResetRows(q) \/ Dispatch(q) \/ OpenRows(q) \/ Forgot(q) \/ Die(q)

\* The steps, one by one.
LEMMA StepCases ==
  ASSUME Next
  PROVE  \/ \E q \in Calls : Storing(q) \/ Removing(q) \/ Marking(q) \/ CountingBots(q) \/ Paging(q)
         \/ \E q \in Calls, f \in Files : DeleteNext(q, f)
         \/ \E q \in Calls, u \in Urls : CreateRow(q, u)
         \/ \E q \in Calls, i \in DOMAIN page : ForgetOne(q, i)
         \/ \E p \in Pods : LockExpires(p)
         \/ \E b \in Bots : Cleanup(b)
         \/ \E t \in DOMAIN task : StartTask(t) \/ FinishTask(t) \/ FailTask(t)
         \/ \E t \in DOMAIN task, p \in Pods : CascadeFailed(p, t)
  BY DEF Next, FileStep, BotStep, PageStep, uploadSingle, uploadChatAttachment, uploadAttachment, Upload, Storing, Removing, Marking,
         CountingBots, Paging

\* The rows of files change in these steps only.
LEMMA FileSteps ==
  ASSUME Next
  PROVE  \/ file' = file
         \/ \E q \in Calls : \/ StoreFiles(q) \/ DeleteObject(q) \/ DeleteRow(q)
                            \/ MarkFiles(q) \/ DropObject(q) \/ HideAttachment(q)
         \/ \E q \in Calls, f \in Files : DeleteNext(q, f)
         \/ \E b \in Bots : SweepObject(b) \/ SweepRow(b)
<1>1. CASE \E q \in Calls : Storing(q)
  BY <1>1 DEF Storing, TestLock, SetLock, CheckQuota, CountUpload, bots, content
<1>2. CASE \E q \in Calls : Removing(q)
  BY <1>2 DEF Removing, ReleaseLock, FindFile, LowerUsage, bots, content
<1>3. CASE \E q \in Calls : Marking(q)
  BY <1>3 DEF Marking, ReadBulk, FindAttachment, DecrementUsage, bots, content
<1>4. CASE \E q \in Calls : CountingBots(q)
  BY <1>4 DEF CountingBots, ReadBots, CreateBot, CountBot, FindBot, DeleteBot, ReadBotQuota, UncountBot, bots, content
<1>5. CASE \E q \in Calls : Paging(q)
  BY <1>5 DEF Paging, AddPages, ResetRows, Dispatch, OpenRows, Forgot, Die, bots, content
<1>6. CASE \E q \in Calls, f \in Files : DeleteNext(q, f) BY <1>6
<1>7. CASE \E q \in Calls, u \in Urls : CreateRow(q, u) BY <1>7 DEF CreateRow, bots, content
<1>8. CASE \E q \in Calls, i \in DOMAIN page : ForgetOne(q, i) BY <1>8 DEF ForgetOne, bots, content
<1>9. CASE \E p \in Pods : LockExpires(p) BY <1>9 DEF LockExpires, bots, content
<1>10. CASE \E b \in Bots : Cleanup(b)
  BY <1>10 DEF Cleanup, CascadeFiles, FindFiles, CascadeContents, CascadeChats, CascadeIndex, bots, content
<1>11. CASE \E t \in DOMAIN task : StartTask(t) \/ FinishTask(t) \/ FailTask(t)
  BY <1>11 DEF StartTask, FinishTask, FailTask, bots, content
<1>12. CASE \E t \in DOMAIN task, p \in Pods : CascadeFailed(p, t) BY <1>12 DEF CascadeFailed, bots, content
<1> QED BY StepCases, <1>1, <1>2, <1>3, <1>4, <1>5, <1>6, <1>7, <1>8, <1>9, <1>10, <1>11, <1>12

\* The counter changes in these steps only.
LEMMA UsedSteps ==
  ASSUME Next
  PROVE  \/ used' = used
         \/ \E q \in Calls : CountUpload(q) \/ LowerUsage(q) \/ DecrementUsage(q)
         \/ \E q \in Calls, i \in DOMAIN page : ForgetOne(q, i)
         \/ \E t \in DOMAIN task : FinishTask(t)
         \/ \E b \in Bots : CascadeIndex(b)
<1>1. CASE \E q \in Calls : Storing(q)
  BY <1>1 DEF Storing, TestLock, SetLock, CheckQuota, StoreFiles, bots, content
<1>2. CASE \E q \in Calls : Removing(q)
  BY <1>2 DEF Removing, ReleaseLock, FindFile, DeleteObject, DeleteRow, bots, content
<1>3. CASE \E q \in Calls : Marking(q)
  BY <1>3 DEF Marking, MarkFiles, ReadBulk, DropObject, FindAttachment, HideAttachment, bots, content
<1>4. CASE \E q \in Calls : CountingBots(q)
  BY <1>4 DEF CountingBots, ReadBots, CreateBot, CountBot, FindBot, DeleteBot, ReadBotQuota, UncountBot, bots, content
<1>5. CASE \E q \in Calls : Paging(q)
  BY <1>5 DEF Paging, AddPages, ResetRows, Dispatch, OpenRows, Forgot, Die, bots, content
<1>6. CASE \E q \in Calls, f \in Files : DeleteNext(q, f) BY <1>6 DEF DeleteNext, bots, content
<1>7. CASE \E q \in Calls, u \in Urls : CreateRow(q, u) BY <1>7 DEF CreateRow, bots, content
<1>8. CASE \E q \in Calls, i \in DOMAIN page : ForgetOne(q, i) BY <1>8
<1>9. CASE \E p \in Pods : LockExpires(p) BY <1>9 DEF LockExpires, bots, content
<1>10. CASE \E b \in Bots : Cleanup(b)
  BY <1>10 DEF Cleanup, CascadeFiles, FindFiles, SweepObject, SweepRow, CascadeContents, CascadeChats, bots, content
<1>11. CASE \E t \in DOMAIN task : StartTask(t) \/ FinishTask(t) \/ FailTask(t)
  BY <1>11 DEF StartTask, FailTask, bots, content
<1>12. CASE \E t \in DOMAIN task, p \in Pods : CascadeFailed(p, t) BY <1>12 DEF CascadeFailed, bots, content
<1> QED BY StepCases, <1>1, <1>2, <1>3, <1>4, <1>5, <1>6, <1>7, <1>8, <1>9, <1>10, <1>11, <1>12

\* The index changes in these steps only.
LEMMA VectorsSteps ==
  ASSUME Next
  PROVE  \/ vectors' = vectors
         \/ \E q \in Calls, i \in DOMAIN page : ForgetOne(q, i)
         \/ \E t \in DOMAIN task : FinishTask(t)
         \/ \E b \in Bots : CascadeIndex(b)
<1>1. CASE \E q \in Calls : Storing(q)
  BY <1>1 DEF Storing, TestLock, SetLock, CheckQuota, StoreFiles, CountUpload, bots, content
<1>2. CASE \E q \in Calls : Removing(q)
  BY <1>2 DEF Removing, ReleaseLock, FindFile, DeleteObject, DeleteRow, LowerUsage, bots, content
<1>3. CASE \E q \in Calls : Marking(q)
  BY <1>3 DEF Marking, MarkFiles, ReadBulk, DropObject, FindAttachment, HideAttachment, DecrementUsage, bots, content
<1>4. CASE \E q \in Calls : CountingBots(q)
  BY <1>4 DEF CountingBots, ReadBots, CreateBot, CountBot, FindBot, DeleteBot, ReadBotQuota, UncountBot, bots, content
<1>5. CASE \E q \in Calls : Paging(q)
  BY <1>5 DEF Paging, AddPages, ResetRows, Dispatch, OpenRows, Forgot, Die, bots, content
<1>6. CASE \E q \in Calls, f \in Files : DeleteNext(q, f) BY <1>6 DEF DeleteNext, bots, content
<1>7. CASE \E q \in Calls, u \in Urls : CreateRow(q, u) BY <1>7 DEF CreateRow, bots, content
<1>8. CASE \E q \in Calls, i \in DOMAIN page : ForgetOne(q, i) BY <1>8
<1>9. CASE \E p \in Pods : LockExpires(p) BY <1>9 DEF LockExpires, bots, content
<1>10. CASE \E b \in Bots : Cleanup(b)
  BY <1>10 DEF Cleanup, CascadeFiles, FindFiles, SweepObject, SweepRow, CascadeContents, CascadeChats, bots, content
<1>11. CASE \E t \in DOMAIN task : StartTask(t) \/ FinishTask(t) \/ FailTask(t)
  BY <1>11 DEF StartTask, FailTask, bots, content
<1>12. CASE \E t \in DOMAIN task, p \in Pods : CascadeFailed(p, t) BY <1>12 DEF CascadeFailed, bots, content
<1> QED BY StepCases, <1>1, <1>2, <1>3, <1>4, <1>5, <1>6, <1>7, <1>8, <1>9, <1>10, <1>11, <1>12

\* The rows of pages change in these steps only.
LEMMA PageSteps ==
  ASSUME Next
  PROVE  \/ page' = page
         \/ \E q \in Calls : ResetRows(q) \/ Dispatch(q) \/ OpenRows(q)
         \/ \E q \in Calls, u \in Urls : CreateRow(q, u)
         \/ \E q \in Calls, i \in DOMAIN page : ForgetOne(q, i)
         \/ \E t \in DOMAIN task : StartTask(t) \/ FinishTask(t)
         \/ \E t \in DOMAIN task, p \in Pods : CascadeFailed(p, t)
         \/ \E b \in Bots : CascadeContents(b)
<1>1. CASE \E q \in Calls : Storing(q)
  BY <1>1 DEF Storing, TestLock, SetLock, CheckQuota, StoreFiles, CountUpload, bots, content
<1>2. CASE \E q \in Calls : Removing(q)
  BY <1>2 DEF Removing, ReleaseLock, FindFile, DeleteObject, DeleteRow, LowerUsage, bots, content
<1>3. CASE \E q \in Calls : Marking(q)
  BY <1>3 DEF Marking, MarkFiles, ReadBulk, DropObject, FindAttachment, HideAttachment, DecrementUsage, bots, content
<1>4. CASE \E q \in Calls : CountingBots(q)
  BY <1>4 DEF CountingBots, ReadBots, CreateBot, CountBot, FindBot, DeleteBot, ReadBotQuota, UncountBot, bots, content
<1>5. CASE \E q \in Calls : Paging(q)
  BY <1>5 DEF Paging, AddPages, Forgot, Die, bots, content
<1>6. CASE \E q \in Calls, f \in Files : DeleteNext(q, f) BY <1>6 DEF DeleteNext, bots, content
<1>7. CASE \E q \in Calls, u \in Urls : CreateRow(q, u) BY <1>7
<1>8. CASE \E q \in Calls, i \in DOMAIN page : ForgetOne(q, i) BY <1>8
<1>9. CASE \E p \in Pods : LockExpires(p) BY <1>9 DEF LockExpires, bots, content
<1>10. CASE \E b \in Bots : Cleanup(b)
  BY <1>10 DEF Cleanup, CascadeFiles, FindFiles, SweepObject, SweepRow, CascadeChats, CascadeIndex, bots, content
<1>11. CASE \E t \in DOMAIN task : StartTask(t) \/ FinishTask(t) \/ FailTask(t) BY <1>11 DEF FailTask, bots, content
<1>12. CASE \E t \in DOMAIN task, p \in Pods : CascadeFailed(p, t) BY <1>12
<1> QED BY StepCases, <1>1, <1>2, <1>3, <1>4, <1>5, <1>6, <1>7, <1>8, <1>9, <1>10, <1>11, <1>12

\* The tasks change in these steps only.
LEMMA TaskSteps ==
  ASSUME Next
  PROVE  \/ task' = task
         \/ \E q \in Calls : Dispatch(q)
         \/ \E t \in DOMAIN task : StartTask(t) \/ FinishTask(t) \/ FailTask(t)
<1>1. CASE \E q \in Calls : Storing(q)
  BY <1>1 DEF Storing, TestLock, SetLock, CheckQuota, StoreFiles, CountUpload, bots, content
<1>2. CASE \E q \in Calls : Removing(q)
  BY <1>2 DEF Removing, ReleaseLock, FindFile, DeleteObject, DeleteRow, LowerUsage, bots, content
<1>3. CASE \E q \in Calls : Marking(q)
  BY <1>3 DEF Marking, MarkFiles, ReadBulk, DropObject, FindAttachment, HideAttachment, DecrementUsage, bots, content
<1>4. CASE \E q \in Calls : CountingBots(q)
  BY <1>4 DEF CountingBots, ReadBots, CreateBot, CountBot, FindBot, DeleteBot, ReadBotQuota, UncountBot, bots, content
<1>5. CASE \E q \in Calls : Paging(q)
  BY <1>5 DEF Paging, AddPages, ResetRows, OpenRows, Forgot, Die, bots, content
<1>6. CASE \E q \in Calls, f \in Files : DeleteNext(q, f) BY <1>6 DEF DeleteNext, bots, content
<1>7. CASE \E q \in Calls, u \in Urls : CreateRow(q, u) BY <1>7 DEF CreateRow, bots, content
<1>8. CASE \E q \in Calls, i \in DOMAIN page : ForgetOne(q, i) BY <1>8 DEF ForgetOne, bots, content
<1>9. CASE \E p \in Pods : LockExpires(p) BY <1>9 DEF LockExpires, bots, content
<1>10. CASE \E b \in Bots : Cleanup(b)
  BY <1>10 DEF Cleanup, CascadeFiles, FindFiles, SweepObject, SweepRow, CascadeContents, CascadeChats, CascadeIndex, bots, content
<1>11. CASE \E t \in DOMAIN task : StartTask(t) \/ FinishTask(t) \/ FailTask(t) BY <1>11
<1>12. CASE \E t \in DOMAIN task, p \in Pods : CascadeFailed(p, t) BY <1>12 DEF CascadeFailed, bots, content
<1> QED BY StepCases, <1>1, <1>2, <1>3, <1>4, <1>5, <1>6, <1>7, <1>8, <1>9, <1>10, <1>11, <1>12

\* The notices change in these steps only.
LEMMA NoticesSteps ==
  ASSUME Next
  PROVE  \/ notices' = notices
         \/ \E t \in DOMAIN task : FailTask(t)
         \/ \E t \in DOMAIN task, p \in Pods : CascadeFailed(p, t)
<1>1. CASE \E q \in Calls : Storing(q)
  BY <1>1 DEF Storing, TestLock, SetLock, CheckQuota, StoreFiles, CountUpload, bots, content
<1>2. CASE \E q \in Calls : Removing(q)
  BY <1>2 DEF Removing, ReleaseLock, FindFile, DeleteObject, DeleteRow, LowerUsage, bots, content
<1>3. CASE \E q \in Calls : Marking(q)
  BY <1>3 DEF Marking, MarkFiles, ReadBulk, DropObject, FindAttachment, HideAttachment, DecrementUsage, bots, content
<1>4. CASE \E q \in Calls : CountingBots(q)
  BY <1>4 DEF CountingBots, ReadBots, CreateBot, CountBot, FindBot, DeleteBot, ReadBotQuota, UncountBot, bots, content
<1>5. CASE \E q \in Calls : Paging(q)
  BY <1>5 DEF Paging, AddPages, ResetRows, Dispatch, OpenRows, Forgot, Die, bots, content
<1>6. CASE \E q \in Calls, f \in Files : DeleteNext(q, f) BY <1>6 DEF DeleteNext, bots, content
<1>7. CASE \E q \in Calls, u \in Urls : CreateRow(q, u) BY <1>7 DEF CreateRow, bots, content
<1>8. CASE \E q \in Calls, i \in DOMAIN page : ForgetOne(q, i) BY <1>8 DEF ForgetOne, bots, content
<1>9. CASE \E p \in Pods : LockExpires(p) BY <1>9 DEF LockExpires, bots, content
<1>10. CASE \E b \in Bots : Cleanup(b)
  BY <1>10 DEF Cleanup, CascadeFiles, FindFiles, SweepObject, SweepRow, CascadeContents, CascadeChats, CascadeIndex, bots, content
<1>11. CASE \E t \in DOMAIN task : StartTask(t) \/ FinishTask(t) \/ FailTask(t)
  BY <1>11 DEF StartTask, FinishTask, bots, content
<1>12. CASE \E t \in DOMAIN task, p \in Pods : CascadeFailed(p, t) BY <1>12
<1> QED BY StepCases, <1>1, <1>2, <1>3, <1>4, <1>5, <1>6, <1>7, <1>8, <1>9, <1>10, <1>11, <1>12

\* The bots change in these steps only.
LEMMA BotSteps ==
  ASSUME Next
  PROVE  \/ bot' = bot
         \/ \E q \in Calls : CreateBot(q) \/ DeleteBot(q)
<1>1. CASE \E q \in Calls : Storing(q)
  BY <1>1 DEF Storing, TestLock, SetLock, CheckQuota, StoreFiles, CountUpload, bots, content
<1>2. CASE \E q \in Calls : Removing(q)
  BY <1>2 DEF Removing, ReleaseLock, FindFile, DeleteObject, DeleteRow, LowerUsage, bots, content
<1>3. CASE \E q \in Calls : Marking(q)
  BY <1>3 DEF Marking, MarkFiles, ReadBulk, DropObject, FindAttachment, HideAttachment, DecrementUsage, bots, content
<1>4. CASE \E q \in Calls : CountingBots(q)
  BY <1>4 DEF CountingBots, ReadBots, CountBot, FindBot, ReadBotQuota, UncountBot, bots, content
<1>5. CASE \E q \in Calls : Paging(q)
  BY <1>5 DEF Paging, AddPages, ResetRows, Dispatch, OpenRows, Forgot, Die, bots, content
<1>6. CASE \E q \in Calls, f \in Files : DeleteNext(q, f) BY <1>6 DEF DeleteNext, bots, content
<1>7. CASE \E q \in Calls, u \in Urls : CreateRow(q, u) BY <1>7 DEF CreateRow, bots, content
<1>8. CASE \E q \in Calls, i \in DOMAIN page : ForgetOne(q, i) BY <1>8 DEF ForgetOne, bots, content
<1>9. CASE \E p \in Pods : LockExpires(p) BY <1>9 DEF LockExpires, bots, content
<1>10. CASE \E b \in Bots : Cleanup(b)
  BY <1>10 DEF Cleanup, CascadeFiles, FindFiles, SweepObject, SweepRow, CascadeContents, CascadeChats, CascadeIndex, bots, content
<1>11. CASE \E t \in DOMAIN task : StartTask(t) \/ FinishTask(t) \/ FailTask(t)
  BY <1>11 DEF StartTask, FinishTask, FailTask, bots, content
<1>12. CASE \E t \in DOMAIN task, p \in Pods : CascadeFailed(p, t) BY <1>12 DEF CascadeFailed, bots, content
<1> QED BY StepCases, <1>1, <1>2, <1>3, <1>4, <1>5, <1>6, <1>7, <1>8, <1>9, <1>10, <1>11, <1>12

\* The counter of bots changes in these steps only.
LEMMA BotUsedSteps ==
  ASSUME Next
  PROVE  \/ botUsed' = botUsed
         \/ \E q \in Calls : CountBot(q) \/ UncountBot(q)
<1>1. CASE \E q \in Calls : Storing(q)
  BY <1>1 DEF Storing, TestLock, SetLock, CheckQuota, StoreFiles, CountUpload, bots, content
<1>2. CASE \E q \in Calls : Removing(q)
  BY <1>2 DEF Removing, ReleaseLock, FindFile, DeleteObject, DeleteRow, LowerUsage, bots, content
<1>3. CASE \E q \in Calls : Marking(q)
  BY <1>3 DEF Marking, MarkFiles, ReadBulk, DropObject, FindAttachment, HideAttachment, DecrementUsage, bots, content
<1>4. CASE \E q \in Calls : CountingBots(q)
  BY <1>4 DEF CountingBots, ReadBots, CreateBot, FindBot, DeleteBot, ReadBotQuota, bots, content
<1>5. CASE \E q \in Calls : Paging(q)
  BY <1>5 DEF Paging, AddPages, ResetRows, Dispatch, OpenRows, Forgot, Die, bots, content
<1>6. CASE \E q \in Calls, f \in Files : DeleteNext(q, f) BY <1>6 DEF DeleteNext, bots, content
<1>7. CASE \E q \in Calls, u \in Urls : CreateRow(q, u) BY <1>7 DEF CreateRow, bots, content
<1>8. CASE \E q \in Calls, i \in DOMAIN page : ForgetOne(q, i) BY <1>8 DEF ForgetOne, bots, content
<1>9. CASE \E p \in Pods : LockExpires(p) BY <1>9 DEF LockExpires, bots, content
<1>10. CASE \E b \in Bots : Cleanup(b)
  BY <1>10 DEF Cleanup, CascadeFiles, FindFiles, SweepObject, SweepRow, CascadeContents, CascadeChats, CascadeIndex, bots, content
<1>11. CASE \E t \in DOMAIN task : StartTask(t) \/ FinishTask(t) \/ FailTask(t)
  BY <1>11 DEF StartTask, FinishTask, FailTask, bots, content
<1>12. CASE \E t \in DOMAIN task, p \in Pods : CascadeFailed(p, t) BY <1>12 DEF CascadeFailed, bots, content
<1> QED BY StepCases, <1>1, <1>2, <1>3, <1>4, <1>5, <1>6, <1>7, <1>8, <1>9, <1>10, <1>11, <1>12

\* The cleanups change in these steps only.
LEMMA CascadeSteps ==
  ASSUME Next
  PROVE  \/ cascade' = cascade /\ sweep' = sweep /\ chats' = chats
         \/ \E q \in Calls : DeleteBot(q)
         \/ \E b \in Bots : Cleanup(b)
<1>1. CASE \E q \in Calls : Storing(q)
  BY <1>1 DEF Storing, TestLock, SetLock, CheckQuota, StoreFiles, CountUpload, bots, content
<1>2. CASE \E q \in Calls : Removing(q)
  BY <1>2 DEF Removing, ReleaseLock, FindFile, DeleteObject, DeleteRow, LowerUsage, bots, content
<1>3. CASE \E q \in Calls : Marking(q)
  BY <1>3 DEF Marking, MarkFiles, ReadBulk, DropObject, FindAttachment, HideAttachment, DecrementUsage, bots, content
<1>4. CASE \E q \in Calls : CountingBots(q)
  BY <1>4 DEF CountingBots, ReadBots, CreateBot, CountBot, FindBot, ReadBotQuota, UncountBot, bots, content
<1>5. CASE \E q \in Calls : Paging(q)
  BY <1>5 DEF Paging, AddPages, ResetRows, Dispatch, OpenRows, Forgot, Die, bots, content
<1>6. CASE \E q \in Calls, f \in Files : DeleteNext(q, f) BY <1>6 DEF DeleteNext, bots, content
<1>7. CASE \E q \in Calls, u \in Urls : CreateRow(q, u) BY <1>7 DEF CreateRow, bots, content
<1>8. CASE \E q \in Calls, i \in DOMAIN page : ForgetOne(q, i) BY <1>8 DEF ForgetOne, bots, content
<1>9. CASE \E p \in Pods : LockExpires(p) BY <1>9 DEF LockExpires, bots, content
<1>10. CASE \E b \in Bots : Cleanup(b) BY <1>10
<1>11. CASE \E t \in DOMAIN task : StartTask(t) \/ FinishTask(t) \/ FailTask(t)
  BY <1>11 DEF StartTask, FinishTask, FailTask, bots, content
<1>12. CASE \E t \in DOMAIN task, p \in Pods : CascadeFailed(p, t) BY <1>12 DEF CascadeFailed, bots, content
<1> QED BY StepCases, <1>1, <1>2, <1>3, <1>4, <1>5, <1>6, <1>7, <1>8, <1>9, <1>10, <1>11, <1>12

\* The lock changes in these steps only.
LEMMA LockSteps ==
  ASSUME Next
  PROVE  \/ lock' = lock
         \/ \E q \in Calls : SetLock(q) \/ ReleaseLock(q)
         \/ \E p \in Pods : LockExpires(p)
<1>1. CASE \E q \in Calls : Storing(q)
  BY <1>1 DEF Storing, TestLock, CheckQuota, StoreFiles, CountUpload, bots, content
<1>2. CASE \E q \in Calls : Removing(q)
  BY <1>2 DEF Removing, FindFile, DeleteObject, DeleteRow, LowerUsage, bots, content
<1>3. CASE \E q \in Calls : Marking(q)
  BY <1>3 DEF Marking, MarkFiles, ReadBulk, DropObject, FindAttachment, HideAttachment, DecrementUsage, bots, content
<1>4. CASE \E q \in Calls : CountingBots(q)
  BY <1>4 DEF CountingBots, ReadBots, CreateBot, CountBot, FindBot, DeleteBot, ReadBotQuota, UncountBot, bots, content
<1>5. CASE \E q \in Calls : Paging(q)
  BY <1>5 DEF Paging, AddPages, ResetRows, Dispatch, OpenRows, Forgot, Die, bots, content
<1>6. CASE \E q \in Calls, f \in Files : DeleteNext(q, f) BY <1>6 DEF DeleteNext, bots, content
<1>7. CASE \E q \in Calls, u \in Urls : CreateRow(q, u) BY <1>7 DEF CreateRow, bots, content
<1>8. CASE \E q \in Calls, i \in DOMAIN page : ForgetOne(q, i) BY <1>8 DEF ForgetOne, bots, content
<1>9. CASE \E p \in Pods : LockExpires(p) BY <1>9
<1>10. CASE \E b \in Bots : Cleanup(b)
  BY <1>10 DEF Cleanup, CascadeFiles, FindFiles, SweepObject, SweepRow, CascadeContents, CascadeChats, CascadeIndex, bots, content
<1>11. CASE \E t \in DOMAIN task : StartTask(t) \/ FinishTask(t) \/ FailTask(t)
  BY <1>11 DEF StartTask, FinishTask, FailTask, bots, content
<1>12. CASE \E t \in DOMAIN task, p \in Pods : CascadeFailed(p, t) BY <1>12 DEF CascadeFailed, bots, content
<1> QED BY StepCases, <1>1, <1>2, <1>3, <1>4, <1>5, <1>6, <1>7, <1>8, <1>9, <1>10, <1>11, <1>12

\* The plan stays.
LEMMA PlanStays ==
  ASSUME Next
  PROVE  plan' = plan
<1>1. CASE \E q \in Calls : Storing(q)
  BY <1>1 DEF Storing, TestLock, SetLock, CheckQuota, StoreFiles, CountUpload
<1>2. CASE \E q \in Calls : Removing(q)
  BY <1>2 DEF Removing, ReleaseLock, FindFile, DeleteObject, DeleteRow, LowerUsage
<1>3. CASE \E q \in Calls : Marking(q)
  BY <1>3 DEF Marking, MarkFiles, ReadBulk, DropObject, FindAttachment, HideAttachment, DecrementUsage
<1>4. CASE \E q \in Calls : CountingBots(q)
  BY <1>4 DEF CountingBots, ReadBots, CreateBot, CountBot, FindBot, DeleteBot, ReadBotQuota, UncountBot
<1>5. CASE \E q \in Calls : Paging(q)
  BY <1>5 DEF Paging, AddPages, ResetRows, Dispatch, OpenRows, Forgot, Die
<1>6. CASE \E q \in Calls, f \in Files : DeleteNext(q, f) BY <1>6 DEF DeleteNext
<1>7. CASE \E q \in Calls, u \in Urls : CreateRow(q, u) BY <1>7 DEF CreateRow
<1>8. CASE \E q \in Calls, i \in DOMAIN page : ForgetOne(q, i) BY <1>8 DEF ForgetOne
<1>9. CASE \E p \in Pods : LockExpires(p) BY <1>9 DEF LockExpires
<1>10. CASE \E b \in Bots : Cleanup(b)
  BY <1>10 DEF Cleanup, CascadeFiles, FindFiles, SweepObject, SweepRow, CascadeContents, CascadeChats, CascadeIndex
<1>11. CASE \E t \in DOMAIN task : StartTask(t) \/ FinishTask(t) \/ FailTask(t)
  BY <1>11 DEF StartTask, FinishTask, FailTask
<1>12. CASE \E t \in DOMAIN task, p \in Pods : CascadeFailed(p, t) BY <1>12 DEF CascadeFailed
<1> QED BY StepCases, <1>1, <1>2, <1>3, <1>4, <1>5, <1>6, <1>7, <1>8, <1>9, <1>10, <1>11, <1>12

\* A step moves one call, or none.
LEMMA CallSteps ==
  ASSUME Typed, Next
  PROVE  call' = call \/ \E q \in Calls : Becomes(q, call'[q])
<1>1. CASE \E q \in Calls : Storing(q)
  BY <1>1, TestLockCall, SetLockCall, CheckQuotaCall, StoreFilesCall, CountUploadCall DEF Storing
<1>2. CASE \E q \in Calls : Removing(q)
  BY <1>2, ReleaseLockCall, FindFileCall, DeleteObjectCall, DeleteRowCall, LowerUsageCall DEF Removing
<1>3. CASE \E q \in Calls : Marking(q)
  BY <1>3, MarkFilesCall, ReadBulkCall, DropObjectCall, FindAttachmentCall, HideAttachmentCall, DecrementUsageCall DEF Marking
<1>4. CASE \E q \in Calls : CountingBots(q)
  BY <1>4, ReadBotsCall, CreateBotCall, CountBotCall, FindBotCall, DeleteBotCall, ReadBotQuotaCall, UncountBotCall DEF CountingBots
<1>5. CASE \E q \in Calls : Paging(q)
  BY <1>5, AddPagesCall, ResetRowsCall, DispatchCall, OpenRowsCall, ForgotCall, DieCall DEF Paging
<1>6. CASE \E q \in Calls, f \in Files : DeleteNext(q, f) BY <1>6, DeleteNextCall
<1>7. CASE \E q \in Calls, u \in Urls : CreateRow(q, u) BY <1>7, CreateRowCall
<1>8. CASE \E q \in Calls, i \in DOMAIN page : ForgetOne(q, i) BY <1>8, ForgetOneCall
<1>9. CASE \E p \in Pods : LockExpires(p) BY <1>9 DEF LockExpires
<1>10. CASE \E b \in Bots : Cleanup(b)
  BY <1>10 DEF Cleanup, CascadeFiles, FindFiles, SweepObject, SweepRow, CascadeContents, CascadeChats, CascadeIndex
<1>11. CASE \E t \in DOMAIN task : StartTask(t) \/ FinishTask(t) \/ FailTask(t)
  BY <1>11 DEF StartTask, FinishTask, FailTask
<1>12. CASE \E t \in DOMAIN task, p \in Pods : CascadeFailed(p, t) BY <1>12 DEF CascadeFailed
<1> QED BY StepCases, <1>1, <1>2, <1>3, <1>4, <1>5, <1>6, <1>7, <1>8, <1>9, <1>10, <1>11, <1>12

--------------------
(* Sizes *)

\* The size of some files is a number; that of a part is not larger, and those of
\* two parts add up.
LEMMA Sizes ==
  ASSUME plan \in Plans, NEW S \in SUBSET Files
  PROVE  /\ IsFiniteSet(S) /\ SizeOf(S) \in Nat
         /\ \A T \in SUBSET S : SizeOf(T) <= SizeOf(S) /\ SizeOf(T) \in Nat
         /\ \A T \in SUBSET Files : S \cap T = {} => SizeOf(S \cup T) = SizeOf(S) + SizeOf(T)
<1>1. \A T \in SUBSET Files : IsFiniteSet(T) /\ \A f \in T : plan.size[f] \in Nat
  BY PlanTypes, PlanAssumption, FS_Subset
<1>2. \A T \in SUBSET Files : SizeOf(T) \in Nat
 <2> SUFFICES ASSUME NEW T \in SUBSET Files  PROVE SizeOf(T) \in Nat OBVIOUS
 <2>1. IsFiniteSet(T) /\ \A f \in T : plan.size[f] \in Int /\ plan.size[f] >= 0 BY <1>1
 <2> QED BY <2>1, SumType DEF SizeOf
<1>3. \A T \in SUBSET S : SizeOf(T) <= SizeOf(S)
 <2>1. IsFiniteSet(S) /\ \A f \in S : plan.size[f] \in Nat BY <1>1
 <2> QED BY <2>1, SumOfPart DEF SizeOf
<1>4. \A T \in SUBSET Files : S \cap T = {} => SizeOf(S \cup T) = SizeOf(S) + SizeOf(T)
 <2> SUFFICES ASSUME NEW T \in SUBSET Files, S \cap T = {}  PROVE SizeOf(S \cup T) = SizeOf(S) + SizeOf(T) OBVIOUS
 <2>1. IsFiniteSet(S) /\ IsFiniteSet(T) /\ \A f \in S \cup T : plan.size[f] \in Int BY <1>1
 <2> QED BY <2>1, SumUnion DEF SizeOf
<1> QED BY <1>1, <1>2, <1>3, <1>4

\* The index is finite.
LEMMA IndexFinite ==
  ASSUME NEW V \in SUBSET (Bots \X Urls)
  PROVE  IsFiniteSet(V) /\ Cardinality(V) \in Nat
<1>1. IsFiniteSet(Bots \X Urls) BY PlanAssumption, FS_Product
<1> QED BY <1>1, FS_Subset, FS_CardinalityType

\* What pages are called in the index.
LEMMA PairTypes ==
  ASSUME Typed, NEW R \in SUBSET DOMAIN page
  PROVE  Pairs(R) \subseteq Bots \X Urls
  BY PageTypes DEF Typed, Pairs

--------------------
(* The types are kept *)

\* The rows of files.
LEMMA FilesTyped ==
  ASSUME Typed, Next
  PROVE  file' \in [Files -> FileRow]
<1>0. file \in [Files -> FileRow] BY DEF Typed, Types
<1>1. \A q \in Calls : NewFile(Does(q).bot) \in FileRow /\ NoFile \in FileRow
  BY CallTypes DEF NewFile, NoFile, FileRow
<1>2. ASSUME NEW q \in Calls, StoreFiles(q)  PROVE file' \in [Files -> FileRow]
 <2>1. CASE file' = [f \in Files |-> IF f \in Does(q).files THEN NewFile(Does(q).bot) ELSE file[f]]
   BY <1>0, <1>1, <2>1
 <2>2. CASE \E S, T \in SUBSET Does(q).files :
              file' = [f \in Files |-> CASE f \in S -> NewFile(Does(q).bot)
                                          [] f \in T -> [file[f] EXCEPT !.object = TRUE] [] OTHER -> file[f]]
  <3>1. PICK S, T \in SUBSET Does(q).files :
             file' = [f \in Files |-> CASE f \in S -> NewFile(Does(q).bot)
                                         [] f \in T -> [file[f] EXCEPT !.object = TRUE] [] OTHER -> file[f]]
    BY <2>2
  <3>2. ASSUME NEW f \in Files
        PROVE  (CASE f \in S -> NewFile(Does(q).bot)
                  [] f \in T -> [file[f] EXCEPT !.object = TRUE] [] OTHER -> file[f]) \in FileRow
   <4>1. file[f] \in FileRow /\ [file[f] EXCEPT !.object = TRUE] \in FileRow BY <1>0 DEF FileRow
   <4> QED BY <1>1, <4>1
  <3> QED BY <3>1, <3>2
 <2> QED BY <1>2, <2>1, <2>2 DEF StoreFiles
<1>3. ASSUME NEW q \in Calls, DeleteObject(q)  PROVE file' \in [Files -> FileRow]
 <2>1. \A f \in Files : [file[f] EXCEPT !.object = FALSE] \in FileRow BY <1>0 DEF FileRow
 <2> QED BY <1>0, <1>3, <2>1 DEF DeleteObject
<1>4. ASSUME NEW q \in Calls, DeleteRow(q)  PROVE file' \in [Files -> FileRow] BY <1>0, <1>1, <1>4 DEF DeleteRow
<1>5. ASSUME NEW q \in Calls, MarkFiles(q)  PROVE file' \in [Files -> FileRow]
 <2>1. \A f \in Files : [file[f] EXCEPT !.status = "BEING_DELETED"] \in FileRow BY <1>0 DEF FileRow
 <2> QED BY <1>0, <1>5, <2>1 DEF MarkFiles
<1>6. ASSUME NEW q \in Calls, HideAttachment(q)  PROVE file' \in [Files -> FileRow]
 <2>1. \A f \in Files : [file[f] EXCEPT !.deleted = TRUE] \in FileRow BY <1>0 DEF FileRow
 <2> QED BY <1>0, <1>6, <2>1 DEF HideAttachment
<1>7. ASSUME NEW q \in Calls, NEW f \in Files, DeleteNext(q, f)  PROVE file' \in [Files -> FileRow]
 <2>1. CASE file' = file \/ file' = [file EXCEPT ![f] = NoFile] BY <1>0, <1>1, <2>1
 <2>2. CASE file' = [file EXCEPT ![f].status = "INDEXED"]
  <3>1. [file[f] EXCEPT !.status = "INDEXED"] \in FileRow BY <1>0 DEF FileRow
  <3> QED BY <1>0, <2>2, <3>1
 <2> QED BY <1>7, <2>1, <2>2, DeleteNextCall
<1>8. ASSUME NEW f \in Files, file' = [file EXCEPT ![f].object = FALSE]  PROVE file' \in [Files -> FileRow]
 <2>1. [file[f] EXCEPT !.object = FALSE] \in FileRow BY <1>0 DEF FileRow
 <2> QED BY <1>0, <1>8, <2>1
<1>9. ASSUME NEW b \in Bots, SweepObject(b) \/ SweepRow(b)  PROVE file' \in [Files -> FileRow]
 <2>1. CASE SweepObject(b)
  <3>1. sweep[b].left \subseteq Files BY DEF Typed, Types, Sweeping
  <3> QED BY <1>0, <1>8, <2>1, <3>1 DEF SweepObject
 <2>2. CASE SweepRow(b)
  <3>1. \A f \in Files : [file[f] EXCEPT !.deleted = TRUE] \in FileRow BY <1>0 DEF FileRow
  <3> QED BY <1>0, <2>2, <3>1 DEF SweepRow
 <2> QED BY <1>9, <2>1, <2>2
<1> QED BY <1>0, <1>2, <1>3, <1>4, <1>5, <1>6, <1>7, <1>8, <1>9, FileSteps, DropObjectCall

\* The index.
LEMMA VectorsTyped ==
  ASSUME Typed, Next
  PROVE  vectors' \subseteq Bots \X Urls
<1>0. vectors \subseteq Bots \X Urls BY DEF Typed, Types
<1>1. ASSUME NEW q \in Calls, NEW i \in DOMAIN page, ForgetOne(q, i)  PROVE vectors' \subseteq Bots \X Urls
  BY <1>0, <1>1, ForgetOneCall DEF Forgotten
<1>2. ASSUME NEW t \in DOMAIN task, FinishTask(t)  PROVE vectors' \subseteq Bots \X Urls
 <2>1. Owned(t) \subseteq DOMAIN page BY DEF Owned
 <2> QED BY <1>0, <1>2, <2>1, PairTypes DEF FinishTask
<1> QED BY <1>0, <1>1, <1>2, VectorsSteps DEF CascadeIndex, Forgotten

\* The counters.
LEMMA CountersTyped ==
  ASSUME Typed, Next
  PROVE  used' \in Int /\ botUsed' \in Nat
<1>0. used \in Int /\ botUsed \in Nat /\ vectors \subseteq Bots \X Urls /\ plan \in Plans BY DEF Typed, Types
<1>1. \A q \in Calls : call[q].seen \in Int BY CallTypes DEF CallRow
<1>2. ASSUME NEW q \in Calls, CountUpload(q)  PROVE used' \in Int
 <2>1. SizeOf(Does(q).files) \in Int BY <1>0, CallTypes, Sizes
 <2> QED BY <1>0, <1>1, <1>2, <2>1 DEF CountUpload
<1>3. ASSUME NEW q \in Calls, LowerUsage(q) \/ DecrementUsage(q)  PROVE used' \in Int
 <2>1. call[q].pc \in {"lower", "decrement"} BY <1>3 DEF LowerUsage, DecrementUsage, Ends, Moves
 <2>2. Does(q).op \in FileDeletes BY <2>1, CallTypes DEF InPlace, Ops, Uploads, Forgets, Over, FileDeletes
 <2>3. call[q].rows \subseteq Files BY <2>2, CallTypes DEF Keeps
 <2>4. SizeOf(call[q].rows) \in Int BY <1>0, <2>3, Sizes
 <2> QED BY <1>0, <1>1, <1>3, <2>4 DEF LowerUsage, DecrementUsage, Lower
<1>4. ASSUME NEW q \in Calls, NEW i \in DOMAIN page, ForgetOne(q, i)  PROVE used' \in Int
 <2>1. Cardinality(vectors \cap Pairs({i})) \in Int BY <1>0, IndexFinite
 <2> QED BY <1>0, <1>4, <2>1, ForgetOneCall DEF Forgotten
<1>5. ASSUME NEW t \in DOMAIN task, FinishTask(t)  PROVE used' \in Int
 <2>1. Owned(t) \subseteq DOMAIN page BY DEF Owned
 <2>2. Cardinality(Pairs(Owned(t)) \ vectors) \in Int BY <2>1, PairTypes, IndexFinite
 <2> QED BY <1>0, <1>5, <2>2 DEF FinishTask
<1>6. ASSUME NEW q \in Calls, CountBot(q) \/ UncountBot(q)  PROVE botUsed' \in Nat
 <2>1. call[q].pc \in {"countBot", "uncount"} BY <1>6 DEF CountBot, UncountBot, Ends, Moves
 <2>2. Does(q).op \in {"createBot", "deleteBot"} BY <2>1, CallTypes DEF InPlace, Ops, Uploads, Forgets, Over
 <2>3. call[q].seen \in Nat BY <2>2, CallTypes DEF Keeps
 <2> QED BY <1>6, <2>3 DEF CountBot, UncountBot
<1>9. ASSUME NEW b \in Bots, CascadeIndex(b)  PROVE used' \in Int
 <2>1. Cardinality(vectors \cap ({b} \X Urls)) \in Int BY <1>0, IndexFinite
 <2> QED BY <1>0, <1>9, <2>1 DEF CascadeIndex, Forgotten
<1>7. used' \in Int BY <1>0, <1>2, <1>3, <1>4, <1>5, <1>9, UsedSteps
<1>8. botUsed' \in Nat BY <1>0, <1>6, BotUsedSteps
<1> QED BY <1>7, <1>8

\* Tasks end, and others come.
TaskKept ==
  /\ task' \in Seq(TaskRow) /\ Len(task') \in Nat /\ Len(task) <= Len(task') /\ DOMAIN task' = 1 .. Len(task')
  /\ \A t \in DOMAIN task : /\ task'[t].by = task[t].by /\ task'[t].bot = task[t].bot /\ task'[t].urls = task[t].urls
                            /\ task[t].status \in {"completed", "failed"} => task'[t].status = task[t].status
  /\ \A t \in DOMAIN task' \ DOMAIN task : call[task'[t].by].pc = "dispatch" /\ Does(task'[t].by).op \in PageOps

\* The tasks.
LEMMA TasksTyped ==
  ASSUME Typed, Next
  PROVE  TaskKept
<1>0. task \in Seq(TaskRow) /\ Len(task) \in Nat /\ DOMAIN task = 1 .. Len(task) BY PageTypes DEF Typed, Types
<1>1. ASSUME NEW q \in Calls, Dispatch(q)  PROVE TaskKept
 <2>1. CASE task' = task BY <1>0, <2>1 DEF TaskKept
 <2>2. CASE task' = Dispatched(q)
  <3> DEFINE row == [by |-> q, bot |-> Does(q).bot, urls |-> UrlsOf(call[q].cut), status |-> "queued"]
  <3>1. call[q].pc = "dispatch" /\ Does(q).op \in PageOps BY <1>1, DispatchCall
  <3>2. call[q].cut \subseteq DOMAIN page BY <3>1, CallTypes DEF Keeps
  <3>3. UrlsOf(call[q].cut) \subseteq Urls BY <3>2, PageTypes DEF UrlsOf, Typed
  <3>4. row \in TaskRow /\ row.by = q BY <3>3, CallTypes DEF TaskRow
  <3> HIDE DEF row
  <3>5. task' = Append(task, row) BY <2>2 DEF Dispatched, row
  <3>6. /\ task' \in Seq(TaskRow) /\ Len(task') = Len(task) + 1 /\ task'[Len(task) + 1] = row
        /\ \A t \in 1 .. Len(task) : task'[t] = task[t]
    BY <1>0, <3>4, <3>5, AppendProperties
  <3>7. DOMAIN task' = 1 .. Len(task') BY <3>6
  <3> QED BY <1>0, <3>1, <3>4, <3>6, <3>7 DEF TaskKept
 <2> QED BY <1>1, <2>1, <2>2, DispatchCall
<1>2. ASSUME NEW t \in DOMAIN task, NEW st \in {"running", "completed", "failed"},
             task[t].status \in {"queued", "running"}, task' = [task EXCEPT ![t].status = st]
      PROVE  TaskKept
 <2>1. task[t] \in TaskRow BY <1>0
 <2>2. [task[t] EXCEPT !.status = st] \in TaskRow BY <2>1 DEF TaskRow
 <2>3. task' = [task EXCEPT ![t] = [task[t] EXCEPT !.status = st]] BY <1>0, <1>2
 <2>4. /\ task' \in Seq(TaskRow) /\ Len(task') = Len(task)
       /\ \A j \in 1 .. Len(task) : task'[j] = IF j = t THEN [task[t] EXCEPT !.status = st] ELSE task[j]
   BY <1>0, <2>2, <2>3, ExceptSeq
 <2>5. DOMAIN task' = 1 .. Len(task') BY <2>4
 <2>6. \A j \in DOMAIN task : /\ task'[j].by = task[j].by /\ task'[j].bot = task[j].bot /\ task'[j].urls = task[j].urls
                              /\ task[j].status \in {"completed", "failed"} => task'[j].status = task[j].status
   BY <1>0, <1>2, <2>1, <2>4 DEF TaskRow
 <2> QED BY <1>0, <2>4, <2>5, <2>6 DEF TaskKept
<1>3. ASSUME NEW t \in DOMAIN task, StartTask(t) \/ FinishTask(t) \/ FailTask(t)  PROVE TaskKept
  BY <1>2, <1>3 DEF StartTask, FinishTask, FailTask
<1>4. CASE task' = task BY <1>0, <1>4 DEF TaskKept
<1> QED BY <1>1, <1>3, <1>4, TaskSteps

\* The notices.
LEMMA NoticesTyped ==
  ASSUME Typed, Next
  PROVE  notices' \subseteq Pods \X DOMAIN task'
<1>0. notices \subseteq Pods \X DOMAIN task /\ DOMAIN task = 1 .. Len(task) /\ Len(task) \in Nat
  BY PageTypes DEF Typed, Types
<1>1. DOMAIN task \subseteq DOMAIN task' BY <1>0, TasksTyped DEF TaskKept
<1>2. notices' \subseteq Pods \X DOMAIN task
 <2>1. ASSUME NEW t \in DOMAIN task, FailTask(t)  PROVE notices' \subseteq Pods \X DOMAIN task
   BY <1>0, <2>1 DEF FailTask
 <2>2. ASSUME NEW t \in DOMAIN task, NEW p \in Pods, CascadeFailed(p, t)  PROVE notices' \subseteq Pods \X DOMAIN task
   BY <1>0, <2>2 DEF CascadeFailed
 <2> QED BY <1>0, <2>1, <2>2, NoticesSteps
<1> QED BY <1>1, <1>2

\* Rows of pages stay, keep their bot and their maker, and do not come back.
RowKept(i, row) ==
  /\ row \in PageRow /\ row.bot = page[i].bot /\ row.by = page[i].by
  /\ page[i].deleted => row.deleted
  /\ page[i].gone => row.gone
  /\ row.task \in 0 .. Len(task)
  /\ row.status = "UPLOADED" => row.task = 0
RowsKept(p) == p \in Seq(PageRow) /\ DOMAIN p = DOMAIN page /\ \A i \in DOMAIN page : RowKept(i, p[i])

\* Rows that are kept one by one.
LEMMA RowsKeptAll ==
  ASSUME Typed, NEW p, p = [i \in DOMAIN page |-> p[i]], \A i \in DOMAIN page : RowKept(i, p[i])
  PROVE  RowsKept(p)
<1>1. DOMAIN page = 1 .. Len(page) /\ Len(page) \in Nat BY PageTypes DEF Typed
<1>2. p \in [1 .. Len(page) -> PageRow] BY <1>1 DEF RowKept
<1>3. p \in Seq(PageRow) BY <1>1, <1>2, RowsAreSeq
<1> QED BY <1>3 DEF RowsKept

\* A row as it is.
LEMMA RowsAsTheyAre ==
  ASSUME Typed
  PROVE  RowsKept(page) /\ \A i \in DOMAIN page : RowKept(i, page[i])
<1>1. page \in Seq(PageRow) /\ \A i \in DOMAIN page : page[i] \in PageRow BY PageTypes DEF Typed, Types
<1>2. \A i \in DOMAIN page : RowKept(i, page[i]) BY <1>1 DEF RowKept, Typed, PageTasks
<1> QED BY <1>1, <1>2 DEF RowsKept

\* Marked keeps the rows.
LEMMA MarkedKept ==
  ASSUME Typed, NEW R, NEW status \in PageStatus
  PROVE  RowsKept(Marked(R, status))
<1> DEFINE m == Marked(R, status)
<1>1. /\ m \in Seq(PageRow) /\ DOMAIN m = DOMAIN page
      /\ \A i \in DOMAIN page :
           /\ m[i].bot = page[i].bot /\ m[i].url = page[i].url /\ m[i].by = page[i].by
           /\ m[i].deleted = page[i].deleted /\ m[i].gone = page[i].gone
           /\ m[i].status = IF i \in R /\ ~page[i].gone THEN status ELSE page[i].status
           /\ m[i].task = IF i \in R /\ ~page[i].gone /\ status = "UPLOADED" THEN 0 ELSE page[i].task
  BY MarkedRows DEF Typed
<1> HIDE DEF m
<1>2. \A i \in DOMAIN page : m[i] \in PageRow BY <1>1
<1>3. \A i \in DOMAIN page : page[i].task \in 0 .. Len(task) /\ (page[i].status = "UPLOADED" => page[i].task = 0)
  BY DEF Typed, PageTasks
<1>4. Len(task) \in Nat BY PageTypes DEF Typed
<1>5. \A i \in DOMAIN page : RowKept(i, m[i]) BY <1>1, <1>2, <1>3, <1>4 DEF RowKept
<1>6. RowsKept(m) BY <1>1, <1>5 DEF RowsKept
<1> QED BY <1>6 DEF m

\* A row that goes, is deleted, or is taken by a task.
LEMMA RowChanges ==
  ASSUME Typed, NEW i \in DOMAIN page
  PROVE  /\ RowKept(i, page[i]) /\ RowKept(i, [page[i] EXCEPT !.gone = TRUE]) /\ RowKept(i, [page[i] EXCEPT !.deleted = TRUE])
         /\ \A t \in DOMAIN task : RowKept(i, [page[i] EXCEPT !.status = "Processing", !.task = t])
<1>1. /\ page[i] \in PageRow /\ page[i].task \in 0 .. Len(task) /\ (page[i].status = "UPLOADED" => page[i].task = 0)
      /\ Len(task) \in Nat /\ DOMAIN task = 1 .. Len(task)
  BY PageTypes DEF Typed, PageTasks
<1>2. RowKept(i, page[i]) BY <1>1 DEF RowKept
<1>3. RowKept(i, [page[i] EXCEPT !.gone = TRUE]) BY <1>1 DEF RowKept, PageRow
<1>4. RowKept(i, [page[i] EXCEPT !.deleted = TRUE]) BY <1>1 DEF RowKept, PageRow
<1>5. ASSUME NEW t \in DOMAIN task  PROVE RowKept(i, [page[i] EXCEPT !.status = "Processing", !.task = t])
 <2>1. t \in Nat /\ t \in 0 .. Len(task) BY <1>1
 <2> QED BY <1>1, <2>1 DEF RowKept, PageRow, PageStatus
<1> QED BY <1>2, <1>3, <1>4, <1>5

\* A page row that goes, as a step on the sequence.
LEMMA RowGoes ==
  ASSUME Typed, NEW i \in DOMAIN page
  PROVE  /\ RowsKept([page EXCEPT ![i].gone = TRUE])
         /\ \A j \in DOMAIN page : [page EXCEPT ![i].gone = TRUE][j] = IF j = i THEN [page[i] EXCEPT !.gone = TRUE] ELSE page[j]
<1> DEFINE p == [page EXCEPT ![i].gone = TRUE]
<1>1. /\ p = [j \in DOMAIN page |-> p[j]]
      /\ \A j \in DOMAIN page : p[j] = IF j = i THEN [page[i] EXCEPT !.gone = TRUE] ELSE page[j]
  BY DEF Typed, Types
<1> HIDE DEF p
<1>2. \A j \in DOMAIN page : RowKept(j, p[j]) BY <1>1, RowChanges
<1>3. RowsKept(p) BY <1>1, <1>2, RowsKeptAll
<1> QED BY <1>1, <1>3 DEF p

\* The rows of pages are kept, or one is added.
LEMMA PagesTyped ==
  ASSUME Typed, Next
  PROVE  RowsKept(page') \/ \E q \in Calls, u \in Urls : CreateRow(q, u)
<1>1. ASSUME NEW q \in Calls, ResetRows(q)  PROVE RowsKept(page') BY <1>1, ResetRowsCall, MarkedKept DEF PageStatus
<1>2. ASSUME NEW q \in Calls, Dispatch(q)  PROVE RowsKept(page')
 <2>1. page' \in {page, Marked(call[q].cut, "FAILED"), Marked(call[q].rows, "INDEXED")} BY <1>2 DEF Dispatch
 <2> QED BY <2>1, MarkedKept, RowsAsTheyAre DEF PageStatus
<1>3. ASSUME NEW q \in Calls, OpenRows(q)  PROVE RowsKept(page')
 <2>1. CASE Does(q).op = "drop"
  <3>1. page' = [i \in DOMAIN page |-> IF i \in call'[q].rows THEN [page[i] EXCEPT !.gone = TRUE] ELSE page[i]]
    BY <1>3, <2>1, OpenRowsCall
  <3>2. \A i \in DOMAIN page : RowKept(i, page'[i]) BY <3>1, RowChanges
  <3>3. page' = [i \in DOMAIN page |-> page'[i]] BY <3>1
  <3> QED BY <3>2, <3>3, RowsKeptAll
 <2>2. CASE Does(q).op \notin {"drop", "edit"}
  <3>1. page' = Marked(call'[q].rows, "BEING_DELETED") \/ page' = Marked(call'[q].rows, "UPLOADED")
    BY <1>3, <2>2, OpenRowsCall DEF Forgets
  <3> QED BY <3>1, MarkedKept DEF PageStatus
 <2>3. CASE Does(q).op = "edit"
  <3> DEFINE R == call'[q].rows
             m == Marked(R, "UPLOADED")
  <3>1. page' = Readdressed(q, R) BY <1>3, <2>3, OpenRowsCall
  <3>2. page' = [i \in DOMAIN page |-> page'[i]] BY <3>1 DEF Readdressed
  <3>3. \A i \in DOMAIN page : page'[i] = IF i \in R THEN [m[i] EXCEPT !.url = Does(q).to] ELSE page[i]
    BY <3>1 DEF Readdressed
  <3>4. \A i \in DOMAIN page : RowKept(i, m[i]) BY MarkedKept DEF RowsKept, PageStatus
  <3> HIDE DEF m
  <3>5. Does(q).to \in Urls BY PlanTypes DEF Typed, Types
  <3>6. \A i \in DOMAIN page : RowKept(i, [m[i] EXCEPT !.url = Does(q).to]) BY <3>4, <3>5 DEF RowKept, PageRow
  <3>7. \A i \in DOMAIN page : RowKept(i, page'[i]) BY <3>3, <3>6, RowChanges
  <3> QED BY <3>2, <3>7, RowsKeptAll
 <2> QED BY <2>1, <2>2, <2>3
<1>4. ASSUME NEW q \in Calls, NEW i \in DOMAIN page, ForgetOne(q, i)  PROVE RowsKept(page')
 <2>1. page' \in {page, [page EXCEPT ![i].gone = TRUE], Marked({i}, "INDEXED")} BY <1>4, ForgetOneCall
 <2> QED BY <2>1, RowGoes, MarkedKept, RowsAsTheyAre DEF PageStatus
<1>5. ASSUME NEW t \in DOMAIN task, StartTask(t)  PROVE RowsKept(page')
 <2>1. page' = [i \in DOMAIN page |-> IF i \in Taken(t) THEN [page[i] EXCEPT !.status = "Processing", !.task = t]
                                   ELSE page[i]]
   BY <1>5 DEF StartTask
 <2>2. \A i \in DOMAIN page : RowKept(i, page'[i]) BY <2>1, RowChanges
 <2>3. page' = [i \in DOMAIN page |-> page'[i]] BY <2>1
 <2> QED BY <2>2, <2>3, RowsKeptAll
<1>6. ASSUME NEW t \in DOMAIN task, FinishTask(t)  PROVE RowsKept(page')
  BY <1>6, MarkedKept DEF FinishTask, PageStatus
<1>7. ASSUME NEW t \in DOMAIN task, NEW p \in Pods, CascadeFailed(p, t)  PROVE RowsKept(page')
  BY <1>7, MarkedKept DEF CascadeFailed, PageStatus
<1>8. ASSUME NEW b \in Bots, CascadeContents(b)  PROVE RowsKept(page')
 <2>1. page' = [i \in DOMAIN page |-> IF page[i].bot = b THEN [page[i] EXCEPT !.deleted = TRUE] ELSE page[i]]
   BY <1>8 DEF CascadeContents
 <2>2. \A i \in DOMAIN page : RowKept(i, page'[i]) BY <2>1, RowChanges
 <2>3. page' = [i \in DOMAIN page |-> page'[i]] BY <2>1
 <2> QED BY <2>2, <2>3, RowsKeptAll
<1>9. CASE page' = page BY <1>9, RowsAsTheyAre
<1> QED BY PageSteps, <1>1, <1>2, <1>3, <1>4, <1>5, <1>6, <1>7, <1>8, <1>9

\* The rows of pages after a step.
LEMMA PagesAfter ==
  ASSUME Typed, Next
  PROVE  /\ page' \in Seq(PageRow) /\ PageTasks' /\ DOMAIN page \subseteq DOMAIN page'
         /\ \A i \in DOMAIN page : /\ page'[i].bot = page[i].bot /\ page'[i].by = page[i].by
                                   /\ page[i].deleted => page'[i].deleted
                                   /\ page[i].gone => page'[i].gone
<1>0. Len(task) \in Nat /\ Len(task') \in Nat /\ Len(task) <= Len(task') BY PageTypes, TasksTyped DEF Typed, TaskKept
<1>1. CASE RowsKept(page')
 <2>1. \A i \in DOMAIN page : page'[i].task \in 0 .. Len(task) /\ (page'[i].status = "UPLOADED" => page'[i].task = 0)
   BY <1>1 DEF RowsKept, RowKept
 <2>2. PageTasks' BY <1>0, <1>1, <2>1 DEF RowsKept, PageTasks
 <2> QED BY <1>1, <2>2 DEF RowsKept, RowKept
<1>2. CASE \E q \in Calls, u \in Urls : CreateRow(q, u)
 <2>1. PICK q \in Calls, u \in Urls : CreateRow(q, u) BY <1>2
 <2>2. /\ page' \in Seq(PageRow) /\ DOMAIN page' = DOMAIN page \cup {Len(page) + 1}
       /\ page'[Len(page) + 1] = NewPage(Does(q).bot, u, q) /\ \A i \in DOMAIN page : page'[i] = page[i]
   BY <2>1, CreateRowCall
 <2>3. \A i \in DOMAIN page : page[i].task \in 0 .. Len(task) /\ (page[i].status = "UPLOADED" => page[i].task = 0)
   BY DEF Typed, PageTasks
 <2>4. page'[Len(page) + 1].task = 0 BY <2>2 DEF NewPage
 <2>5. PageTasks' BY <1>0, <2>2, <2>3, <2>4 DEF PageTasks
 <2> QED BY <2>2, <2>5
<1> QED BY <1>1, <1>2, PagesTyped

\* The bots and their cleanups, and the lock.
LEMMA BotsTyped ==
  ASSUME Typed, Next
  PROVE  /\ bot' \in [Bots -> {"none", "live", "deleted"}] /\ cascade' \in [Bots -> Stages]
         /\ sweep' \in [Bots -> Sweeping] /\ chats' \subseteq Bots /\ lock' \subseteq Pods /\ plan' = plan
<1>0. /\ bot \in [Bots -> {"none", "live", "deleted"}] /\ cascade \in [Bots -> Stages] /\ lock \subseteq Pods
      /\ sweep \in [Bots -> Sweeping] /\ chats \subseteq Bots
  BY DEF Typed, Types
<1>1. bot' \in [Bots -> {"none", "live", "deleted"}]
 <2>1. ASSUME NEW q \in Calls, CreateBot(q) \/ DeleteBot(q)  PROVE bot' \in [Bots -> {"none", "live", "deleted"}]
   BY <1>0, <2>1 DEF CreateBot, DeleteBot
 <2> QED BY <1>0, <2>1, BotSteps
<1>2. cascade' \in [Bots -> Stages] /\ sweep' \in [Bots -> Sweeping] /\ chats' \subseteq Bots
 <2>1. ASSUME NEW q \in Calls, DeleteBot(q)
       PROVE  cascade' \in [Bots -> Stages] /\ sweep' = sweep /\ chats' = chats
   BY <1>0, <2>1 DEF DeleteBot, Stages
 <2>2. ASSUME NEW b \in Bots, Cleanup(b)
       PROVE  cascade' \in [Bots -> Stages] /\ sweep' \in [Bots -> Sweeping] /\ chats' \subseteq Bots
  <3>1. cascade' \in [Bots -> Stages]
    BY <1>0, <2>2 DEF Cleanup, CascadeFiles, FindFiles, SweepObject, SweepRow, CascadeContents, CascadeChats, CascadeIndex,
                      Cleans, Stages
  <3>2. chats' \subseteq Bots
    BY <1>0, <2>2 DEF Cleanup, CascadeFiles, FindFiles, SweepObject, SweepRow, CascadeContents, CascadeChats, CascadeIndex
  <3>3. sweep[b].left \subseteq Files /\ sweep[b].at \in Files \cup {None} /\ sweep[b].kept \subseteq Files
    BY <1>0 DEF Sweeping
  <3>4. sweep' = sweep \/ \E r \in Sweeping : sweep' = [sweep EXCEPT ![b] = r]
   <4>1. CASE FindFiles(b)
    <5>1. sweep' = [sweep EXCEPT ![b] = [left |-> ListedFiles(b), at |-> @.at, kept |-> @.kept]] BY <4>1 DEF FindFiles
    <5>2. [left |-> ListedFiles(b), at |-> sweep[b].at, kept |-> sweep[b].kept] \in Sweeping
      BY <3>3 DEF Sweeping, ListedFiles
    <5> QED BY <5>1, <5>2
   <4>2. CASE SweepObject(b)
    <5>1. PICK f \in sweep[b].left : sweep' = [sweep EXCEPT ![b] = [left |-> @.left \ {f}, at |-> f, kept |-> @.kept]]
      BY <4>2 DEF SweepObject
    <5>2. [left |-> sweep[b].left \ {f}, at |-> f, kept |-> sweep[b].kept] \in Sweeping BY <3>3 DEF Sweeping
    <5> QED BY <5>1, <5>2
   <4>3. CASE SweepRow(b)
    <5>1. /\ sweep[b].at # None
          /\ \E K \in {{}, {sweep[b].at}} :
               sweep' = [sweep EXCEPT ![b] = [left |-> @.left, at |-> None, kept |-> @.kept \cup K]]
      BY <4>3 DEF SweepRow
    <5>2. PICK K \in SUBSET Files : sweep' = [sweep EXCEPT ![b] = [left |-> @.left, at |-> None, kept |-> @.kept \cup K]]
      BY <3>3, <5>1
    <5>3. [left |-> sweep[b].left, at |-> None, kept |-> sweep[b].kept \cup K] \in Sweeping BY <3>3 DEF Sweeping
    <5> QED BY <5>2, <5>3
   <4>4. CASE CascadeContents(b) \/ CascadeChats(b) \/ CascadeIndex(b)
     BY <4>4 DEF CascadeContents, CascadeChats, CascadeIndex
   <4> QED BY <2>2, <4>1, <4>2, <4>3, <4>4 DEF Cleanup, CascadeFiles
  <3>5. sweep' \in [Bots -> Sweeping] BY <1>0, <3>4
  <3> QED BY <3>1, <3>2, <3>5
 <2> QED BY <1>0, <2>1, <2>2, CascadeSteps
<1>3. lock' \subseteq Pods
 <2>1. ASSUME NEW q \in Calls, SetLock(q) \/ ReleaseLock(q)  PROVE lock' \subseteq Pods
   BY <1>0, <2>1, CallTypes DEF SetLock, ReleaseLock
 <2> QED BY <1>0, <2>1, LockSteps DEF LockExpires
<1> QED BY <1>1, <1>2, <1>3, PlanStays

\* The other calls stay where they are.
LEMMA OthersStay ==
  ASSUME Typed, NEW q \in Calls, Becomes(q, call'[q])
  PROVE  /\ call' \in [Calls -> CallRow] /\ \A r \in Calls \ {q} : call'[r] = call[r]
         /\ call'[q] \in CallRow /\ InPlace(q, call'[q]) /\ Keeps(q, call'[q], DOMAIN page')
  BY DEF Becomes, Typed, Types

\* What a call keeps, it keeps with more rows.
LEMMA KeepsMore ==
  ASSUME NEW q \in Calls, NEW c, NEW D, NEW E, D \subseteq E, Keeps(q, c, D)
  PROVE  Keeps(q, c, E)
<1>1. /\ Does(q).op \in PageOps => c.cut \subseteq E /\ c.rows \subseteq E
      /\ Does(q).op \in Forgets => c.left \subseteq E
  BY DEF Keeps
<1> QED BY <1>1 DEF Keeps

\* A step keeps the types.
LEMMA TypesKept ==
  ASSUME Typed, Next
  PROVE  Typed'
<1>1. plan' = plan /\ \A q \in Calls : Does(q)' = Does(q) BY BotsTyped DEF Does
<1>2. DOMAIN page \subseteq DOMAIN page' /\ page' \in Seq(PageRow) /\ PageTasks' BY PagesAfter
<1>3. call' \in [Calls -> CallRow] /\ \A q \in Calls : InPlace(q, call'[q]) /\ Keeps(q, call'[q], DOMAIN page')
 <2>1. \A q \in Calls : InPlace(q, call[q]) /\ Keeps(q, call[q], DOMAIN page') BY <1>2, CallTypes, KeepsMore
 <2>2. CASE call' = call BY <2>1, <2>2 DEF Typed, Types
 <2>3. CASE \E q \in Calls : Becomes(q, call'[q]) BY <2>1, <2>3, OthersStay
 <2> QED BY <2>2, <2>3, CallSteps
<1>4. Places'
 <2>1. \A q \in Calls : InPlace(q, call[q])' BY <1>1, <1>3 DEF InPlace
 <2>2. \A q \in Calls : Keeps(q, call[q], DOMAIN page)' BY <1>1, <1>3 DEF Keeps
 <2> QED BY <2>1, <2>2 DEF Places
<1>5. Types'
 <2>1. plan' \in Plans BY <1>1 DEF Typed, Types
 <2>2. file' \in [Files -> FileRow] /\ vectors' \subseteq Bots \X Urls /\ used' \in Int /\ botUsed' \in Nat
   BY FilesTyped, VectorsTyped, CountersTyped
 <2>3. task' \in Seq(TaskRow) /\ notices' \subseteq Pods \X DOMAIN task' BY TasksTyped, NoticesTyped DEF TaskKept
 <2> QED BY <1>2, <1>3, <2>1, <2>2, <2>3, BotsTyped DEF Types
<1> QED BY <1>2, <1>4, <1>5 DEF Typed

\* A typed state is as the type invariant says.
LEMMA TypedIsOK ==
  ASSUME Typed
  PROVE  TypeOK
<1>1. \A f \in Files : file[f].status \in {"none", "UPLOADED", "INDEXED", "BEING_DELETED"}
  BY DEF Typed, Types, FileRow
<1>2. \A i \in DOMAIN page : page[i].status \in PageStatus BY PageTypes DEF Typed
<1>3. \A b \in Bots : sweep[b].left \cup sweep[b].kept \subseteq Files BY DEF Typed, Types, Sweeping
<1> QED BY <1>1, <1>2, <1>3 DEF TypeOK, Typed, Types, PageTasks, PageStatus, Stages

--------------------
(* What has happened stays so *)

\* A task was dispatched by a call that is done with it.
TasksEnd == \A t \in DOMAIN task : call[task[t].by].pc = "done" /\ Does(task[t].by).op \in PageOps
\* What was over when a call started is over.
Sinces == \A q \in Calls : \A r \in call[q].since : Finished(r)
\* The notices are of failed tasks.
Noticed == \A n \in notices : task[n[2]].status = "failed"
Ordered == TasksEnd /\ Sinces /\ Noticed

\* A call that has started keeps what was over then; one that is over changes no more.
LEMMA CallStays ==
  ASSUME Typed, Next, NEW q \in Calls
  PROVE  /\ Started(q) => Started(q)' /\ call'[q].since = call[q].since
         /\ call[q].pc \in Over => call'[q] = call[q]
         /\ call'[q] # call[q] =>
              /\ call[q].pc \notin Over /\ call'[q].pc # "new" /\ Becomes(q, call'[q])
              /\ \A r \in Calls \ {q} : call'[r] = call[r]
         /\ Does(q)' = Does(q)
<1>1. Does(q)' = Does(q) BY PlanStays DEF Does
<1>2. CASE call' = call BY <1>1, <1>2 DEF Started
<1>3. CASE \E r \in Calls : Becomes(r, call'[r])
 <2>1. PICK r \in Calls : Becomes(r, call'[r]) BY <1>3
 <2>2. \A p \in Calls \ {r} : call'[p] = call[p] BY <2>1, OthersStay
 <2> QED BY <1>1, <2>1, <2>2 DEF Becomes, Started
<1> QED BY <1>2, <1>3, CallSteps

\* What is finished stays so.
LEMMA FinishedStays ==
  ASSUME Typed, Next, NEW r \in Calls, Finished(r)
  PROVE  Finished(r)'
<1>1. call[r].pc \in Over /\ call'[r] = call[r] BY CallStays DEF Finished
<1>3. /\ \A t \in DOMAIN task : /\ task'[t].by = task[t].by
                                /\ task[t].status \in {"completed", "failed"} => task'[t].status = task[t].status
      /\ \A t \in DOMAIN task' \ DOMAIN task : call[task'[t].by].pc = "dispatch"
  BY TasksTyped DEF TaskKept
<1>2. \A t \in DOMAIN task' : task'[t].by = r => task'[t].status \in {"completed", "failed"}
 <2> SUFFICES ASSUME NEW t \in DOMAIN task', task'[t].by = r  PROVE task'[t].status \in {"completed", "failed"}
   OBVIOUS
 <2>1. t \in DOMAIN task BY <1>1, <1>3 DEF Over
 <2>2. task[t].by = r /\ task[t].status \in {"completed", "failed"} BY <1>3, <2>1 DEF Finished
 <2> QED BY <1>3, <2>1, <2>2
<1> QED BY <1>1, <1>2 DEF Finished

\* Calls that overlapped did.
LEMMA OverlapStays ==
  ASSUME Typed, Next, NEW q \in Calls, NEW r \in Calls, Started(q), Started(r)
  PROVE  Overlap(q, r)' <=> Overlap(q, r)
  BY CallStays DEF Overlap

\* Calls that are both on their way overlap.
LEMMA BusyOverlap ==
  ASSUME Sinces, NEW q \in Calls, NEW r \in Calls, q # r, ~Finished(q), ~Finished(r)
  PROVE  Overlap(q, r) /\ Overlap(r, q)
  BY DEF Overlap, Sinces

\* A step keeps the order of things.
LEMMA OrderKept ==
  ASSUME Typed, Ordered, Next
  PROVE  Ordered'
<1>0. DOMAIN task \subseteq DOMAIN task' /\ notices \subseteq Pods \X DOMAIN task /\ \A t \in DOMAIN task : task[t].by \in Calls
  BY PageTypes, TasksTyped DEF Typed, Types, TaskKept
<1>4. /\ \A t \in DOMAIN task : /\ task'[t].by = task[t].by
                                /\ task[t].status \in {"completed", "failed"} => task'[t].status = task[t].status
      /\ \A t \in DOMAIN task' \ DOMAIN task : call[task'[t].by].pc = "dispatch" /\ Does(task'[t].by).op \in PageOps
      /\ plan' = plan
  BY TasksTyped, PlanStays DEF TaskKept
<1>1. TasksEnd'
 <2> SUFFICES ASSUME NEW t \in DOMAIN task'  PROVE call'[task'[t].by].pc = "done" /\ plan'.ops[task'[t].by].op \in PageOps
   BY DEF TasksEnd, Does
 <2>1. CASE t \in DOMAIN task
  <3>1. task'[t].by = task[t].by /\ task[t].by \in Calls BY <1>0, <1>4, <2>1
  <3>2. call[task[t].by].pc = "done" /\ Does(task[t].by).op \in PageOps BY <2>1 DEF Ordered, TasksEnd
  <3> QED BY <1>4, <3>1, <3>2, CallStays DEF Over, Does
 <2>2. CASE t \notin DOMAIN task
  <3>1. call[task'[t].by].pc = "dispatch" /\ Does(task'[t].by).op \in PageOps BY <1>4, <2>2
  <3>2. PICK q \in Calls : Dispatch(q) /\ task' # task
   <4>1. ~\E s \in DOMAIN task : StartTask(s) \/ FinishTask(s) \/ FailTask(s)
     BY <1>0, <2>2 DEF StartTask, FinishTask, FailTask
   <4> QED BY <2>2, <4>1, TaskSteps
  <3>3. task' = Dispatched(q) /\ call'[q].pc = "done" /\ call[q].pc = "dispatch" BY <3>2, DispatchCall
  <3>4. task'[t].by = q
   <4> DEFINE row == [by |-> q, bot |-> Does(q).bot, urls |-> UrlsOf(call[q].cut), status |-> "queued"]
   <4>1. row.by = q OBVIOUS
   <4> HIDE DEF row
   <4>2. task' = Append(task, row) /\ task \in Seq(TaskRow) BY <3>3 DEF Dispatched, row, Typed, Types
   <4>3. Len(task) \in Nat /\ DOMAIN task = 1 .. Len(task) /\ DOMAIN task' = 1 .. (Len(task) + 1) /\ task'[Len(task) + 1] = row
     BY <4>2
   <4>4. t = Len(task) + 1 BY <2>2, <4>3
   <4> QED BY <4>1, <4>3, <4>4
  <3> QED BY <1>4, <3>1, <3>3, <3>4 DEF Does
 <2> QED BY <2>1, <2>2
<1>2. Sinces'
 <2> SUFFICES ASSUME NEW q \in Calls, NEW r \in call'[q].since  PROVE Finished(r)' BY DEF Sinces
 <2>1. Finished(r) /\ r \in Calls
  <3>1. CASE call'[q] = call[q] BY <3>1, CallTypes DEF Ordered, Sinces, CallRow
  <3>2. CASE call'[q] # call[q]
   <4>1. call'[q].since = IF call[q].pc = "new" THEN {p \in Calls : Finished(p)} ELSE call[q].since
     BY <3>2, CallStays DEF Becomes
   <4> QED BY <4>1, CallTypes DEF Ordered, Sinces, CallRow
  <3> QED BY <3>1, <3>2
 <2> QED BY <2>1, FinishedStays
<1>3. Noticed'
 <2> SUFFICES ASSUME NEW n \in notices'  PROVE task'[n[2]].status = "failed" BY DEF Noticed
 <2>1. CASE n \in notices
  <3>1. n[2] \in DOMAIN task /\ task[n[2]].status = "failed" BY <1>0, <2>1 DEF Ordered, Noticed
  <3> QED BY <1>4, <3>1
 <2>2. CASE n \notin notices
  <3>1. PICK t \in DOMAIN task : FailTask(t) BY <2>2, NoticesSteps DEF CascadeFailed
  <3>2. n[2] = t /\ task' = [task EXCEPT ![t].status = "failed"] BY <2>2, <3>1 DEF FailTask
  <3>3. task[t] \in TaskRow BY <3>1, PageTypes DEF Typed
  <3>4. task'[t] = [task[t] EXCEPT !.status = "failed"] BY <3>2 DEF Typed, Types
  <3> QED BY <3>2, <3>3, <3>4 DEF TaskRow
 <2> QED BY <2>1, <2>2
<1> QED BY <1>1, <1>2, <1>3 DEF Ordered

\* The counter has drifted, and stays so.
Lost ==
  \/ \E q, r \in Calls : Miscounts(q, r) \/ Twice(q, r)
  \/ \E q \in Calls : Does(q).op = "deleteFiles" /\ call[q].cut \cup call[q].left # call[q].rows
  \/ \E q \in Calls : Does(q).op = "upload" /\ call[q].end = "threw"
  \/ \E b \in Bots : bot[b] = "deleted"
LostOrDead == Lost \/ \E q \in Calls : Does(q).op \in Uploads /\ call[q].pc = "dead"
UploadsRaced == \E q \in Calls : Does(q).op \in Uploads /\ Started(q) /\ Racing(q, Uploads)
\* The bot of a creation is not there before, and that of a deletion was there.
NewBots ==
  \A q \in Calls : /\ Does(q).op = "createBot" /\ call[q].pc \in {"new", "create"} => bot[Does(q).bot] = "none"
                   /\ call[q].pc = "bot" => bot[Does(q).bot] # "none"

\* The rows a deletion found stay its rows.
LEMMA RowsStay ==
  ASSUME Typed, Next, NEW q \in Calls, Does(q).op \in FileDeletes
  PROVE  /\ Started(q) => /\ call'[q].rows = call[q].rows
                          /\ call'[q].cut \cup call'[q].left \subseteq call[q].cut \cup call[q].left
         /\ ~Started(q) => call[q].rows = {} /\ call[q].cut = {} /\ call[q].left = {}
<1>1. ~Started(q) => call[q].rows = {} /\ call[q].cut = {} /\ call[q].left = {} BY CallTypes DEF Keeps, Idle, Started
<1>2. CASE call'[q] = call[q] BY <1>1, <1>2
<1>3. CASE call'[q] # call[q] BY <1>1, <1>3, CallStays DEF Becomes, Started
<1> QED BY <1>2, <1>3

\* A bot that is deleted stays so.
LEMMA DeletedStays ==
  ASSUME Typed, NewBots, Next, NEW b \in Bots, bot[b] = "deleted"
  PROVE  bot'[b] = "deleted"
<1>1. ASSUME NEW q \in Calls, CreateBot(q)  PROVE bot'[b] = "deleted"
 <2>1. call[q].pc = "create" BY <1>1 DEF CreateBot, Goes, Moves
 <2>2. Does(q).op = "createBot" BY <2>1, CallTypes DEF InPlace, Ops, Uploads, Forgets, Over
 <2>3. bot[Does(q).bot] = "none" BY <2>1, <2>2 DEF NewBots
 <2> QED BY <1>1, <2>3 DEF CreateBot, Typed, Types
<1>2. ASSUME NEW q \in Calls, DeleteBot(q)  PROVE bot'[b] = "deleted" BY <1>2 DEF DeleteBot, Typed, Types
<1> QED BY <1>1, <1>2, BotSteps

\* What was lost stays lost.
LEMMA LostStays ==
  ASSUME Typed, NewBots, Next, Lost
  PROVE  Lost'
<1>0. \A q \in Calls : Does(q)' = Does(q) BY CallStays
<1>1. ASSUME NEW q \in Calls, NEW r \in Calls, Miscounts(q, r)  PROVE Lost'
 <2>1. Started(q)' /\ Started(r)' /\ Overlap(q, r)' BY <1>1, CallStays, OverlapStays DEF Miscounts
 <2>2. Miscounts(q, r)' BY <1>0, <1>1, <2>1 DEF Miscounts
 <2> QED BY <2>2 DEF Lost
<1>2. ASSUME NEW q \in Calls, NEW r \in Calls, Twice(q, r)  PROVE Lost'
 <2>1. Does(q).op \in FileDeletes /\ Does(r).op \in FileDeletes /\ call[q].rows \cap call[r].rows # {}
   BY <1>2 DEF Twice, FileDeletes
 <2>2. call'[q].rows = call[q].rows /\ call'[r].rows = call[r].rows BY <2>1, RowsStay
 <2>3. Twice(q, r)' BY <1>0, <1>2, <2>2 DEF Twice
 <2> QED BY <2>3 DEF Lost
<1>3. ASSUME NEW q \in Calls, Does(q).op = "deleteFiles", call[q].cut \cup call[q].left # call[q].rows  PROVE Lost'
 <2>1. Does(q).op \in FileDeletes BY <1>3 DEF FileDeletes
 <2>2. call[q].cut \cup call[q].left \subseteq call[q].rows BY <2>1, CallTypes DEF Keeps
 <2>3. call'[q].rows = call[q].rows /\ call'[q].cut \cup call'[q].left \subseteq call[q].cut \cup call[q].left
   BY <1>3, <2>1, RowsStay
 <2>4. call'[q].cut \cup call'[q].left # call'[q].rows BY <1>3, <2>2, <2>3
 <2> QED BY <1>0, <1>3, <2>4 DEF Lost
<1>4. ASSUME NEW q \in Calls, Does(q).op = "upload", call[q].end = "threw"  PROVE Lost'
 <2>1. call'[q].end = "threw"
  <3>1. CASE call'[q] = call[q] BY <1>4, <3>1
  <3>2. CASE call'[q] # call[q] BY <1>4, <3>2, CallStays DEF Becomes, Uploads
  <3> QED BY <3>1, <3>2
 <2> QED BY <1>0, <1>4, <2>1 DEF Lost
<1>5. ASSUME NEW b \in Bots, bot[b] = "deleted"  PROVE Lost' BY <1>5, DeletedStays DEF Lost
<1> QED BY <1>1, <1>2, <1>3, <1>4, <1>5 DEF Lost

\* So do a dead upload and a race of uploads.
LEMMA DriftStays ==
  ASSUME Typed, NewBots, Next
  PROVE  (LostOrDead => LostOrDead') /\ (UploadsRaced => UploadsRaced')
<1>0. \A q \in Calls : Does(q)' = Does(q) BY CallStays
<1>1. ASSUME NEW q \in Calls, Does(q).op \in Uploads, call[q].pc = "dead"  PROVE LostOrDead'
 <2>1. call'[q] = call[q] BY <1>1, CallStays DEF Over
 <2> QED BY <1>0, <1>1, <2>1 DEF LostOrDead
<1>2. LostOrDead => LostOrDead' BY <1>1, LostStays DEF LostOrDead
<1>3. ASSUME NEW q \in Calls, NEW r \in Calls, Does(q).op \in Uploads, Started(q), Started(r), Does(r).op \in Uploads, Overlap(q, r)
      PROVE  UploadsRaced'
 <2>1. Started(q)' /\ Started(r)' /\ Overlap(q, r)' BY <1>3, CallStays, OverlapStays
 <2> QED BY <1>0, <1>3, <2>1 DEF UploadsRaced, Racing
<1>4. UploadsRaced => UploadsRaced' BY <1>3 DEF UploadsRaced, Racing
<1> QED BY <1>2, <1>4

\* A call moves by a step of its own.
LEMMA MoverSteps ==
  ASSUME Typed, Next, NEW q \in Calls, call'[q] # call[q]
  PROVE  \/ TestLock(q) \/ SetLock(q) \/ CheckQuota(q) \/ StoreFiles(q) \/ CountUpload(q) \/ ReleaseLock(q)
         \/ FindFile(q) \/ DeleteObject(q) \/ DeleteRow(q) \/ LowerUsage(q) \/ MarkFiles(q) \/ ReadBulk(q)
         \/ DropObject(q) \/ FindAttachment(q) \/ HideAttachment(q) \/ DecrementUsage(q)
         \/ ReadBots(q) \/ CreateBot(q) \/ CountBot(q) \/ FindBot(q) \/ DeleteBot(q) \/ ReadBotQuota(q) \/ UncountBot(q)
         \/ AddPages(q) \/ ResetRows(q) \/ Dispatch(q) \/ OpenRows(q) \/ Forgot(q) \/ Die(q)
         \/ \E f \in Files : DeleteNext(q, f)
         \/ \E u \in Urls : CreateRow(q, u)
         \/ \E i \in DOMAIN page : ForgetOne(q, i)
<1>0. \A p \in Calls : Becomes(p, call'[p]) => p = q BY OthersStay
<1>1. CASE \E p \in Calls : TestLock(p) \/ SetLock(p) \/ CheckQuota(p) \/ StoreFiles(p) \/ CountUpload(p)
 <2>1. PICK p \in Calls : TestLock(p) \/ SetLock(p) \/ CheckQuota(p) \/ StoreFiles(p) \/ CountUpload(p) BY <1>1
 <2>2. Becomes(p, call'[p]) BY <2>1, TestLockCall, SetLockCall, CheckQuotaCall, StoreFilesCall, CountUploadCall
 <2> QED BY <1>0, <2>1, <2>2
<1>2. CASE \E p \in Calls : ReleaseLock(p) \/ FindFile(p) \/ DeleteObject(p) \/ DeleteRow(p) \/ LowerUsage(p)
 <2>1. PICK p \in Calls : ReleaseLock(p) \/ FindFile(p) \/ DeleteObject(p) \/ DeleteRow(p) \/ LowerUsage(p) BY <1>2
 <2>2. Becomes(p, call'[p]) BY <2>1, ReleaseLockCall, FindFileCall, DeleteObjectCall, DeleteRowCall, LowerUsageCall
 <2> QED BY <1>0, <2>1, <2>2
<1>3. CASE \E p \in Calls : Marking(p)
 <2>1. PICK p \in Calls : Marking(p) BY <1>3
 <2>2. Becomes(p, call'[p])
   BY <2>1, MarkFilesCall, ReadBulkCall, DropObjectCall, FindAttachmentCall, HideAttachmentCall, DecrementUsageCall DEF Marking
 <2> QED BY <1>0, <2>1, <2>2 DEF Marking
<1>4. CASE \E p \in Calls : ReadBots(p) \/ CreateBot(p) \/ CountBot(p) \/ FindBot(p) \/ DeleteBot(p) \/ ReadBotQuota(p) \/ UncountBot(p)
 <2>1. PICK p \in Calls : ReadBots(p) \/ CreateBot(p) \/ CountBot(p) \/ FindBot(p) \/ DeleteBot(p) \/ ReadBotQuota(p) \/ UncountBot(p)
   BY <1>4
 <2>2. Becomes(p, call'[p])
   BY <2>1, ReadBotsCall, CreateBotCall, CountBotCall, FindBotCall, DeleteBotCall, ReadBotQuotaCall, UncountBotCall
 <2> QED BY <1>0, <2>1, <2>2
<1>5. CASE \E p \in Calls : AddPages(p) \/ ResetRows(p) \/ Dispatch(p) \/ OpenRows(p) \/ Forgot(p) \/ Die(p)
 <2>1. PICK p \in Calls : AddPages(p) \/ ResetRows(p) \/ Dispatch(p) \/ OpenRows(p) \/ Forgot(p) \/ Die(p) BY <1>5
 <2>2. Becomes(p, call'[p]) BY <2>1, AddPagesCall, ResetRowsCall, DispatchCall, OpenRowsCall, ForgotCall, DieCall
 <2> QED BY <1>0, <2>1, <2>2
<1>6. CASE \E p \in Calls, f \in Files : DeleteNext(p, f) BY <1>0, <1>6, DeleteNextCall
<1>7. CASE \E p \in Calls, u \in Urls : CreateRow(p, u) BY <1>0, <1>7, CreateRowCall
<1>8. CASE \E p \in Calls, i \in DOMAIN page : ForgetOne(p, i) BY <1>0, <1>8, ForgetOneCall
<1>9. CASE \E p \in Pods : LockExpires(p) BY <1>9 DEF LockExpires
<1>10. CASE \E b \in Bots : Cleanup(b)
  BY <1>10 DEF Cleanup, CascadeFiles, FindFiles, SweepObject, SweepRow, CascadeContents, CascadeChats, CascadeIndex
<1>11. CASE \E t \in DOMAIN task : StartTask(t) \/ FinishTask(t) \/ FailTask(t)
  BY <1>11 DEF StartTask, FinishTask, FailTask
<1>12. CASE \E t \in DOMAIN task, p \in Pods : CascadeFailed(p, t) BY <1>12 DEF CascadeFailed
<1> QED BY StepCases, <1>1, <1>2, <1>3, <1>4, <1>5, <1>6, <1>7, <1>8, <1>9, <1>10, <1>11, <1>12
  DEF Storing, Removing, Marking, CountingBots, Paging

BotOps == {"createBot", "deleteBot"}
\* A call about a bot moves by the steps of such calls.
LEMMA BotMover ==
  ASSUME Typed, Next, NEW q \in Calls, call'[q] # call[q], Does(q).op \in BotOps
  PROVE  \/ ReadBots(q) \/ CreateBot(q) \/ CountBot(q) \/ FindBot(q) \/ DeleteBot(q) \/ ReadBotQuota(q) \/ UncountBot(q)
         \/ Die(q)
<1>1. ~(TestLock(q) \/ SetLock(q) \/ CheckQuota(q) \/ StoreFiles(q) \/ CountUpload(q) \/ ReleaseLock(q))
  BY TestLockCall, SetLockCall, CheckQuotaCall, StoreFilesCall, CountUploadCall, ReleaseLockCall DEF BotOps
<1>2. ~(FindFile(q) \/ DeleteObject(q) \/ DeleteRow(q) \/ LowerUsage(q) \/ MarkFiles(q) \/ ReadBulk(q))
  BY FindFileCall, DeleteObjectCall, DeleteRowCall, LowerUsageCall, MarkFilesCall, ReadBulkCall DEF BotOps
<1>3. ~(DropObject(q) \/ FindAttachment(q) \/ HideAttachment(q) \/ DecrementUsage(q) \/ \E f \in Files : DeleteNext(q, f))
  BY DropObjectCall, FindAttachmentCall, HideAttachmentCall, DecrementUsageCall, DeleteNextCall DEF BotOps
<1>4. ~(AddPages(q) \/ ResetRows(q) \/ Dispatch(q) \/ OpenRows(q) \/ Forgot(q))
  BY AddPagesCall, ResetRowsCall, DispatchCall, OpenRowsCall, ForgotCall DEF BotOps, PageOps, Forgets
<1>5. ~((\E u \in Urls : CreateRow(q, u)) \/ \E i \in DOMAIN page : ForgetOne(q, i))
  BY CreateRowCall, ForgetOneCall DEF BotOps, Forgets
<1> QED BY <1>1, <1>2, <1>3, <1>4, <1>5, MoverSteps

--------------------
(* The quota of bots *)

Running == Cardinality(LiveBots)
AnyDead == \E q \in Calls : call[q].pc = "dead"
\* What a call about a bot has read is what the counter says.
BotBook(q) ==
  /\ call[q].pc \in {"create", "countBot"} => call[q].seen = botUsed
  /\ call[q].pc = "countBot" => botUsed = Running - 1
  /\ call[q].pc \in {"readBots", "uncount"} => botUsed = Running + 1
  /\ call[q].pc = "uncount" => call[q].seen = botUsed
  /\ call[q].pc = "bot" => bot[Does(q).bot] = "live"
BotBooks ==
  /\ (\A q \in Calls : call[q].pc \notin {"countBot", "readBots", "uncount"}) => botUsed = Running
  /\ \A q \in Calls : BotBook(q)
BotsCounted ==
  /\ Running <= plan.botLimit \/ Running <= 1
  /\ \A q \in Calls : call[q].pc = "create" => Running < plan.botLimit
  /\ AnyDead \/ BotBooks
BotInv == NewBots /\ (BotsOverlap \/ BotsCounted)

\* The bots that run are finitely many.
LEMMA RunningIs ==
  ASSUME Typed
  PROVE  /\ Running \in Nat /\ plan.botLimit \in Nat /\ botUsed \in Nat
         /\ \A b \in Bots : /\ bot[b] # "live" => Cardinality(LiveBots \cup {b}) = Running + 1
                            /\ bot[b] = "live" => Cardinality(LiveBots \ {b}) = Running - 1
<1>1. IsFiniteSet(LiveBots) BY PlanAssumption, FS_Subset DEF LiveBots
<1>2. Cardinality(LiveBots) \in Nat BY <1>1, FS_CardinalityType
<1>3. plan.botLimit \in Nat /\ botUsed \in Nat BY PlanTypes DEF Typed, Types
<1>4. ASSUME NEW b \in Bots
      PROVE  /\ bot[b] # "live" => Cardinality(LiveBots \cup {b}) = Running + 1
             /\ bot[b] = "live" => Cardinality(LiveBots \ {b}) = Running - 1
 <2>1. b \in LiveBots <=> bot[b] = "live" BY DEF LiveBots
 <2> QED BY <1>1, <1>2, <2>1, FS_AddElement, FS_RemoveElement DEF Running
<1> QED BY <1>2, <1>3, <1>4 DEF Running

\* The bots of creations not made yet are not there.
LEMMA NewBotsKept ==
  ASSUME Typed, NewBots, Next
  PROVE  NewBots'
<1>0. /\ plan' = plan /\ bot \in [Bots -> {"none", "live", "deleted"}] /\ OwnRows(plan)
      /\ \A q \in Calls : Does(q).bot \in Bots
  BY PlanStays, CallTypes, PlanAssumption DEF Typed, Types
<1>1. ASSUME NEW q \in Calls, Does(q).op = "createBot", call'[q].pc \in {"new", "create"}
      PROVE  call[q].pc \in {"new", "create"}
 <2>1. CASE call'[q] = call[q] BY <1>1, <2>1
 <2>2. CASE call'[q] # call[q]
  <3>1. call'[q].pc # "new" BY <2>2, CallStays
  <3>2. ReadBots(q) \/ CreateBot(q) \/ CountBot(q) \/ FindBot(q) \/ DeleteBot(q) \/ ReadBotQuota(q) \/ UncountBot(q) \/ Die(q)
    BY <1>1, <2>2, BotMover DEF BotOps
  <3>3. ReadBots(q)
    BY <1>1, <3>1, <3>2, CreateBotCall, CountBotCall, FindBotCall, DeleteBotCall, ReadBotQuotaCall, UncountBotCall, DieCall
  <3> QED BY <3>3, ReadBotsCall
 <2> QED BY <2>1, <2>2
<1>2. ASSUME NEW q \in Calls, call'[q].pc = "bot"
      PROVE  bot[Does(q).bot] # "none"
 <2>1. CASE call'[q] = call[q] BY <1>2, <2>1 DEF NewBots
 <2>2. CASE call'[q] # call[q]
  <3>0. Becomes(q, call'[q]) BY <2>2, CallStays
  <3>1. Does(q).op \in BotOps BY <1>2, <3>0, CallTypes DEF Becomes, InPlace, Ops, Uploads, Forgets, Over, BotOps
  <3>2. ReadBots(q) \/ CreateBot(q) \/ CountBot(q) \/ FindBot(q) \/ DeleteBot(q) \/ ReadBotQuota(q) \/ UncountBot(q) \/ Die(q)
    BY <2>2, <3>1, BotMover
  <3>3. FindBot(q)
    BY <1>2, <3>2, ReadBotsCall, CreateBotCall, CountBotCall, DeleteBotCall, ReadBotQuotaCall, UncountBotCall, DieCall
  <3> QED BY <1>2, <3>3, FindBotCall
 <2> QED BY <2>1, <2>2
<1>3. \A b \in Bots : bot[b] # "none" => bot'[b] # "none" BY <1>0, BotSteps DEF CreateBot, DeleteBot
<1>4. ASSUME NEW q \in Calls, Does(q).op = "createBot", call'[q].pc \in {"new", "create"}
      PROVE  bot'[Does(q).bot] = "none"
 <2>1. bot[Does(q).bot] = "none" BY <1>1, <1>4 DEF NewBots
 <2>2. ASSUME NEW r \in Calls, CreateBot(r)  PROVE bot'[Does(q).bot] = "none"
  <3>1. call'[r].pc = "countBot" /\ Does(r).op = "createBot" BY <2>2, CreateBotCall
  <3>2. r # q BY <1>4, <3>1
  <3>3. Does(r).bot # Does(q).bot BY <1>0, <1>4, <3>1, <3>2 DEF OwnRows, Does
  <3> QED BY <1>0, <2>1, <2>2, <3>3 DEF CreateBot
 <2>3. ASSUME NEW r \in Calls, DeleteBot(r)  PROVE bot'[Does(q).bot] = "none"
  <3>1. bot[Does(r).bot] # "none" BY <2>3, DeleteBotCall DEF NewBots
  <3> QED BY <1>0, <2>1, <2>3, <3>1 DEF DeleteBot
 <2> QED BY <2>1, <2>2, <2>3, BotSteps
<1> QED BY <1>0, <1>2, <1>3, <1>4 DEF NewBots, Does

\* Calls about bots that are on their way together overlap.
LEMMA OneBotCall ==
  ASSUME Ordered, ~BotsOverlap, NEW q \in Calls, NEW r \in Calls, q # r, Does(q).op \in BotOps, Does(r).op \in BotOps,
         call[q].pc \notin Over \cup {"new"}
  PROVE  call[r].pc \in Over \cup {"new"}
<1> SUFFICES ASSUME call[r].pc \notin Over \cup {"new"}  PROVE FALSE OBVIOUS
<1>1. Started(q) /\ Started(r) /\ ~Finished(q) /\ ~Finished(r) BY DEF Started, Finished
<1>2. Overlap(q, r) BY <1>1, BusyOverlap DEF Ordered
<1> QED BY <1>1, <1>2 DEF BotsOverlap, BotOps

\* The places that only calls about bots have.
LEMMA BotPlaces ==
  ASSUME Typed, NEW q \in Calls, call[q].pc \in {"create", "countBot", "bot", "readBots", "uncount"}
  PROVE  Does(q).op \in BotOps /\ call[q].pc \notin Over \cup {"new"}
  BY CallTypes DEF InPlace, Ops, Uploads, Forgets, Over, BotOps

\* A step that moves no call about bots leaves their counter.
LEMMA BotsUntouched ==
  ASSUME Typed, Next, \A q \in Calls : Does(q).op \in BotOps => call'[q] = call[q]
  PROVE  bot' = bot /\ botUsed' = botUsed
<1>1. ASSUME NEW q \in Calls, CreateBot(q) \/ DeleteBot(q) \/ CountBot(q) \/ UncountBot(q)  PROVE FALSE
 <2>1. Does(q).op \in BotOps /\ Becomes(q, call'[q]) /\ call'[q].pc # call[q].pc
   BY <1>1, CreateBotCall, DeleteBotCall, CountBotCall, UncountBotCall DEF BotOps
 <2> QED BY <2>1
<1> QED BY <1>1, BotSteps, BotUsedSteps

\* A pod that is dead stays so.
LEMMA DeadStays ==
  ASSUME Typed, Next, AnyDead
  PROVE  AnyDead'
<1>1. PICK q \in Calls : call[q].pc = "dead" BY DEF AnyDead
<1>2. call'[q] = call[q] BY <1>1, CallStays DEF Over
<1> QED BY <1>1, <1>2 DEF AnyDead

\* A step keeps the count of the bots, when it moves none of their calls.
LEMMA BotsCountedElsewhere ==
  ASSUME Typed, Next, BotsCounted, \A q \in Calls : Does(q).op \in BotOps => call'[q] = call[q]
  PROVE  BotsCounted'
<1>1. bot' = bot /\ botUsed' = botUsed /\ plan' = plan BY BotsUntouched, PlanStays
<1>2. Running' = Running /\ Typed' /\ (\A q \in Calls : Does(q)' = Does(q))
  BY <1>1, TypesKept, CallStays DEF Running, LiveBots
<1>3. \A q \in Calls : Does(q).op \notin BotOps =>
        /\ call[q].pc \notin {"create", "countBot", "bot", "readBots", "uncount"}
        /\ call'[q].pc \notin {"create", "countBot", "bot", "readBots", "uncount"}
 <2> SUFFICES ASSUME NEW q \in Calls, Does(q).op \notin BotOps
              PROVE  /\ call[q].pc \notin {"create", "countBot", "bot", "readBots", "uncount"}
                     /\ call'[q].pc \notin {"create", "countBot", "bot", "readBots", "uncount"}
   OBVIOUS
 <2>1. call[q].pc \notin {"create", "countBot", "bot", "readBots", "uncount"} BY BotPlaces
 <2>2. CASE call'[q] = call[q] BY <2>1, <2>2
 <2>3. CASE call'[q] # call[q]
  <3>1. InPlace(q, call'[q]) /\ Does(q).op \in Ops BY <2>3, CallStays, CallTypes DEF Becomes
  <3>2. call'[q].pc \notin {"create", "countBot", "bot", "readBots", "uncount"}
    BY <3>1 DEF InPlace, Ops, Uploads, Forgets, Over, BotOps
  <3> QED BY <2>1, <3>2
 <2> QED BY <2>2, <2>3
<1>4. \A q \in Calls : /\ call[q].pc \in {"create", "countBot", "bot", "readBots", "uncount"} => call'[q] = call[q]
                       /\ call'[q].pc \in {"create", "countBot", "bot", "readBots", "uncount"} => call'[q] = call[q]
  BY <1>3
<1>5. BotBooks => BotBooks'
 <2> SUFFICES ASSUME BotBooks  PROVE BotBooks' OBVIOUS
 <2>1. (\A q \in Calls : call'[q].pc \notin {"countBot", "readBots", "uncount"}) => botUsed' = Running'
   BY <1>1, <1>2, <1>4 DEF BotBooks
 <2>2. ASSUME NEW q \in Calls  PROVE BotBook(q)' BY <1>1, <1>2, <1>4 DEF BotBooks, BotBook
 <2> QED BY <2>1, <2>2 DEF BotBooks
<1>6. \A q \in Calls : call'[q].pc = "create" => Running' < plan'.botLimit BY <1>1, <1>2, <1>4 DEF BotsCounted
<1> QED BY <1>1, <1>2, <1>5, <1>6, DeadStays DEF BotsCounted

\* A step of a call about a bot keeps the count.
LEMMA BotsCountedHere ==
  ASSUME Typed, Ordered, NewBots, BotsCounted, ~BotsOverlap, ~BotsOverlap', Next,
         NEW q \in Calls, call'[q] # call[q], Does(q).op \in BotOps
  PROVE  BotsCounted'
<1>0. /\ \A r \in Calls \ {q} : call'[r] = call[r]
      /\ call[q].pc \notin Over /\ call'[q].pc # "new" /\ plan' = plan /\ Typed' /\ Ordered'
      /\ \A r \in Calls : Does(r)' = Does(r)
  BY CallStays, TypesKept, OrderKept, PlanStays
<1> DEFINE Places5 == {"create", "countBot", "bot", "readBots", "uncount"}
<1>1. \A r \in Calls \ {q} : call[q].pc # "new" \/ call'[q].pc \notin Over => call[r].pc \notin Places5
 <2> SUFFICES ASSUME NEW r \in Calls \ {q}, call[r].pc \in Places5, call[q].pc # "new" \/ call'[q].pc \notin Over
              PROVE  FALSE
   OBVIOUS
 <2>1. Does(r).op \in BotOps /\ call[r].pc \notin Over \cup {"new"} /\ call'[r] = call[r] BY <1>0, BotPlaces
 <2>2. CASE call[q].pc # "new" BY <1>0, <2>1, <2>2, OneBotCall
 <2>3. CASE call'[q].pc \notin Over
  <3>1. Started(q)' /\ Started(r)' /\ ~Finished(q)' /\ ~Finished(r)' /\ Sinces'
    BY <1>0, <2>1, <2>3 DEF Started, Finished, Ordered
  <3>2. Overlap(q, r)' BY <3>1 DEF Overlap, Sinces
  <3>3. Does(q)' = Does(q) /\ Does(r)' = Does(r) BY <1>0
  <3> QED BY <2>1, <3>1, <3>2, <3>3 DEF BotsOverlap, BotOps
 <2> QED BY <2>2, <2>3
<1>2. /\ Running \in Nat /\ plan.botLimit \in Nat /\ botUsed \in Nat /\ Does(q).bot \in Bots
      /\ bot \in [Bots -> {"none", "live", "deleted"}]
  BY RunningIs, CallTypes DEF Typed, Types
\* The other calls' books, when the bots and the counter stay or none is open.
<1>3. ASSUME bot' = bot, botUsed' = botUsed, BotBook(q)', call'[q].pc = "create" => Running < plan.botLimit,
             call[q].pc \in {"countBot", "readBots", "uncount"} <=> call'[q].pc \in {"countBot", "readBots", "uncount"}
      PROVE  BotsCounted'
 <2>1. Running' = Running BY <1>3 DEF Running, LiveBots
 <2>2. \A r \in Calls : BotBooks => BotBook(r)' BY <1>0, <1>3, <2>1 DEF BotBooks, BotBook
 <2>3. (\A r \in Calls : call'[r].pc \notin {"countBot", "readBots", "uncount"}) =>
          \A r \in Calls : call[r].pc \notin {"countBot", "readBots", "uncount"}
   BY <1>0, <1>3
 <2>4. BotBooks => BotBooks' BY <1>3, <2>1, <2>2, <2>3 DEF BotBooks
 <2>5. \A r \in Calls : call'[r].pc = "create" => Running' < plan'.botLimit BY <1>0, <1>3, <2>1 DEF BotsCounted
 <2> QED BY <1>0, <2>1, <2>4, <2>5, DeadStays DEF BotsCounted
<1>4. CASE ReadBots(q)
 <2>1. /\ call[q].pc = "new" /\ call'[q].pc \in {"done", "create"} /\ call'[q].seen = botUsed
       /\ call'[q].pc = "create" => HasRoom
   BY <1>4, ReadBotsCall
 <2>2. bot' = bot /\ botUsed' = botUsed BY <1>4 DEF ReadBots, bots
 <2>3. BotBook(q)' /\ (call'[q].pc = "create" => Running < plan.botLimit) BY <2>1, <2>2 DEF BotBook, HasRoom, Running
 <2> QED BY <1>3, <2>1, <2>2, <2>3
<1>5. CASE FindBot(q)
 <2>1. /\ call[q].pc = "new" /\ call'[q].pc \in {"done", "bot"}
       /\ call'[q].pc = "bot" => bot[Does(q).bot] = "live"
   BY <1>5, FindBotCall
 <2>2. bot' = bot /\ botUsed' = botUsed BY <1>5 DEF FindBot, bots
 <2>3. BotBook(q)' BY <1>0, <2>1, <2>2 DEF BotBook
 <2> QED BY <1>3, <2>1, <2>2, <2>3
<1>6. CASE Die(q)
 <2>1. call'[q].pc = "dead" /\ bot' = bot BY <1>6, DieCall DEF Die, bots
 <2>2. AnyDead' /\ Running' = Running BY <2>1 DEF AnyDead, Running, LiveBots
 <2>3. \A r \in Calls : call'[r].pc = "create" => call[r].pc = "create" BY <1>0, <2>1
 <2> QED BY <1>0, <2>2, <2>3 DEF BotsCounted
<1>7. CASE ReadBotQuota(q)
 <2>1. call[q].pc = "readBots" /\ call'[q].pc = "uncount" /\ call'[q].seen = botUsed BY <1>7, ReadBotQuotaCall
 <2>2. bot' = bot /\ botUsed' = botUsed BY <1>7 DEF ReadBotQuota, bots
 <2>3. CASE BotBooks
  <3>1. botUsed = Running + 1 /\ Running' = Running BY <2>1, <2>2, <2>3 DEF BotBooks, BotBook, Running, LiveBots
  <3>2. BotBook(q)' BY <2>1, <2>2, <3>1 DEF BotBook
  <3> QED BY <1>3, <2>1, <2>2, <3>2
 <2>4. CASE ~BotBooks
  <3>1. AnyDead' /\ Running' = Running BY <2>2, <2>4, DeadStays DEF BotsCounted, Running, LiveBots
  <3>2. \A r \in Calls : call'[r].pc = "create" => call[r].pc = "create" BY <1>0, <2>1
  <3> QED BY <1>0, <3>1, <3>2 DEF BotsCounted
 <2> QED BY <2>3, <2>4
\* The steps that make, take and count a bot: no other call has a book open.
<1>8. ASSUME call[q].pc # "new", Running' <= plan.botLimit \/ Running' <= 1, call'[q].pc # "create",
             BotBooks => BotBook(q)' /\ (call'[q].pc \notin {"countBot", "readBots", "uncount"} => botUsed' = Running')
      PROVE  BotsCounted'
 <2>1. \A r \in Calls \ {q} : call'[r].pc \notin Places5 BY <1>0, <1>1, <1>8
 <2>2. \A r \in Calls \ {q} : BotBook(r)' BY <2>1 DEF BotBook
 <2>3. BotBooks => BotBooks'
  <3> SUFFICES ASSUME BotBooks  PROVE BotBooks' OBVIOUS
  <3>1. \A r \in Calls : BotBook(r)' BY <1>8, <2>2
  <3>2. (\A r \in Calls : call'[r].pc \notin {"countBot", "readBots", "uncount"}) => botUsed' = Running' BY <1>8
  <3> QED BY <3>1, <3>2 DEF BotBooks
 <2>4. \A r \in Calls : call'[r].pc # "create" BY <1>8, <2>1
 <2> QED BY <1>0, <1>8, <2>3, <2>4, DeadStays DEF BotsCounted
<1>9. BotBooks => \/ call[q].pc \in {"countBot", "readBots", "uncount"}
                  \/ call[q].pc = "new"
                  \/ botUsed = Running
  BY <1>1 DEF BotBooks
<1>10. CASE CreateBot(q)
 <2>1. call[q].pc = "create" /\ call'[q].pc = "countBot" /\ call'[q].seen = call[q].seen /\ Does(q).op = "createBot"
   BY <1>10, CreateBotCall
 <2>2. bot' = [bot EXCEPT ![Does(q).bot] = "live"] /\ botUsed' = botUsed /\ bot[Does(q).bot] = "none"
   BY <1>10, <2>1 DEF CreateBot, NewBots
 <2>3. LiveBots' = LiveBots \cup {Does(q).bot} BY <1>2, <2>2 DEF LiveBots
 <2>4. Running' = Running + 1 BY <1>2, <2>2, <2>3, RunningIs DEF Running
 <2>5. Running < plan.botLimit BY <2>1 DEF BotsCounted
 <2>6. BotBooks => BotBook(q)' BY <1>2, <1>9, <2>1, <2>2, <2>4 DEF BotBooks, BotBook
 <2> QED BY <1>2, <1>8, <2>1, <2>4, <2>5, <2>6
<1>11. CASE CountBot(q)
 <2>1. call[q].pc = "countBot" /\ call'[q].pc = "done" BY <1>11, CountBotCall
 <2>2. bot' = bot /\ botUsed' = call[q].seen + 1 BY <1>11 DEF CountBot
 <2>3. Running' = Running BY <2>2 DEF Running, LiveBots
 <2>4. BotBooks => botUsed' = Running' BY <1>2, <2>1, <2>2, <2>3 DEF BotBooks, BotBook
 <2>5. BotBook(q)' BY <2>1 DEF BotBook
 <2> QED BY <1>8, <2>1, <2>3, <2>4, <2>5 DEF BotsCounted
<1>12. CASE DeleteBot(q)
 <2>1. call[q].pc = "bot" /\ call'[q].pc = "readBots" BY <1>12, DeleteBotCall
 <2>2. bot' = [bot EXCEPT ![Does(q).bot] = "deleted"] /\ botUsed' = botUsed BY <1>12 DEF DeleteBot
 <2>3. LiveBots' = LiveBots \ {Does(q).bot} BY <1>2, <2>2 DEF LiveBots
 <2>4. Running' <= Running /\ Running' \in Int
  <3>1. CASE bot[Does(q).bot] = "live"
   <4>1. Running' = Running - 1 BY <1>2, <2>3, <3>1, RunningIs DEF Running
   <4> QED BY <1>2, <4>1, RunningIs
  <3>2. CASE bot[Does(q).bot] # "live" BY <1>2, <2>3, <3>2 DEF Running, LiveBots
  <3> QED BY <3>1, <3>2
 <2>5. BotBooks => BotBook(q)'
  <3> SUFFICES ASSUME BotBooks  PROVE BotBook(q)' OBVIOUS
  <3>1. bot[Does(q).bot] = "live" /\ botUsed = Running BY <1>9, <2>1 DEF BotBooks, BotBook
  <3>2. Running' = Running - 1 BY <1>2, <2>3, <3>1, RunningIs DEF Running
  <3> QED BY <1>2, <2>1, <2>2, <3>1, <3>2 DEF BotBook
 <2>6. Running' <= plan.botLimit \/ Running' <= 1 BY <1>2, <2>4 DEF BotsCounted
 <2> QED BY <1>8, <2>1, <2>5, <2>6
<1>13. CASE UncountBot(q)
 <2>1. call[q].pc = "uncount" /\ call'[q].pc = "done" BY <1>13, UncountBotCall
 <2>2. bot' = bot /\ botUsed' = IF call[q].seen = 0 THEN 0 ELSE call[q].seen - 1 BY <1>13 DEF UncountBot
 <2>3. Running' = Running BY <2>2 DEF Running, LiveBots
 <2>4. BotBooks => botUsed' = Running' BY <1>2, <2>1, <2>2, <2>3 DEF BotBooks, BotBook
 <2>5. BotBook(q)' BY <2>1 DEF BotBook
 <2> QED BY <1>8, <2>1, <2>3, <2>4, <2>5 DEF BotsCounted
<1> QED BY BotMover, <1>4, <1>5, <1>6, <1>7, <1>10, <1>11, <1>12, <1>13

\* A step keeps what is known of the bots.
LEMMA BotsKept ==
  ASSUME Typed, Ordered, BotInv, Next
  PROVE  BotInv'
<1>1. NewBots' BY NewBotsKept DEF BotInv
<1>2. BotsOverlap => BotsOverlap'
 <2> SUFFICES ASSUME NEW q \in Calls, NEW r \in Calls, Started(q), Started(r), Overlap(q, r),
                     {Does(q).op, Does(r).op} \subseteq {"createBot", "deleteBot"}
              PROVE  BotsOverlap'
   BY DEF BotsOverlap
 <2>1. Started(q)' /\ Started(r)' /\ Overlap(q, r)' /\ Does(q)' = Does(q) /\ Does(r)' = Does(r)
   BY CallStays, OverlapStays
 <2> QED BY <2>1 DEF BotsOverlap
<1>3. CASE BotsOverlap' BY <1>1, <1>3 DEF BotInv
<1>4. CASE ~BotsOverlap'
 <2>1. ~BotsOverlap /\ BotsCounted /\ NewBots BY <1>2, <1>4 DEF BotInv
 <2>2. BotsCounted' BY <1>4, <2>1, BotsCountedHere, BotsCountedElsewhere
 <2> QED BY <1>1, <2>2 DEF BotInv
<1> QED BY <1>3, <1>4

\* The bots of the first state.
LEMMA InitBots == Init => BotInv /\ Ordered
<1> SUFFICES ASSUME Init  PROVE BotInv /\ Ordered OBVIOUS
<1>0. Typed /\ \A q \in Calls : call[q] = Idle BY InitTypes DEF Init, Typed
<1>1. \A q \in Calls : call[q].pc = "new" /\ call[q].since = {} BY <1>0 DEF Idle
<1>2. Ordered BY <1>1 DEF Ordered, TasksEnd, Sinces, Noticed, Init
<1>3. NewBots
 <2>1. OwnRows(plan) BY PlanAssumption DEF Init
 <2>2. \A q \in Calls : Does(q).op = "createBot" => Does(q).bot # plan.bot BY <2>1 DEF OwnRows, Does
 <2>3. \A q \in Calls : Does(q).bot \in Bots BY <1>0, CallTypes
 <2> QED BY <1>1, <2>2, <2>3 DEF NewBots, Init
<1>4. Running = 1 /\ botUsed = 1
 <2>1. LiveBots = {plan.bot} BY <1>0, PlanTypes DEF LiveBots, Init
 <2> QED BY <2>1, FS_Singleton DEF Running, Init
<1>5. BotsCounted BY <1>1, <1>4 DEF BotsCounted, BotBooks, BotBook
<1> QED BY <1>2, <1>3, <1>5 DEF BotInv

\* What the books say of the bots.
LEMMA BotsAre ==
  ASSUME Typed, BotInv
  PROVE  BotsWithinQuota
<1> SUFFICES ASSUME ~BotsOverlap  PROVE BotsWithinQuota BY DEF BotsWithinQuota
<1>0. BotsCounted /\ Running \in Nat /\ plan.botLimit \in Nat BY RunningIs DEF BotInv
<1>1. ~(Running > plan.botLimit /\ Running > 1) BY <1>0 DEF BotsCounted
<1>2. ASSUME Calm  PROVE botUsed = Running
 <2>1. ~AnyDead /\ \A q \in Calls : call[q].pc \notin {"countBot", "readBots", "uncount"} BY <1>2 DEF Calm, AnyDead
 <2> QED BY <1>0, <2>1 DEF BotsCounted, BotBooks
<1> QED BY <1>1, <1>2 DEF BotsWithinQuota, Running

--------------------
(* The quota of files: what is counted, and what is still to be *)

Active(q) == Started(q) /\ ~Finished(q)
\* What an upload has stored and not counted yet.
UncountedOf(q) == IF call[q].pc = "count" THEN Does(q).files ELSE {}
Uncounted == {f \in Files : \E q \in Calls : f \in UncountedOf(q)}
\* What a deletion has taken away and the counter has yet to lose.
OwedOf(q) ==
  IF call[q].pc \in {"lower", "decrement"} THEN call[q].rows ELSE IF call[q].pc = "files" THEN call[q].cut ELSE {}
Owed == {f \in Files : \E q \in Calls : f \in OwedOf(q)}
Booked == (KeptFiles \ Uncounted) \cup Owed
Gap == used - (SizeOf(Booked) + Cardinality(vectors))

\* A cleanup is of a deleted bot.
Cleared == \A b \in Bots : cascade[b] # "none" => bot[b] = "deleted"
Early == {"new", "lock", "check", "store"}
Stored(f) == f \in plan.stored \/ \E q \in Calls : Does(q).op \in Uploads /\ call[q].pc \notin Early /\ f \in Does(q).files
\* Every row was there from the start or an upload made it.
Made ==
  \A f \in Files : IsRow(f) \/ (\E r \in Calls : Does(r).op \in FileDeletes /\ f \in call[r].rows) => Stored(f)
Counts(q) == (Does(q).op = "upload" /\ call[q].pc \in {"store", "count"}) \/ call[q].pc = "lower"
Seeking ==
  \A q \in Calls : call[q].pc \in {"object", "hide"} /\ Does(q).op = "deleteAttachment"
    => \A f \in call[q].rows : ~file[f].deleted
Hidden == \A f \in Files : file[f].deleted => \E q \in Calls : Does(q).op = "deleteAttachment" /\ f \in call[q].rows
\* What holds of files, counter and calls until something is lost.
Truth ==
  /\ Seeking /\ Hidden /\ Uncounted \subseteq KeptFiles /\ Owed \cap KeptFiles = {}
  /\ \A q \in Calls : Counts(q) => call[q].seen = used
\* The counter is what is booked, and more only when a pod has died.
Balance == Gap >= 0 /\ (~AnyDead => Gap = 0)
Fitting == \A q \in Calls : call[q].pc = "store" => SizeOf(KeptFiles) + SizeOf(Does(q).files) <= plan.limit
Within == SizeOf(KeptFiles) <= plan.limit \/ SizeOf(KeptFiles) <= SizeOf(plan.stored)
FilesInv ==
  /\ Cleared /\ Made
  /\ Lost \/ Truth
  /\ LostOrDead \/ Balance
  /\ LostOrDead \/ UploadsRaced \/ (Fitting /\ Within)

\* A call on its way is active.
LEMMA OnItsWay ==
  ASSUME NEW q \in Calls, call[q].pc \notin Over \cup {"new"}
  PROVE  Active(q)
  BY DEF Active, Started, Finished

\* Two calls on their way that get in each other's way.
LEMMA TwoActive ==
  ASSUME Sinces, NEW q \in Calls, NEW r \in Calls, q # r, Active(q), Active(r)
  PROVE  /\ Does(q).op \in Overwriting /\ Does(r).op \in CountsFiles \cup PageOps => Lost
         /\ Does(q).files \cap Does(r).files # {} /\ Does(r).op \in CountsFiles => Lost
         /\ Does(q).op \in Uploads /\ Does(r).op \in Uploads => UploadsRaced
<1>1. Overlap(q, r) /\ Started(q) /\ Started(r) BY BusyOverlap DEF Active
<1>2. Does(q).op \in Overwriting /\ Does(r).op \in CountsFiles \cup PageOps => Miscounts(q, r) BY <1>1 DEF Miscounts
<1>3. Does(q).files \cap Does(r).files # {} /\ Does(r).op \in CountsFiles => Miscounts(q, r) BY <1>1 DEF Miscounts
<1> QED BY <1>1, <1>2, <1>3 DEF Lost, UploadsRaced, Racing

\* Uploads that are both on their way after a step race.
LEMMA UploadsRace ==
  ASSUME Typed, Ordered, Next, NEW q \in Calls, NEW r \in Calls, q # r, Does(q).op \in Uploads, Does(r).op \in Uploads,
         call'[q].pc \notin Over \cup {"new"}, call'[r].pc \notin Over \cup {"new"}
  PROVE  UploadsRaced'
<1>1. Sinces' /\ plan' = plan BY OrderKept, PlanStays DEF Ordered
<1>2. ~Finished(q)' /\ ~Finished(r)' /\ Started(q)' /\ Started(r)' BY DEF Finished, Started
<1>3. Overlap(q, r)' BY <1>1, <1>2 DEF Overlap, Sinces
<1>4. Does(q)' = Does(q) /\ Does(r)' = Does(r) BY <1>1 DEF Does
<1> QED BY <1>2, <1>3, <1>4 DEF UploadsRaced, Racing

\* A cleanup follows the deletion of its bot.
LEMMA ClearedKept ==
  ASSUME Typed, NewBots, Cleared, Next
  PROVE  Cleared'
<1>0. cascade \in [Bots -> Stages] /\ bot \in [Bots -> {"none", "live", "deleted"}]
  BY DEF Typed, Types
<1>1. \A b \in Bots : bot[b] = "deleted" => bot'[b] = "deleted" BY DeletedStays
<1>2. ASSUME NEW q \in Calls, DeleteBot(q)  PROVE Cleared'
 <2>1. /\ cascade' = [cascade EXCEPT ![Does(q).bot] = "files"]
       /\ bot' = [bot EXCEPT ![Does(q).bot] = "deleted"]
   BY <1>2 DEF DeleteBot
 <2> QED BY <1>0, <1>1, <2>1 DEF Cleared
<1>3. ASSUME NEW b \in Bots, Cleanup(b)  PROVE Cleared'
 <2>1. cascade' = cascade \/ (cascade[b] # "none" /\ \E s \in Stages : cascade' = [cascade EXCEPT ![b] = s])
   BY <1>3 DEF Cleanup, CascadeFiles, FindFiles, SweepObject, SweepRow, CascadeContents, CascadeChats, CascadeIndex, Cleans,
               Stages
 <2> QED BY <1>0, <1>1, <2>1 DEF Cleared
<1>4. CASE cascade' = cascade BY <1>0, <1>1, <1>4 DEF Cleared
<1> QED BY <1>2, <1>3, <1>4, CascadeSteps

\* A cleanup that hides files or drops an index has lost count.
LEMMA CleanupLoses ==
  ASSUME Typed, Cleared, NEW b \in Bots, SweepObject(b) \/ SweepRow(b) \/ CascadeIndex(b)
  PROVE  Lost
<1>1. cascade[b] # "none" BY DEF SweepObject, SweepRow, CascadeIndex, Cleans
<1> QED BY <1>1 DEF Cleared, Lost

\* What an upload is past, it stays past.
LEMMA UploadMover ==
  ASSUME Typed, Next, NEW q \in Calls, call'[q] # call[q], Does(q).op \in Uploads
  PROVE  TestLock(q) \/ SetLock(q) \/ CheckQuota(q) \/ StoreFiles(q) \/ CountUpload(q) \/ ReleaseLock(q) \/ Die(q)
<1>1. ~(ReadBots(q) \/ CreateBot(q) \/ CountBot(q) \/ FindBot(q) \/ DeleteBot(q) \/ ReadBotQuota(q) \/ UncountBot(q))
  BY ReadBotsCall, CreateBotCall, CountBotCall, FindBotCall, DeleteBotCall, ReadBotQuotaCall, UncountBotCall DEF Uploads
<1>2. ~(FindFile(q) \/ DeleteObject(q) \/ DeleteRow(q) \/ LowerUsage(q) \/ MarkFiles(q) \/ ReadBulk(q))
  BY FindFileCall, DeleteObjectCall, DeleteRowCall, LowerUsageCall, MarkFilesCall, ReadBulkCall DEF Uploads
<1>3. ~(DropObject(q) \/ FindAttachment(q) \/ HideAttachment(q) \/ DecrementUsage(q) \/ \E f \in Files : DeleteNext(q, f))
  BY DropObjectCall, FindAttachmentCall, HideAttachmentCall, DecrementUsageCall, DeleteNextCall DEF Uploads
<1>4. ~(AddPages(q) \/ ResetRows(q) \/ Dispatch(q) \/ OpenRows(q) \/ Forgot(q))
  BY AddPagesCall, ResetRowsCall, DispatchCall, OpenRowsCall, ForgotCall DEF Uploads, PageOps, Forgets
<1>5. ~((\E u \in Urls : CreateRow(q, u)) \/ \E i \in DOMAIN page : ForgetOne(q, i))
  BY CreateRowCall, ForgetOneCall DEF Uploads, Forgets
<1> QED BY <1>1, <1>2, <1>3, <1>4, <1>5, MoverSteps

\* A deletion of files moves by the steps of such calls.
LEMMA DeleteMover ==
  ASSUME Typed, Next, NEW q \in Calls, call'[q] # call[q], Does(q).op \in FileDeletes
  PROVE  \/ FindFile(q) \/ DeleteObject(q) \/ DeleteRow(q) \/ LowerUsage(q) \/ MarkFiles(q) \/ ReadBulk(q)
         \/ DropObject(q) \/ FindAttachment(q) \/ HideAttachment(q) \/ DecrementUsage(q) \/ Die(q)
         \/ \E f \in Files : DeleteNext(q, f)
<1>1. ~(ReadBots(q) \/ CreateBot(q) \/ CountBot(q) \/ FindBot(q) \/ DeleteBot(q) \/ ReadBotQuota(q) \/ UncountBot(q))
  BY ReadBotsCall, CreateBotCall, CountBotCall, FindBotCall, DeleteBotCall, ReadBotQuotaCall, UncountBotCall DEF FileDeletes
<1>2. ~(TestLock(q) \/ SetLock(q) \/ CheckQuota(q) \/ StoreFiles(q) \/ CountUpload(q) \/ ReleaseLock(q))
  BY TestLockCall, SetLockCall, CheckQuotaCall, StoreFilesCall, CountUploadCall, ReleaseLockCall DEF FileDeletes
<1>3. ~(AddPages(q) \/ ResetRows(q) \/ Dispatch(q) \/ OpenRows(q) \/ Forgot(q))
  BY AddPagesCall, ResetRowsCall, DispatchCall, OpenRowsCall, ForgotCall DEF FileDeletes, PageOps, Forgets
<1>4. ~((\E u \in Urls : CreateRow(q, u)) \/ \E i \in DOMAIN page : ForgetOne(q, i))
  BY CreateRowCall, ForgetOneCall DEF FileDeletes, Forgets
<1> QED BY <1>1, <1>2, <1>3, <1>4, MoverSteps

\* Rows come from uploads, and deletions find rows.
LEMMA MadeKept ==
  ASSUME Typed, Made, Next
  PROVE  Made'
<1>0. /\ plan' = plan /\ file \in [Files -> FileRow]
      /\ \A q \in Calls : Does(q)' = Does(q) /\ Does(q).op \in Ops /\ Does(q).files \subseteq Files
  BY PlanStays, CallStays, CallTypes DEF Typed, Types
<1>1. ASSUME NEW q \in Calls, Does(q).op \in Uploads, call[q].pc \notin Early  PROVE call'[q].pc \notin Early
 <2>1. CASE call'[q] = call[q] BY <1>1, <2>1
 <2>2. CASE call'[q] # call[q]
  <3>1. TestLock(q) \/ SetLock(q) \/ CheckQuota(q) \/ StoreFiles(q) \/ CountUpload(q) \/ ReleaseLock(q) \/ Die(q)
    BY <1>1, <2>2, UploadMover
  <3> QED
    BY <1>1, <3>1, TestLockCall, SetLockCall, CheckQuotaCall, StoreFilesCall, CountUploadCall, ReleaseLockCall, DieCall
    DEF Early
 <2> QED BY <2>1, <2>2
<1>2. \A f \in Files : Stored(f) => Stored(f)' BY <1>0, <1>1 DEF Stored
<1>3. ASSUME NEW q \in Calls, StoreFiles(q), NEW f \in Files, f \in Does(q).files  PROVE Stored(f)'
 <2>1. Does(q).op \in Uploads /\ call'[q].pc \notin Early BY <1>3, StoreFilesCall DEF Uploads, Early
 <2> QED BY <1>0, <1>3, <2>1 DEF Stored
<1>4. ASSUME NEW f \in Files, IsRow(f)', ~IsRow(f)  PROVE Stored(f)'
 <2>1. file' # file BY <1>4 DEF IsRow
 <2>2. CASE \E q \in Calls : StoreFiles(q)
  <3>1. PICK q \in Calls : StoreFiles(q) BY <2>2
  <3>2. f \in Does(q).files
   <4>1. CASE StoresAll(q) BY <1>4, <4>1 DEF StoresAll, IsRow
   <4>2. CASE StoresSome(q)
    <5>1. PICK S, T \in SUBSET Does(q).files :
            file' = [g \in Files |-> CASE g \in S -> NewFile(Does(q).bot)
                                       [] g \in T -> [file[g] EXCEPT !.object = TRUE] [] OTHER -> file[g]]
      BY <4>2 DEF StoresSome
    <5>2. f \notin S \cup T => file'[f] = file[f] BY <5>1
    <5> QED BY <1>4, <5>2 DEF IsRow
   <4> QED BY <3>1, <4>1, <4>2, StoreFilesCall
  <3> QED BY <1>3, <3>1, <3>2
 <2>3. ASSUME NEW q \in Calls, DeleteObject(q)  PROVE FALSE
  <3>1. file'[f] = file[f] \/ file'[f] = [file[f] EXCEPT !.object = FALSE] BY <2>3 DEF DeleteObject
  <3> QED BY <1>0, <1>4, <3>1 DEF IsRow, FileRow
 <2>4. ASSUME NEW q \in Calls, DeleteRow(q)  PROVE FALSE
  <3>1. file'[f] = file[f] \/ file'[f] = NoFile BY <2>4 DEF DeleteRow
  <3> QED BY <1>4, <3>1 DEF IsRow, NoFile
 <2>5. ASSUME NEW q \in Calls, MarkFiles(q)  PROVE FALSE
  <3>1. f \in call'[q].rows => IsRow(f) BY <2>5, MarkFilesCall
  <3>2. f \in call'[q].rows \/ file'[f] = file[f] BY <2>5, MarkFilesCall
  <3> QED BY <1>4, <3>1, <3>2 DEF IsRow
 <2>6. ASSUME NEW q \in Calls, HideAttachment(q)  PROVE FALSE
  <3>1. RowsHide(q) BY <2>1, <2>6, HideAttachmentCall
  <3>2. f \in call[q].rows \/ file'[f] = file[f] BY <3>1 DEF RowsHide
  <3> QED BY <1>4, <3>1, <3>2 DEF RowsHide, IsRow
 <2>7. ASSUME NEW q \in Calls, NEW g \in Files, DeleteNext(q, g)  PROVE FALSE
  <3>1. CASE file' = [file EXCEPT ![g] = NoFile] BY <1>0, <1>4, <3>1 DEF IsRow, NoFile
  <3>2. CASE IsRow(g) /\ file' = [file EXCEPT ![g].status = "INDEXED"] BY <1>0, <1>4, <3>2 DEF IsRow
  <3> QED BY <2>1, <2>7, <3>1, <3>2, DeleteNextCall
 <2>8. ASSUME NEW q \in Calls, DropObject(q)  PROVE FALSE
  <3>1. PICK g \in Files : file' = [file EXCEPT ![g].object = FALSE] BY <2>8, DropObjectCall
  <3>2. file'[f] = file[f] \/ file'[f] = [file[f] EXCEPT !.object = FALSE] BY <1>0, <3>1
  <3> QED BY <1>0, <1>4, <3>2 DEF IsRow, FileRow
 <2>9. ASSUME NEW b \in Bots, SweepObject(b) \/ SweepRow(b)  PROVE FALSE
  <3>1. \/ file'[f] = file[f] \/ file'[f] = [file[f] EXCEPT !.object = FALSE]
        \/ file'[f] = [file[f] EXCEPT !.deleted = TRUE]
    BY <1>0, <2>9 DEF SweepObject, SweepRow
  <3> QED BY <1>0, <1>4, <3>1 DEF IsRow, FileRow
 <2> QED BY <2>1, <2>2, <2>3, <2>4, <2>5, <2>6, <2>7, <2>8, <2>9, FileSteps
<1>5. ASSUME NEW r \in Calls, Does(r).op \in FileDeletes, NEW f \in Files, f \in call'[r].rows, f \notin call[r].rows
      PROVE  IsRow(f)
 <2>1. call'[r] # call[r] BY <1>5
 <2>2. call[r].pc = "new" BY <1>5, <2>1, CallStays DEF Becomes
 <2>3. FindFile(r) \/ MarkFiles(r) \/ FindAttachment(r)
   BY <1>5, <2>1, <2>2, DeleteMover, DeleteObjectCall, DeleteRowCall, LowerUsageCall, ReadBulkCall, DropObjectCall, HideAttachmentCall,
      DecrementUsageCall, DieCall, DeleteNextCall
 <2> QED BY <1>5, <2>3, FindFileCall, MarkFilesCall, FindAttachmentCall
<1>6. SUFFICES ASSUME NEW f \in Files, IsRow(f)' \/ \E r \in Calls : Does(r).op \in FileDeletes /\ f \in call'[r].rows
               PROVE  Stored(f)'
  BY <1>0 DEF Made
<1>7. CASE IsRow(f) \/ \E r \in Calls : Does(r).op \in FileDeletes /\ f \in call[r].rows BY <1>2, <1>7 DEF Made
<1>8. CASE ~(IsRow(f) \/ \E r \in Calls : Does(r).op \in FileDeletes /\ f \in call[r].rows) BY <1>4, <1>5, <1>6, <1>8
<1> QED BY <1>7, <1>8

\* No row comes, goes, is hidden or shown.
KeptStay == \A f \in Files : (IsRow(f)' <=> IsRow(f)) /\ (file'[f].deleted <=> file[f].deleted)

\* What a step makes of the rows, when nothing is lost.
LEMMA FileEffects ==
  ASSUME Typed, Cleared, Next, ~Lost, ~Lost'
  PROVE  \/ KeptStay
         \/ \E q \in Calls : StoreFiles(q) /\ call'[q].pc = "count" /\ StoresAll(q)
         \/ \E q \in Calls : DeleteRow(q) /\ call'[q].pc = "lower" /\ call'[q].seen = used /\ RowsGo(q)
         \/ \E q \in Calls, f \in Files :
              DeleteNext(q, f) /\ call'[q].cut = call[q].cut \cup {f} /\ IsRow(f) /\ file' = [file EXCEPT ![f] = NoFile]
         \/ \E q \in Calls : HideAttachment(q) /\ call'[q].pc = "decrement" /\ RowsHide(q)
<1>0. /\ file \in [Files -> FileRow] /\ \A f \in Files : file[f] \in FileRow
      /\ plan' = plan /\ \A q \in Calls : Does(q)' = Does(q)
  BY PlanStays, CallStays DEF Typed, Types
<1>1. CASE file' = file BY <1>1 DEF KeptStay, IsRow
<1>2. ASSUME NEW q \in Calls, StoreFiles(q), ~(call'[q].pc = "count" /\ StoresAll(q))  PROVE KeptStay
 <2>1. /\ call[q].pc = "store" /\ call'[q].end = "threw" /\ StoresSome(q) /\ Does(q).op \in {"upload", "attach", "widget"}
   BY <1>2, StoreFilesCall
 <2>2. Does(q).op # "upload" BY <1>0, <2>1 DEF Lost
 <2>3. PICK S, T \in SUBSET Does(q).files :
         /\ S # Does(q).files
         /\ file' = [f \in Files |-> CASE f \in S -> NewFile(Does(q).bot)
                                       [] f \in T -> [file[f] EXCEPT !.object = TRUE] [] OTHER -> file[f]]
   BY <2>1 DEF StoresSome
 <2>4. S = {}
  <3>1. OwnRows(plan) BY PlanAssumption DEF Typed, Types
  <3>2. PICK f \in Files : Does(q).files = {f} BY <2>1, <2>2, <3>1 DEF OwnRows, Does
  <3> QED BY <2>3, <3>2
 <2>5. \A f \in Files : file'[f] = file[f] \/ file'[f] = [file[f] EXCEPT !.object = TRUE] BY <2>3, <2>4
 <2>6. \A f \in Files : file'[f].status = file[f].status /\ file'[f].deleted = file[f].deleted
   BY <1>0, <2>5 DEF FileRow
 <2> QED BY <2>6 DEF KeptStay, IsRow
<1>3. ASSUME NEW q \in Calls, DeleteObject(q)  PROVE KeptStay
 <2>1. \A f \in Files : file'[f] = file[f] \/ file'[f] = [file[f] EXCEPT !.object = FALSE] BY <1>3 DEF DeleteObject
 <2>2. \A f \in Files : file'[f].status = file[f].status /\ file'[f].deleted = file[f].deleted
   BY <1>0, <2>1 DEF FileRow
 <2> QED BY <2>2 DEF KeptStay, IsRow
<1>4. ASSUME NEW q \in Calls, DeleteRow(q), file' # file
      PROVE  call'[q].pc = "lower" /\ call'[q].seen = used /\ RowsGo(q)
  BY <1>4, DeleteRowCall
<1>5. ASSUME NEW q \in Calls, MarkFiles(q)  PROVE KeptStay
 <2>1. \A f \in Files : file'[f] = file[f] \/ (IsRow(f) /\ file'[f] = [file[f] EXCEPT !.status = "BEING_DELETED"])
   BY <1>5, MarkFilesCall
 <2>2. \A f \in Files : /\ file'[f].deleted = file[f].deleted
                        /\ file'[f].status = file[f].status \/ (IsRow(f) /\ file'[f].status = "BEING_DELETED")
   BY <1>0, <2>1 DEF FileRow
 <2> QED BY <2>2 DEF KeptStay, IsRow
<1>6. ASSUME NEW q \in Calls, HideAttachment(q), file' # file
      PROVE  call'[q].pc = "decrement" /\ RowsHide(q)
  BY <1>6, HideAttachmentCall
<1>7. ASSUME NEW q \in Calls, NEW f \in Files, DeleteNext(q, f), file' # file
      PROVE  \/ KeptStay
             \/ call'[q].cut = call[q].cut \cup {f} /\ IsRow(f) /\ file' = [file EXCEPT ![f] = NoFile]
 <2>1. CASE IsRow(f) /\ file' = [file EXCEPT ![f].status = "INDEXED"]
  <3>1. \A g \in Files : file'[g] = file[g] \/ (g = f /\ file'[g] = [file[f] EXCEPT !.status = "INDEXED"]) BY <1>0, <2>1
  <3> QED BY <1>0, <2>1, <3>1 DEF KeptStay, IsRow, FileRow
 <2> QED BY <1>7, <2>1, DeleteNextCall
<1>8. ASSUME NEW b \in Bots, SweepObject(b) \/ SweepRow(b)  PROVE FALSE BY <1>8, CleanupLoses
<1>9. ASSUME NEW q \in Calls, DropObject(q)  PROVE KeptStay
 <2>1. PICK g \in Files : file' = [file EXCEPT ![g].object = FALSE] BY <1>9, DropObjectCall
 <2>2. \A f \in Files : file'[f] = file[f] \/ file'[f] = [file[f] EXCEPT !.object = FALSE] BY <1>0, <2>1
 <2> QED BY <1>0, <2>2 DEF KeptStay, IsRow, FileRow
<1> QED BY <1>1, <1>2, <1>3, <1>4, <1>5, <1>6, <1>7, <1>8, <1>9, FileSteps

\* The books of the other calls stay.
LEMMA OthersBook ==
  ASSUME Typed, Next, NEW q \in Calls, Becomes(q, call'[q])
  PROVE  \A r \in Calls \ {q} : UncountedOf(r)' = UncountedOf(r) /\ OwedOf(r)' = OwedOf(r)
<1>1. \A r \in Calls \ {q} : call'[r] = call[r] BY OthersStay
<1>2. plan' = plan BY PlanStays
<1> QED BY <1>1, <1>2 DEF UncountedOf, OwedOf, Does

\* A call's part of the books.
LEMMA BookTypes ==
  ASSUME Typed, NEW q \in Calls
  PROVE  /\ UncountedOf(q) \subseteq Does(q).files /\ UncountedOf(q) \subseteq Uncounted
         /\ OwedOf(q) \subseteq Does(q).files /\ OwedOf(q) \subseteq Owed
         /\ UncountedOf(q) # {} => Active(q) /\ Does(q).op \in Uploads
         /\ OwedOf(q) # {} => Active(q) /\ Does(q).op \in FileDeletes /\ OwedOf(q) \subseteq call[q].rows
         /\ Does(q).files \subseteq Files
<1>1. Does(q).files \subseteq Files /\ InPlace(q, call[q]) /\ Keeps(q, call[q], DOMAIN page) /\ Does(q).op \in Ops
  BY CallTypes
<1>2. UncountedOf(q) # {} => call[q].pc = "count" BY DEF UncountedOf
<1>3. OwedOf(q) # {} => call[q].pc \in {"lower", "decrement", "files"} BY DEF OwedOf
<1>4. call[q].pc = "count" => Does(q).op \in Uploads BY <1>1 DEF InPlace, Ops, Uploads, Forgets, Over
<1>5. call[q].pc \in {"lower", "decrement", "files"} => Does(q).op \in FileDeletes
  BY <1>1 DEF InPlace, Ops, Uploads, Forgets, Over, FileDeletes
<1>6. Does(q).op \in FileDeletes => call[q].rows \subseteq Does(q).files /\ OwedOf(q) \subseteq call[q].rows
  BY <1>1 DEF Keeps, OwedOf
<1>7. UncountedOf(q) \subseteq Does(q).files BY DEF UncountedOf
<1>8. OwedOf(q) \subseteq Does(q).files BY <1>3, <1>5, <1>6
<1>9. call[q].pc \in {"count", "lower", "decrement", "files"} => Active(q) BY OnItsWay DEF Over
<1> QED BY <1>1, <1>2, <1>3, <1>4, <1>5, <1>6, <1>7, <1>8, <1>9 DEF Uncounted, Owed

\* The books when no call's part of them changes.
LEMMA BooksStand ==
  ASSUME \A q \in Calls : UncountedOf(q)' = UncountedOf(q) /\ OwedOf(q)' = OwedOf(q)
  PROVE  Uncounted' = Uncounted /\ Owed' = Owed
  BY DEF Uncounted, Owed

\* The books when those of one call do.
LEMMA BooksMove ==
  ASSUME NEW q \in Calls, \A r \in Calls \ {q} : UncountedOf(r)' = UncountedOf(r) /\ OwedOf(r)' = OwedOf(r)
  PROVE  /\ \A f \in Files : f \in Uncounted' <=> f \in UncountedOf(q)' \/ \E r \in Calls \ {q} : f \in UncountedOf(r)
         /\ \A f \in Files : f \in Owed' <=> f \in OwedOf(q)' \/ \E r \in Calls \ {q} : f \in OwedOf(r)
         /\ \A f \in Files : f \in Uncounted <=> f \in UncountedOf(q) \/ \E r \in Calls \ {q} : f \in UncountedOf(r)
         /\ \A f \in Files : f \in Owed <=> f \in OwedOf(q) \/ \E r \in Calls \ {q} : f \in OwedOf(r)
         /\ Uncounted \subseteq Files /\ Owed \subseteq Files /\ Uncounted' \subseteq Files /\ Owed' \subseteq Files
  BY DEF Uncounted, Owed

--------------------
(* What a step does to the books while nothing is lost *)

Sound == Typed /\ Ordered /\ Cleared /\ Made /\ Truth /\ ~Lost

\* The files of an upload under way are not there yet.
LEMMA NotStoredYet ==
  ASSUME Typed, Made, NEW q \in Calls, Does(q).op \in Uploads, call[q].pc \in Early, NEW f \in Does(q).files
  PROVE  ~IsRow(f) /\ \A r \in Calls : Does(r).op \in FileDeletes => f \notin call[r].rows
<1>1. OwnRows(plan) /\ f \in Files BY CallTypes, PlanAssumption DEF Typed, Types
<1>2. f \notin plan.stored /\ \A r \in Calls \ {q} : Does(r).op \in Uploads => f \notin Does(r).files
  BY <1>1 DEF OwnRows, Does
<1>3. ~Stored(f) BY <1>2 DEF Stored
<1> QED BY <1>1, <1>3 DEF Made

\* What storing files leaves of the books, and what counting them does.
Stores(F) ==
  /\ KeptFiles' = KeptFiles \cup F /\ Uncounted' = Uncounted \cup F /\ Owed' = Owed
  /\ F \cap (KeptFiles \cup Owed) = {} /\ used' = used /\ vectors' = vectors
CountsIn(F) ==
  /\ KeptFiles' = KeptFiles /\ Uncounted' = Uncounted \ F /\ Owed' = Owed /\ F \subseteq Uncounted
  /\ used' = used + SizeOf(F) /\ vectors' = vectors

\* An upload stores files nobody has counted.
LEMMA StoreBook ==
  ASSUME Sound, Next, NEW q \in Calls, StoreFiles(q), call'[q].pc = "count", StoresAll(q)
  PROVE  Stores(Does(q).files) /\ \A f \in Files : file'[f].deleted => file[f].deleted
<1>1. /\ Becomes(q, call'[q]) /\ call[q].pc = "store" /\ Does(q).op \in Uploads /\ call'[q].pc = "count"
      /\ plan' = plan /\ Does(q).files \subseteq Files
  BY StoreFilesCall, PlanStays, CallTypes DEF Sound, Uploads
<1>2. \A f \in Does(q).files : ~IsRow(f) /\ \A r \in Calls : Does(r).op \in FileDeletes => f \notin call[r].rows
  BY <1>1, NotStoredYet DEF Sound, Early
<1>3. \A r \in Calls : OwedOf(r) \cap Does(q).files = {}
 <2> SUFFICES ASSUME NEW r \in Calls, NEW f \in OwedOf(r), f \in Does(q).files  PROVE FALSE OBVIOUS
 <2> QED BY <1>2, BookTypes DEF Sound
<1>4. file' = [f \in Files |-> IF f \in Does(q).files THEN NewFile(Does(q).bot) ELSE file[f]] BY DEF StoresAll
<1>5. \A f \in Files : IF f \in Does(q).files THEN file'[f].status = "UPLOADED" /\ ~file'[f].deleted
                                               ELSE file'[f] = file[f]
  BY <1>4 DEF NewFile
<1>6. KeptFiles' = KeptFiles \cup Does(q).files BY <1>1, <1>5 DEF KeptFiles, IsRow
<1>7. \A r \in Calls \ {q} : UncountedOf(r)' = UncountedOf(r) /\ OwedOf(r)' = OwedOf(r) BY <1>1, OthersBook DEF Sound
<1>8. UncountedOf(q)' = Does(q).files /\ UncountedOf(q) = {} /\ OwedOf(q)' = {} /\ OwedOf(q) = {}
  BY <1>1 DEF UncountedOf, OwedOf, Does
<1>9. Uncounted' = Uncounted \cup Does(q).files /\ Owed' = Owed
 <2>1. /\ \A f \in Files : f \in Uncounted' <=> f \in UncountedOf(q)' \/ \E r \in Calls \ {q} : f \in UncountedOf(r)
       /\ \A f \in Files : f \in Owed' <=> f \in OwedOf(q)' \/ \E r \in Calls \ {q} : f \in OwedOf(r)
       /\ \A f \in Files : f \in Uncounted <=> f \in UncountedOf(q) \/ \E r \in Calls \ {q} : f \in UncountedOf(r)
       /\ \A f \in Files : f \in Owed <=> f \in OwedOf(q) \/ \E r \in Calls \ {q} : f \in OwedOf(r)
       /\ Uncounted \subseteq Files /\ Owed \subseteq Files /\ Uncounted' \subseteq Files /\ Owed' \subseteq Files
   BY <1>7, BooksMove
 <2> QED BY <1>1, <1>8, <2>1
<1>10. Does(q).files \cap (KeptFiles \cup Owed) = {} BY <1>2, <1>3 DEF KeptFiles, Owed
<1>11. used' = used /\ vectors' = vectors BY DEF StoreFiles, content
<1> QED BY <1>5, <1>6, <1>9, <1>10, <1>11 DEF Stores

\* An upload counts what it has stored.
LEMMA CountBook ==
  ASSUME Sound, Next, NEW q \in Calls, CountUpload(q)
  PROVE  CountsIn(Does(q).files) /\ file' = file
<1>1. /\ Becomes(q, call'[q]) /\ call[q].pc = "count" /\ call'[q].pc = "unlock" /\ Does(q).op \in Uploads
      /\ plan' = plan /\ Does(q).files \subseteq Files /\ plan \in Plans /\ used \in Int
  BY CountUploadCall, PlanStays, CallTypes DEF Sound, Uploads
<1>2. \A r \in Calls \ {q} : UncountedOf(r)' = UncountedOf(r) /\ OwedOf(r)' = OwedOf(r) BY <1>1, OthersBook DEF Sound
<1>3. UncountedOf(q) = Does(q).files /\ UncountedOf(q)' = {} /\ OwedOf(q)' = {} /\ OwedOf(q) = {}
  BY <1>1 DEF UncountedOf, OwedOf
<1>4. OwnRows(plan) BY <1>1, PlanAssumption
<1>5. \A r \in Calls \ {q} : UncountedOf(r) \cap Does(q).files = {}
 <2> SUFFICES ASSUME NEW r \in Calls \ {q}, UncountedOf(r) # {}  PROVE UncountedOf(r) \cap Does(q).files = {} OBVIOUS
 <2>1. Does(r).op \in Uploads /\ UncountedOf(r) \subseteq Does(r).files BY BookTypes DEF Sound
 <2>2. Does(r).files \cap Does(q).files = {} BY <1>1, <1>4, <2>1 DEF OwnRows, Does
 <2> QED BY <2>1, <2>2
<1>6. Uncounted' = Uncounted \ Does(q).files /\ Owed' = Owed /\ Does(q).files \subseteq Uncounted
 <2>1. /\ \A f \in Files : f \in Uncounted' <=> f \in UncountedOf(q)' \/ \E r \in Calls \ {q} : f \in UncountedOf(r)
       /\ \A f \in Files : f \in Owed' <=> f \in OwedOf(q)' \/ \E r \in Calls \ {q} : f \in OwedOf(r)
       /\ \A f \in Files : f \in Uncounted <=> f \in UncountedOf(q) \/ \E r \in Calls \ {q} : f \in UncountedOf(r)
       /\ \A f \in Files : f \in Owed <=> f \in OwedOf(q) \/ \E r \in Calls \ {q} : f \in OwedOf(r)
       /\ Uncounted \subseteq Files /\ Owed \subseteq Files /\ Uncounted' \subseteq Files /\ Owed' \subseteq Files
   BY <1>2, BooksMove
 <2> QED BY <1>1, <1>3, <1>5, <2>1
<1>7. file' = file /\ vectors' = vectors BY DEF CountUpload, content
<1>8. KeptFiles' = KeptFiles BY <1>7 DEF KeptFiles, IsRow
<1>9. used' = used + SizeOf(Does(q).files)
 <2>1. used' = SizeOf(Does(q).files) + (IF Does(q).op = "upload" THEN call[q].seen ELSE used) BY DEF CountUpload
 <2>2. Does(q).op = "upload" => call[q].seen = used BY <1>1 DEF Sound, Truth, Counts
 <2>3. SizeOf(Does(q).files) \in Nat BY <1>1, Sizes
 <2> QED BY <1>1, <2>1, <2>2, <2>3
<1> QED BY <1>6, <1>7, <1>8, <1>9 DEF CountsIn

\* Whoever is about to take a row away shares it with no upload or other deletion.
LEMMA NobodyElse ==
  ASSUME Sound, NEW q \in Calls, Active(q), Does(q).op \in FileDeletes, NEW f \in Files, f \in call[q].rows
  PROVE  \A r \in Calls \ {q} : f \notin UncountedOf(r) /\ f \notin OwedOf(r)
<1> SUFFICES ASSUME NEW r \in Calls \ {q}, f \in UncountedOf(r) \/ f \in OwedOf(r)  PROVE FALSE OBVIOUS
<1>1. Active(r) /\ f \in Does(r).files /\ Does(r).op \in Uploads \cup FileDeletes BY BookTypes DEF Sound
<1>2. f \in Does(q).files BY CallTypes DEF Sound, Keeps
<1>3. Does(r).op \in CountsFiles BY <1>1 DEF CountsFiles, FileDeletes
<1> QED BY <1>1, <1>2, <1>3, TwoActive DEF Sound, Ordered

\* A row an overwriting deletion is about to take is not hidden.
LEMMA NotHidden ==
  ASSUME Sound, NEW q \in Calls, Does(q).op \in {"deleteFile", "deleteFiles"}, NEW f \in Files, f \in call[q].rows
  PROVE  ~file[f].deleted
<1> SUFFICES ASSUME file[f].deleted  PROVE FALSE OBVIOUS
<1>1. PICK r \in Calls : Does(r).op = "deleteAttachment" /\ f \in call[r].rows BY DEF Sound, Truth, Hidden
<1>2. Twice(r, q) BY <1>1 DEF Twice
<1> QED BY <1>2 DEF Sound, Lost

\* What a step that takes rows away, or hides them, leaves of the books.
Takes(R) ==
  /\ KeptFiles' = KeptFiles \ R /\ Uncounted' = Uncounted /\ Owed' = Owed \cup R
  /\ R \subseteq KeptFiles /\ R \cap Uncounted = {} /\ R \cap Owed = {} /\ used' = used /\ vectors' = vectors

\* A deletion takes rows away.
LEMMA TakeBook ==
  ASSUME Sound, Next, NEW q \in Calls, Becomes(q, call'[q]), Active(q), Does(q).op \in FileDeletes,
         NEW R \in SUBSET call[q].rows, R \subseteq KeptFiles, KeptFiles' = KeptFiles \ R,
         UncountedOf(q) = {}, UncountedOf(q)' = {}, OwedOf(q)' = OwedOf(q) \cup R,
         used' = used, vectors' = vectors
  PROVE  Takes(R)
<1>1. \A r \in Calls \ {q} : UncountedOf(r)' = UncountedOf(r) /\ OwedOf(r)' = OwedOf(r) BY OthersBook DEF Sound
<1>2. /\ \A f \in Files : f \in Uncounted' <=> f \in UncountedOf(q)' \/ \E r \in Calls \ {q} : f \in UncountedOf(r)
      /\ \A f \in Files : f \in Owed' <=> f \in OwedOf(q)' \/ \E r \in Calls \ {q} : f \in OwedOf(r)
      /\ \A f \in Files : f \in Uncounted <=> f \in UncountedOf(q) \/ \E r \in Calls \ {q} : f \in UncountedOf(r)
      /\ \A f \in Files : f \in Owed <=> f \in OwedOf(q) \/ \E r \in Calls \ {q} : f \in OwedOf(r)
      /\ Uncounted \subseteq Files /\ Owed \subseteq Files /\ Uncounted' \subseteq Files /\ Owed' \subseteq Files
  BY <1>1, BooksMove
<1>3. R \subseteq Files BY DEF KeptFiles
<1>4. Uncounted' = Uncounted BY <1>2
<1>5. Owed' = Owed \cup R BY <1>2, <1>3
<1>6. R \cap Uncounted = {} BY <1>2, <1>3, NobodyElse
<1>7. R \cap Owed = {} BY DEF Sound, Truth
<1> QED BY <1>4, <1>5, <1>6, <1>7 DEF Takes

\* The deletion of a file takes its row away.
LEMMA RowBook ==
  ASSUME Sound, Next, NEW q \in Calls, DeleteRow(q), call'[q].pc = "lower", RowsGo(q)
  PROVE  Takes(call[q].rows) /\ \A f \in Files : file'[f].deleted => file[f].deleted
<1>1. /\ Becomes(q, call'[q]) /\ call[q].pc = "row" /\ Does(q).op = "deleteFile" /\ call'[q].rows = call[q].rows
      /\ call[q].rows \subseteq Files
  BY DeleteRowCall, CallTypes DEF Sound, Keeps, FileDeletes
<1>2. Active(q) /\ Does(q).op \in FileDeletes BY <1>1, OnItsWay DEF Over, FileDeletes
<1>3. \A f \in call[q].rows : IsRow(f) /\ ~file[f].deleted BY <1>1, NotHidden DEF RowsGo
<1>4. \A f \in Files : file'[f] = IF f \in call[q].rows THEN NoFile ELSE file[f] BY DEF RowsGo
<1>5. KeptFiles' = KeptFiles \ call[q].rows BY <1>4 DEF KeptFiles, IsRow, NoFile
<1>6. call[q].rows \subseteq KeptFiles BY <1>1, <1>3 DEF KeptFiles
<1>7. UncountedOf(q) = {} /\ UncountedOf(q)' = {} /\ OwedOf(q)' = OwedOf(q) \cup call[q].rows
  BY <1>1 DEF UncountedOf, OwedOf
<1>8. used' = used /\ vectors' = vectors BY DEF DeleteRow, content
<1>9. Takes(call[q].rows) BY <1>1, <1>2, <1>5, <1>6, <1>7, <1>8, TakeBook
<1> QED BY <1>4, <1>9 DEF NoFile

\* A bulk deletion takes one of its rows away.
LEMMA NextBook ==
  ASSUME Sound, Next, NEW q \in Calls, NEW f \in Files, DeleteNext(q, f), call'[q].cut = call[q].cut \cup {f}, IsRow(f),
         file' = [file EXCEPT ![f] = NoFile]
  PROVE  Takes({f}) /\ \A g \in Files : file'[g].deleted => file[g].deleted
<1>1. /\ Becomes(q, call'[q]) /\ call[q].pc = "files" /\ call'[q].pc = "files" /\ Does(q).op = "deleteFiles"
      /\ f \in call[q].left
  BY DeleteNextCall DEF Sound
<1>2. Active(q) /\ Does(q).op \in FileDeletes BY <1>1, OnItsWay DEF Over, FileDeletes
<1>3. f \in call[q].rows BY <1>1, <1>2, CallTypes DEF Sound, Keeps
<1>4. ~file[f].deleted BY <1>1, <1>3, NotHidden
<1>5. \A g \in Files : file'[g] = IF g = f THEN NoFile ELSE file[g] BY DEF Sound, Typed, Types
<1>6. KeptFiles' = KeptFiles \ {f} BY <1>5 DEF KeptFiles, IsRow, NoFile
<1>7. {f} \subseteq KeptFiles BY <1>4 DEF KeptFiles
<1>8. UncountedOf(q) = {} /\ UncountedOf(q)' = {} /\ OwedOf(q)' = OwedOf(q) \cup {f} BY <1>1 DEF UncountedOf, OwedOf
<1>9. used' = used /\ vectors' = vectors BY DEF DeleteNext, content
<1>10. {f} \in SUBSET call[q].rows BY <1>3
<1>11. Takes({f}) BY <1>1, <1>2, <1>6, <1>7, <1>8, <1>9, <1>10, TakeBook
<1> QED BY <1>5, <1>11 DEF NoFile

\* The deletion of an attachment hides its row.
LEMMA HideBook ==
  ASSUME Sound, Next, NEW q \in Calls, HideAttachment(q), call'[q].pc = "decrement", RowsHide(q)
  PROVE  Takes(call[q].rows) /\ \A f \in Files : file'[f].deleted => file[f].deleted \/ f \in call[q].rows
<1>1. /\ Becomes(q, call'[q]) /\ call[q].pc = "hide" /\ Does(q).op = "deleteAttachment" /\ call'[q].rows = call[q].rows
      /\ call[q].rows \subseteq Files /\ file \in [Files -> FileRow]
  BY HideAttachmentCall, CallTypes DEF Sound, Keeps, FileDeletes, Typed, Types
<1>2. Active(q) /\ Does(q).op \in FileDeletes BY <1>1, OnItsWay DEF Over, FileDeletes
<1>3. \A f \in call[q].rows : IsRow(f) /\ ~file[f].deleted BY <1>1 DEF RowsHide, Sound, Truth, Seeking
<1>4. file' = [f \in Files |-> IF f \in call[q].rows THEN [file[f] EXCEPT !.deleted = TRUE] ELSE file[f]]
  BY DEF RowsHide
<1>5. \A f \in Files : IF f \in call[q].rows THEN file'[f].deleted ELSE file'[f] = file[f] BY <1>1, <1>4 DEF FileRow
<1>6. KeptFiles' = KeptFiles \ call[q].rows BY <1>5 DEF KeptFiles, IsRow
<1>7. call[q].rows \subseteq KeptFiles BY <1>1, <1>3 DEF KeptFiles
<1>8. UncountedOf(q) = {} /\ UncountedOf(q)' = {} /\ OwedOf(q)' = OwedOf(q) \cup call[q].rows
  BY <1>1 DEF UncountedOf, OwedOf
<1>9. used' = used /\ vectors' = vectors BY DEF HideAttachment, content
<1>10. Takes(call[q].rows) BY <1>1, <1>2, <1>6, <1>7, <1>8, <1>9, TakeBook
<1> QED BY <1>5, <1>10

\* What a step that lowers the counter leaves of the books.
PaysOff(R) ==
  /\ KeptFiles' = KeptFiles /\ Uncounted' = Uncounted /\ Owed' = Owed \ R /\ R \subseteq Owed
  /\ Gap >= 0 => used' = used - SizeOf(R)
  /\ vectors' = vectors

\* A deletion takes what it owes off the counter.
LEMMA LowerBook ==
  ASSUME Sound, Next, NEW q \in Calls, LowerUsage(q) \/ DecrementUsage(q)
  PROVE  PaysOff(call[q].rows) /\ file' = file
<1>1. /\ Becomes(q, call'[q]) /\ call[q].pc \in {"lower", "decrement"} /\ call'[q].pc = "done"
      /\ Does(q).op \in FileDeletes /\ call[q].rows \subseteq Files /\ plan \in Plans /\ used \in Int
 <2>1. /\ Becomes(q, call'[q]) /\ call[q].pc \in {"lower", "decrement"} /\ call'[q].pc = "done"
       /\ Does(q).op \in FileDeletes
   BY LowerUsageCall, DecrementUsageCall DEF Sound, FileDeletes
 <2> QED BY <2>1, CallTypes DEF Sound, Keeps
<1>2. Active(q) BY <1>1, OnItsWay DEF Over
<1>3. \A r \in Calls \ {q} : UncountedOf(r)' = UncountedOf(r) /\ OwedOf(r)' = OwedOf(r) BY <1>1, OthersBook DEF Sound
<1>4. /\ \A f \in Files : f \in Uncounted' <=> f \in UncountedOf(q)' \/ \E r \in Calls \ {q} : f \in UncountedOf(r)
      /\ \A f \in Files : f \in Owed' <=> f \in OwedOf(q)' \/ \E r \in Calls \ {q} : f \in OwedOf(r)
      /\ \A f \in Files : f \in Uncounted <=> f \in UncountedOf(q) \/ \E r \in Calls \ {q} : f \in UncountedOf(r)
      /\ \A f \in Files : f \in Owed <=> f \in OwedOf(q) \/ \E r \in Calls \ {q} : f \in OwedOf(r)
      /\ Uncounted \subseteq Files /\ Owed \subseteq Files /\ Uncounted' \subseteq Files /\ Owed' \subseteq Files
  BY <1>3, BooksMove
<1>5. UncountedOf(q) = {} /\ UncountedOf(q)' = {} /\ OwedOf(q)' = {} /\ OwedOf(q) = call[q].rows
  BY <1>1 DEF UncountedOf, OwedOf
<1>6. \A f \in call[q].rows : \A r \in Calls \ {q} : f \notin OwedOf(r) BY <1>1, <1>2, NobodyElse
<1>7. Uncounted' = Uncounted BY <1>4, <1>5
<1>8. call[q].rows \subseteq Owed BY <1>1, <1>4, <1>5
<1>9. Owed' = Owed \ call[q].rows BY <1>4, <1>5, <1>6
<1>10. file' = file /\ vectors' = vectors BY DEF LowerUsage, DecrementUsage, content
<1>11. KeptFiles' = KeptFiles BY <1>10 DEF KeptFiles, IsRow
<1>12. ASSUME Gap >= 0  PROVE used' = used - SizeOf(call[q].rows)
 <2>1. Booked \in SUBSET Files /\ call[q].rows \in SUBSET Booked BY <1>8 DEF Booked, KeptFiles, Owed
 <2>2. SizeOf(call[q].rows) \in Nat /\ SizeOf(Booked) \in Nat /\ SizeOf(call[q].rows) <= SizeOf(Booked)
   BY <1>1, <2>1, Sizes
 <2>3. Cardinality(vectors) \in Nat BY IndexFinite DEF Sound, Typed, Types
 <2>4. used >= SizeOf(call[q].rows) BY <1>1, <1>12, <2>2, <2>3 DEF Gap
 <2>5. CASE LowerUsage(q)
  <3>1. call[q].pc = "lower" /\ used' = IF call[q].seen < SizeOf(call[q].rows) THEN 0 ELSE call[q].seen - SizeOf(call[q].rows)
    BY <2>5 DEF LowerUsage, Ends, Moves, Lower
  <3>2. call[q].seen = used BY <3>1 DEF Sound, Truth, Counts
  <3> QED BY <1>1, <2>2, <2>4, <3>1, <3>2
 <2>6. CASE DecrementUsage(q) BY <2>6 DEF DecrementUsage
 <2> QED BY <2>5, <2>6
<1> QED BY <1>7, <1>8, <1>9, <1>10, <1>11, <1>12 DEF PaysOff

\* The ingestion service counts what it indexes, and no longer what it forgets.
LEMMA IndexCounts ==
  ASSUME Typed, Next, (\E q \in Calls, i \in DOMAIN page : ForgetOne(q, i)) \/ \E t \in DOMAIN task : FinishTask(t)
  PROVE  used' - Cardinality(vectors') = used - Cardinality(vectors)
<1>1. vectors \subseteq Bots \X Urls /\ used \in Int /\ IsFiniteSet(vectors) /\ Cardinality(vectors) \in Nat
  BY IndexFinite DEF Typed, Types
<1>2. ASSUME NEW q \in Calls, NEW i \in DOMAIN page, ForgetOne(q, i)
      PROVE  used' - Cardinality(vectors') = used - Cardinality(vectors)
 <2>1. Forgotten(Pairs({i})) \/ (vectors' = vectors /\ used' = used) BY <1>2, ForgetOneCall
 <2>2. CASE Forgotten(Pairs({i}))
  <3> DEFINE P == Pairs({i})
  <3>1. vectors' = vectors \ P /\ used' = used - Cardinality(vectors \cap P) BY <2>2 DEF Forgotten
  <3> HIDE DEF P
  <3>2. vectors \ P \subseteq Bots \X Urls /\ vectors \cap P \subseteq Bots \X Urls BY <1>1
  <3>3. /\ IsFiniteSet(vectors \ P) /\ IsFiniteSet(vectors \cap P)
        /\ Cardinality(vectors \ P) \in Nat /\ Cardinality(vectors \cap P) \in Nat
    BY <3>2, IndexFinite
  <3>4. Cardinality(vectors \ P) = Cardinality(vectors) - Cardinality(vectors \cap P) BY <1>1, FS_Difference
  <3> QED BY <1>1, <3>1, <3>3, <3>4
 <2> QED BY <2>1, <2>2
<1>3. ASSUME NEW t \in DOMAIN task, FinishTask(t)
      PROVE  used' - Cardinality(vectors') = used - Cardinality(vectors)
 <2> DEFINE P == Pairs(Owned(t))
 <2>1. P \subseteq Bots \X Urls BY PairTypes DEF Owned
 <2>2. vectors' = vectors \cup P /\ used' = used + Cardinality(P \ vectors) BY <1>3 DEF FinishTask
 <2> HIDE DEF P
 <2>3. P \ vectors \subseteq Bots \X Urls BY <2>1
 <2>4. IsFiniteSet(P \ vectors) /\ Cardinality(P \ vectors) \in Nat BY <2>3, IndexFinite
 <2>5. vectors' = vectors \cup (P \ vectors) /\ vectors \cap (P \ vectors) = {} BY <2>2
 <2>6. Cardinality(vectors') = Cardinality(vectors) + Cardinality(P \ vectors)
   BY <1>1, <2>4, <2>5, FS_Union, FS_EmptySet
 <2> QED BY <1>1, <2>2, <2>4, <2>6
<1> QED BY <1>2, <1>3

\* A call's part of the books stays in every other step of it.
LEMMA OwnBookStays ==
  ASSUME Sound, ~Lost', Next, NEW q \in Calls, call'[q] # call[q], ~CountUpload(q), ~LowerUsage(q), ~DecrementUsage(q), ~Die(q),
         ~(StoreFiles(q) /\ call'[q].pc = "count"), ~(DeleteRow(q) /\ call'[q].pc = "lower"),
         ~(HideAttachment(q) /\ call'[q].pc = "decrement"),
         ~\E f \in Files : DeleteNext(q, f) /\ call'[q].cut = call[q].cut \cup {f}
  PROVE  UncountedOf(q)' = UncountedOf(q) /\ OwedOf(q)' = OwedOf(q)
<1> DEFINE Booking == {"count", "lower", "decrement", "files"}
<1>1. call[q].pc \notin Booking /\ call'[q].pc \notin Booking => UncountedOf(q)' = UncountedOf(q) /\ OwedOf(q)' = OwedOf(q)
  BY DEF UncountedOf, OwedOf
<1>2. /\ plan' = plan /\ Does(q)' = Does(q) /\ Typed /\ InPlace(q, call[q]) /\ Keeps(q, call[q], DOMAIN page)
      /\ Does(q).op \in Ops
  BY PlanStays, CallTypes, CallStays DEF Sound
<1>3. CASE TestLock(q) \/ SetLock(q) \/ CheckQuota(q) \/ StoreFiles(q) \/ ReleaseLock(q)
 <2>1. call[q].pc \notin Booking /\ call'[q].pc \notin Booking
  <3>1. CASE StoreFiles(q) BY <1>2, <3>1, StoreFilesCall
  <3>2. CASE TestLock(q) \/ SetLock(q) \/ CheckQuota(q) \/ ReleaseLock(q)
    BY <1>2, <3>2, TestLockCall, SetLockCall, CheckQuotaCall, ReleaseLockCall
  <3> QED BY <1>3, <3>1, <3>2
 <2> QED BY <1>1, <2>1
<1>4. CASE FindFile(q) \/ DeleteObject(q) \/ DeleteRow(q) \/ FindAttachment(q) \/ HideAttachment(q)
 <2>1. call[q].pc \notin Booking /\ call'[q].pc \notin Booking
   BY <1>2, <1>4, FindFileCall, DeleteObjectCall, DeleteRowCall, FindAttachmentCall, HideAttachmentCall
 <2> QED BY <1>1, <2>1
<1>5. CASE MarkFiles(q)
 <2>1. call[q].pc = "new" /\ call'[q].pc \in {"done", "files"} /\ call'[q].cut = call[q].cut
   BY <1>2, <1>5, MarkFilesCall
 <2>2. call'[q].cut = {} BY <1>2, <2>1 DEF Keeps, Idle
 <2> QED BY <2>1, <2>2 DEF UncountedOf, OwedOf
<1>6. CASE ReadBulk(q)
 <2>1. /\ call[q].pc = "files" /\ Does(q).op = "deleteFiles" /\ call'[q].rows = call[q].rows /\ call[q].left = {}
       /\ call'[q].pc = "lower" \/ (call'[q].pc = "done" /\ call[q].cut = {})
   BY <1>2, <1>6, ReadBulkCall
 <2>2. call[q].cut \cup call[q].left = call[q].rows BY <2>1 DEF Sound, Lost
 <2> QED BY <2>1, <2>2 DEF UncountedOf, OwedOf
<1>7. ASSUME NEW f \in Files, DeleteNext(q, f)  PROVE FALSE
 <2>1. /\ Does(q).op = "deleteFiles" /\ f \in call[q].left /\ call'[q].left = call[q].left \ {f}
       /\ call'[q].cut = call[q].cut /\ Becomes(q, call'[q])
   BY <1>2, <1>7, DeleteNextCall
 <2>2. f \in call[q].rows /\ f \notin call[q].cut BY <1>2, <2>1 DEF Keeps, FileDeletes
 <2>3. call'[q].rows = call[q].rows BY <1>2, <1>7, <2>1, DeleteNextCall DEF Becomes, FileDeletes
 <2>4. call'[q].cut \cup call'[q].left # call'[q].rows BY <2>1, <2>2, <2>3
 <2> QED BY <1>2, <2>1, <2>4 DEF Lost
<1>8. CASE ReadBots(q) \/ CreateBot(q) \/ CountBot(q) \/ FindBot(q) \/ DeleteBot(q) \/ ReadBotQuota(q) \/ UncountBot(q)
 <2>1. call[q].pc \notin Booking /\ call'[q].pc \notin Booking
   BY <1>2, <1>8, ReadBotsCall, CreateBotCall, CountBotCall, FindBotCall, DeleteBotCall, ReadBotQuotaCall, UncountBotCall
 <2> QED BY <1>1, <2>1
<1>9. CASE AddPages(q) \/ ResetRows(q) \/ Dispatch(q) \/ OpenRows(q) \/ Forgot(q)
 <2>1. call[q].pc \notin Booking /\ call'[q].pc \notin Booking
   BY <1>2, <1>9, AddPagesCall, ResetRowsCall, DispatchCall, OpenRowsCall, ForgotCall
 <2> QED BY <1>1, <2>1
<1>10. CASE (\E u \in Urls : CreateRow(q, u)) \/ \E i \in DOMAIN page : ForgetOne(q, i)
 <2>1. call[q].pc \notin Booking /\ call'[q].pc \notin Booking BY <1>2, <1>10, CreateRowCall, ForgetOneCall
 <2> QED BY <1>1, <2>1
<1>11. Typed BY <1>2
<1>12. CASE DropObject(q)
 <2>1. call[q].pc = "files" /\ call'[q].pc = "files" /\ call'[q].cut = call[q].cut BY <1>2, <1>12, DropObjectCall
 <2> QED BY <2>1 DEF UncountedOf, OwedOf
<1> QED BY <1>3, <1>4, <1>5, <1>6, <1>7, <1>8, <1>9, <1>10, <1>11, <1>12, MoverSteps

\* The books stand, but for what a pod that dies leaves.
Stands ==
  /\ KeptFiles' = KeptFiles /\ Uncounted' \subseteq Uncounted /\ Owed' \subseteq Owed
  /\ LostOrDead' \/ Uncounted' = Uncounted
  /\ AnyDead' \/ Owed' = Owed
  /\ used' - Cardinality(vectors') = used - Cardinality(vectors)

\* A call whose pod dies owes nothing any more.
LEMMA DieBook ==
  ASSUME Sound, Next, NEW q \in Calls, Die(q)
  PROVE  Stands
<1>1. /\ Becomes(q, call'[q]) /\ call'[q].pc = "dead" /\ plan' = plan /\ Does(q)' = Does(q)
  BY DieCall, PlanStays, CallStays DEF Sound
<1>2. Does(q).op \in Uploads => LostOrDead' BY <1>1 DEF LostOrDead
<1>3. UncountedOf(q) # {} => Does(q).op \in Uploads BY BookTypes DEF Sound
<1>4. UncountedOf(q)' = {} /\ OwedOf(q)' = {} BY <1>1 DEF UncountedOf, OwedOf
<1>5. \A r \in Calls \ {q} : UncountedOf(r)' = UncountedOf(r) /\ OwedOf(r)' = OwedOf(r) BY <1>1, OthersBook DEF Sound
<1>6. Uncounted' \subseteq Uncounted BY <1>4, <1>5 DEF Uncounted
<1>7. UncountedOf(q) = {} => Uncounted' = Uncounted BY <1>4, <1>5 DEF Uncounted
<1>8. Owed' \subseteq Owed BY <1>4, <1>5 DEF Owed
<1>9. file' = file /\ vectors' = vectors /\ used' = used BY DEF Die, content
<1>10. KeptFiles' = KeptFiles BY <1>9 DEF KeptFiles, IsRow
<1>11. AnyDead' BY <1>1 DEF AnyDead
<1> QED BY <1>2, <1>3, <1>6, <1>7, <1>8, <1>9, <1>10, <1>11 DEF Stands

\* Nothing is written by the steps of no call, and by those of most.
LEMMA StepBook ==
  ASSUME Sound, ~Lost', Next, KeptStay,
         \A q \in Calls : /\ ~CountUpload(q) /\ ~LowerUsage(q) /\ ~DecrementUsage(q) /\ ~Die(q)
                          /\ ~(StoreFiles(q) /\ call'[q].pc = "count") /\ ~(DeleteRow(q) /\ call'[q].pc = "lower")
                          /\ ~(HideAttachment(q) /\ call'[q].pc = "decrement")
                          /\ ~\E f \in Files : DeleteNext(q, f) /\ call'[q].cut = call[q].cut \cup {f}
  PROVE  Stands
<1>1. KeptFiles' = KeptFiles BY DEF KeptStay, KeptFiles
<1>2. \A q \in Calls : UncountedOf(q)' = UncountedOf(q) /\ OwedOf(q)' = OwedOf(q)
 <2> SUFFICES ASSUME NEW q \in Calls  PROVE UncountedOf(q)' = UncountedOf(q) /\ OwedOf(q)' = OwedOf(q) OBVIOUS
 <2>1. CASE call'[q] # call[q] BY <2>1, OwnBookStays
 <2>2. CASE call'[q] = call[q] BY <2>2, PlanStays DEF UncountedOf, OwedOf, Does
 <2> QED BY <2>1, <2>2
<1>3. Uncounted' = Uncounted /\ Owed' = Owed BY <1>2, BooksStand
<1>4. used' - Cardinality(vectors') = used - Cardinality(vectors)
 <2>1. CASE (\E q \in Calls, i \in DOMAIN page : ForgetOne(q, i)) \/ \E t \in DOMAIN task : FinishTask(t)
   BY <2>1, IndexCounts DEF Sound
 <2>2. CASE ~((\E q \in Calls, i \in DOMAIN page : ForgetOne(q, i)) \/ \E t \in DOMAIN task : FinishTask(t))
  <3>1. ~\E b \in Bots : CascadeIndex(b) BY CleanupLoses DEF Sound
  <3>2. used' = used /\ vectors' = vectors BY <2>2, <3>1, UsedSteps, VectorsSteps
  <3> QED BY <3>2
 <2> QED BY <2>1, <2>2
<1> QED BY <1>1, <1>3, <1>4 DEF Stands

\* What a step does to the books.
LEMMA Effects ==
  ASSUME Sound, ~Lost', Next
  PROVE  \/ Stands
         \/ \E q \in Calls : StoreFiles(q) /\ call'[q].pc = "count" /\ Stores(Does(q).files)
         \/ \E F \in SUBSET Files : CountsIn(F) \/ Takes(F) \/ PaysOff(F)
<1>0. Typed /\ Cleared /\ \A q \in Calls : Does(q).files \subseteq Files BY CallTypes DEF Sound
<1>1. ASSUME NEW q \in Calls, StoreFiles(q), call'[q].pc = "count"  PROVE Stores(Does(q).files)
 <2>1. StoresAll(q) BY <1>0, <1>1, StoreFilesCall
 <2> QED BY <1>1, <2>1, StoreBook
<1>2. ASSUME NEW q \in Calls, CountUpload(q)  PROVE \E F \in SUBSET Files : CountsIn(F) BY <1>0, <1>2, CountBook
<1>3. ASSUME NEW q \in Calls, DeleteRow(q), call'[q].pc = "lower"  PROVE \E F \in SUBSET Files : Takes(F)
 <2>1. RowsGo(q) BY <1>0, <1>3, DeleteRowCall
 <2>2. Takes(call[q].rows) BY <1>3, <2>1, RowBook
 <2> QED BY <2>2 DEF Takes, KeptFiles
<1>4. ASSUME NEW q \in Calls, NEW f \in Files, DeleteNext(q, f), call'[q].cut = call[q].cut \cup {f}
      PROVE  \E F \in SUBSET Files : Takes(F)
 <2>1. f \in call[q].left /\ f \notin call[q].cut
  <3>1. Does(q).op = "deleteFiles" /\ f \in call[q].left BY <1>0, <1>4, DeleteNextCall
  <3> QED BY <1>0, <3>1, CallTypes DEF Keeps, FileDeletes
 <2>2. IsRow(f) /\ file' = [file EXCEPT ![f] = NoFile] BY <1>0, <1>4, <2>1, DeleteNextCall
 <2>3. Takes({f}) BY <1>4, <2>2, NextBook
 <2> QED BY <2>3
<1>5. ASSUME NEW q \in Calls, HideAttachment(q), call'[q].pc = "decrement"  PROVE \E F \in SUBSET Files : Takes(F)
 <2>1. RowsHide(q) BY <1>0, <1>5, HideAttachmentCall
 <2>2. Takes(call[q].rows) BY <1>5, <2>1, HideBook
 <2> QED BY <2>2 DEF Takes, KeptFiles
<1>6. ASSUME NEW q \in Calls, LowerUsage(q) \/ DecrementUsage(q)  PROVE \E F \in SUBSET Files : PaysOff(F)
 <2>1. PaysOff(call[q].rows) BY <1>6, LowerBook
 <2> QED BY <2>1 DEF PaysOff, Owed
<1>7. ASSUME \A q \in Calls : /\ ~CountUpload(q) /\ ~LowerUsage(q) /\ ~DecrementUsage(q) /\ ~Die(q)
                              /\ ~(StoreFiles(q) /\ call'[q].pc = "count") /\ ~(DeleteRow(q) /\ call'[q].pc = "lower")
                              /\ ~(HideAttachment(q) /\ call'[q].pc = "decrement")
                              /\ ~\E f \in Files : DeleteNext(q, f) /\ call'[q].cut = call[q].cut \cup {f}
      PROVE  Stands
 <2>1. KeptStay BY <1>0, <1>7, FileEffects DEF Sound
 <2> QED BY <1>7, <2>1, StepBook
<1> QED BY <1>1, <1>2, <1>3, <1>4, <1>5, <1>6, <1>7, DieBook

--------------------
(* What holds until something is lost *)

\* Whoever changes the counter is on its way, and counts.
LEMMA UsedByActive ==
  ASSUME Typed, Ordered, Cleared, ~Lost, Next, used' # used
  PROVE  \E r \in Calls : Active(r) /\ Does(r).op \in CountsFiles \cup PageOps /\ ~Counts(r)'
<1>0. \A q \in Calls : Does(q)' = Does(q) BY CallStays
<1>1. ASSUME NEW q \in Calls, CountUpload(q) \/ LowerUsage(q) \/ DecrementUsage(q)
      PROVE  Active(q) /\ Does(q).op \in CountsFiles \cup PageOps /\ ~Counts(q)'
 <2>1. /\ call[q].pc \in {"count", "lower", "decrement"} /\ call'[q].pc \in {"done", "unlock"}
       /\ Does(q).op \in CountsFiles
   BY <1>1, CountUploadCall, LowerUsageCall, DecrementUsageCall DEF CountsFiles, Uploads
 <2> QED BY <2>1, OnItsWay DEF Over, Counts
<1>2. ASSUME NEW q \in Calls, NEW i \in DOMAIN page, ForgetOne(q, i)
      PROVE  Active(q) /\ Does(q).op \in CountsFiles \cup PageOps /\ ~Counts(q)'
 <2>1. call[q].pc = "vectors" /\ call'[q].pc \in {"done", "vectors"} /\ Does(q).op \in PageOps
   BY <1>2, ForgetOneCall DEF Forgets, PageOps
 <2> QED BY <2>1, OnItsWay DEF Over, Counts
<1>3. ASSUME NEW t \in DOMAIN task, FinishTask(t)
      PROVE  \E r \in Calls : Active(r) /\ Does(r).op \in CountsFiles \cup PageOps /\ ~Counts(r)'
 <2>1. PICK r \in Calls : r = task[t].by /\ call[r].pc = "done" /\ Does(r).op \in PageOps
   BY PageTypes DEF Ordered, TasksEnd, Typed
 <2>2. task[t].status = "running" BY <1>3 DEF FinishTask
 <2>3. Active(r) BY <2>1, <2>2 DEF Active, Started, Finished
 <2>4. call'[r] = call[r] BY <2>1, CallStays DEF Over
 <2>5. ~Counts(r)' BY <2>1, <2>4 DEF Counts
 <2> QED BY <2>1, <2>3, <2>5
<1>4. ~\E b \in Bots : CascadeIndex(b) BY CleanupLoses
<1> QED BY <1>1, <1>2, <1>3, <1>4, UsedSteps

\* What a call that counts has read is what the counter says.
LEMMA SeenKept ==
  ASSUME Sound, Next
  PROVE  \A q \in Calls : Counts(q)' => call'[q].seen = used'
<1>0. Typed /\ \A q \in Calls : Does(q)' = Does(q) /\ InPlace(q, call[q]) /\ Does(q).op \in Ops
  BY CallStays, CallTypes DEF Sound
<1>1. SUFFICES ASSUME NEW q \in Calls, Counts(q)'  PROVE call'[q].seen = used' OBVIOUS
<1>2. CASE call'[q] = call[q]
 <2>1. Counts(q) /\ call[q].seen = used BY <1>0, <1>1, <1>2 DEF Counts, Sound, Truth
 <2>2. Active(q) /\ Does(q).op \in Overwriting
  <3>1. call[q].pc = "lower" => Does(q).op \in {"deleteFile", "deleteFiles"}
    BY <1>0 DEF InPlace, Ops, Uploads, Forgets, Over
  <3> QED BY <2>1, <3>1, OnItsWay DEF Counts, Over, Overwriting
 <2>3. used' = used
  <3> SUFFICES ASSUME used' # used  PROVE FALSE OBVIOUS
  <3>1. PICK r \in Calls : Active(r) /\ Does(r).op \in CountsFiles \cup PageOps /\ ~Counts(r)'
    BY UsedByActive DEF Sound
  <3>2. r # q BY <1>1, <3>1
  <3> QED BY <2>2, <3>1, <3>2, TwoActive DEF Sound, Ordered
 <2> QED BY <1>2, <2>1, <2>3
<1>3. CASE call'[q] # call[q]
 <2>1. Does(q).op \in CountsFiles /\ call'[q].pc \in {"store", "count", "lower"}
  <3>1. InPlace(q, call'[q]) BY <1>0, <1>3, CallStays DEF Becomes
  <3> QED BY <1>0, <1>1, <3>1 DEF Counts, CountsFiles, InPlace, Ops, Uploads, Forgets, Over
 <2>2. CheckQuota(q) \/ StoreFiles(q) \/ DeleteRow(q) \/ ReadBulk(q)
  <3>1. CASE Does(q).op \in Uploads
   <4>1. TestLock(q) \/ SetLock(q) \/ CheckQuota(q) \/ StoreFiles(q) \/ CountUpload(q) \/ ReleaseLock(q) \/ Die(q)
     BY <1>0, <1>3, <3>1, UploadMover
   <4> QED BY <1>0, <2>1, <4>1, TestLockCall, SetLockCall, CountUploadCall, ReleaseLockCall, DieCall
  <3>2. CASE Does(q).op \in FileDeletes
   <4>1. \/ FindFile(q) \/ DeleteObject(q) \/ DeleteRow(q) \/ LowerUsage(q) \/ MarkFiles(q) \/ ReadBulk(q)
         \/ DropObject(q) \/ FindAttachment(q) \/ HideAttachment(q) \/ DecrementUsage(q) \/ Die(q)
         \/ \E f \in Files : DeleteNext(q, f)
     BY <1>0, <1>3, <3>2, DeleteMover
   <4> QED
    <5>1. ~(FindFile(q) \/ DeleteObject(q) \/ LowerUsage(q) \/ MarkFiles(q) \/ FindAttachment(q))
      BY <1>0, <2>1, FindFileCall, DeleteObjectCall, LowerUsageCall, MarkFilesCall, FindAttachmentCall
    <5>2. ~(DropObject(q) \/ HideAttachment(q) \/ DecrementUsage(q) \/ Die(q) \/ \E f \in Files : DeleteNext(q, f))
      BY <1>0, <2>1, DropObjectCall, HideAttachmentCall, DecrementUsageCall, DieCall, DeleteNextCall
    <5> QED BY <4>1, <5>1, <5>2
  <3> QED BY <2>1, <3>1, <3>2 DEF CountsFiles, FileDeletes
 <2>3. CASE CheckQuota(q) BY <1>0, <2>3, CheckQuotaCall DEF CheckQuota
 <2>4. CASE StoreFiles(q)
  <3>1. call[q].pc = "store" /\ call'[q].pc \in {"count", "unlock"} /\ call'[q].seen = call[q].seen /\ used' = used
    BY <1>0, <2>4, StoreFilesCall DEF StoreFiles
  <3>2. Does(q).op = "upload" BY <1>0, <1>1, <3>1 DEF Counts
  <3> QED BY <3>1, <3>2 DEF Counts, Sound, Truth
 <2>5. CASE DeleteRow(q)
  <3>1. call'[q].pc = "lower" => call'[q].seen = used BY <1>0, <2>5, DeleteRowCall
  <3>2. call'[q].pc \in {"lower", "done"} /\ used' = used BY <1>0, <2>5, DeleteRowCall DEF DeleteRow
  <3> QED BY <2>1, <3>1, <3>2
 <2>6. CASE ReadBulk(q)
  <3>1. call'[q].pc = "lower" => call'[q].seen = used BY <1>0, <2>6, ReadBulkCall
  <3>2. call'[q].pc \in {"lower", "done"} /\ used' = used BY <1>0, <2>6, ReadBulkCall DEF ReadBulk
  <3> QED BY <2>1, <3>1, <3>2
 <2> QED BY <2>2, <2>3, <2>4, <2>5, <2>6
<1> QED BY <1>2, <1>3

\* A row is newly hidden by the deletion of its attachment only.
LEMMA NewlyHidden ==
  ASSUME Sound, ~Lost', Next, NEW f \in Files, file'[f].deleted, ~file[f].deleted
  PROVE  \E r \in Calls : HideAttachment(r) /\ f \in call[r].rows
<1>1. Typed /\ Cleared /\ ~Lost BY DEF Sound
<1>2. CASE KeptStay BY <1>2 DEF KeptStay
<1>3. ASSUME NEW q \in Calls, StoreFiles(q), call'[q].pc = "count", StoresAll(q)  PROVE FALSE BY <1>3, StoreBook
<1>4. ASSUME NEW q \in Calls, DeleteRow(q), call'[q].pc = "lower", RowsGo(q)  PROVE FALSE BY <1>4, RowBook
<1>5. ASSUME NEW q \in Calls, NEW g \in Files, DeleteNext(q, g), call'[q].cut = call[q].cut \cup {g}, IsRow(g),
             file' = [file EXCEPT ![g] = NoFile]
      PROVE  FALSE
  BY <1>5, NextBook
<1>6. ASSUME NEW q \in Calls, HideAttachment(q), call'[q].pc = "decrement", RowsHide(q)  PROVE f \in call[q].rows
  BY <1>6, HideBook
<1> QED BY <1>1, <1>2, <1>3, <1>4, <1>5, <1>6, FileEffects

\* A step keeps what holds until something is lost.
LEMMA TruthKept ==
  ASSUME Sound, ~Lost', Next
  PROVE  Truth'
<1>0. Typed /\ \A q \in Calls : Does(q)' = Does(q) BY CallStays DEF Sound
<1>1. Seeking'
 <2> SUFFICES ASSUME NEW q \in Calls, call'[q].pc \in {"object", "hide"}, Does(q).op = "deleteAttachment",
                     NEW f \in call'[q].rows
              PROVE  ~file'[f].deleted
   BY <1>0 DEF Seeking
 <2>1. CASE call'[q] = call[q]
  <3>1. ~file[f].deleted /\ call[q].pc \in {"object", "hide"} /\ f \in call[q].rows
    BY <2>1 DEF Sound, Truth, Seeking
  <3>2. f \in Does(q).files /\ f \in Files /\ Active(q)
    BY <1>0, <3>1, CallTypes, OnItsWay DEF Keeps, FileDeletes, Over
  <3> SUFFICES ASSUME file'[f].deleted  PROVE FALSE OBVIOUS
  <3>3. PICK r \in Calls : HideAttachment(r) /\ f \in call[r].rows BY <3>1, <3>2, NewlyHidden
  <3>4. /\ Becomes(r, call'[r]) /\ call[r].pc = "hide" /\ Does(r).op = "deleteAttachment"
        /\ call'[r].pc \in {"decrement", "done"}
    BY <1>0, <3>3, HideAttachmentCall
  <3>5. Active(r) /\ r # q /\ f \in Does(r).files
    BY <1>0, <2>1, <3>1, <3>3, <3>4, OnItsWay, CallTypes DEF Keeps, FileDeletes, Over
  <3> QED BY <3>2, <3>4, <3>5, TwoActive DEF Sound, Ordered, CountsFiles
 <2>2. CASE call'[q] # call[q]
  <3>1. FindAttachment(q) \/ DeleteObject(q)
   <4>1. \/ FindFile(q) \/ DeleteObject(q) \/ DeleteRow(q) \/ LowerUsage(q) \/ MarkFiles(q) \/ ReadBulk(q)
         \/ DropObject(q) \/ FindAttachment(q) \/ HideAttachment(q) \/ DecrementUsage(q) \/ Die(q)
         \/ \E g \in Files : DeleteNext(q, g)
     BY <1>0, <2>2, DeleteMover DEF FileDeletes
   <4>2. ~(FindFile(q) \/ DeleteRow(q) \/ LowerUsage(q) \/ MarkFiles(q) \/ ReadBulk(q))
     BY <1>0, FindFileCall, DeleteRowCall, LowerUsageCall, MarkFilesCall, ReadBulkCall
   <4>3. ~(DropObject(q) \/ HideAttachment(q) \/ DecrementUsage(q) \/ Die(q) \/ \E g \in Files : DeleteNext(q, g))
     BY <1>0, DropObjectCall, HideAttachmentCall, DecrementUsageCall, DieCall, DeleteNextCall
   <4> QED BY <4>1, <4>2, <4>3
  <3>2. CASE FindAttachment(q) BY <1>0, <3>2, FindAttachmentCall DEF FindAttachment
  <3>3. CASE DeleteObject(q)
   <4>1. call[q].pc = "object" /\ f \in call[q].rows BY <1>0, <3>3, DeleteObjectCall
   <4>2. f \in Files BY <1>0, <4>1, CallTypes DEF Keeps, FileDeletes
   <4>3. ~file[f].deleted BY <4>1 DEF Sound, Truth, Seeking
   <4>4. file \in [Files -> FileRow] BY <1>0 DEF Typed, Types
   <4>5. file'[f] = file[f] \/ file'[f] = [file[f] EXCEPT !.object = FALSE] BY <3>3, <4>2 DEF DeleteObject
   <4> QED BY <4>2, <4>3, <4>4, <4>5 DEF FileRow
  <3> QED BY <3>1, <3>2, <3>3
 <2> QED BY <2>1, <2>2
<1>2. Hidden'
 <2> SUFFICES ASSUME NEW f \in Files, file'[f].deleted
              PROVE  \E q \in Calls : Does(q).op = "deleteAttachment" /\ f \in call'[q].rows
   BY <1>0 DEF Hidden
 <2>1. \E q \in Calls : Does(q).op = "deleteAttachment" /\ f \in call[q].rows
  <3>1. CASE file[f].deleted BY <3>1 DEF Sound, Truth, Hidden
  <3>2. CASE ~file[f].deleted BY <1>0, <3>2, NewlyHidden, HideAttachmentCall
  <3> QED BY <3>1, <3>2
 <2>2. PICK q \in Calls : Does(q).op = "deleteAttachment" /\ f \in call[q].rows BY <2>1
 <2>3. call'[q].rows = call[q].rows BY <1>0, <2>2, RowsStay DEF FileDeletes
 <2> QED BY <2>2, <2>3
<1>3. Uncounted' \subseteq KeptFiles' /\ Owed' \cap KeptFiles' = {}
 <2>0. Uncounted \subseteq KeptFiles /\ Owed \cap KeptFiles = {} BY DEF Sound, Truth
 <2>1. CASE Stands BY <2>0, <2>1 DEF Stands
 <2>2. ASSUME NEW F, Stores(F)  PROVE Uncounted' \subseteq KeptFiles' /\ Owed' \cap KeptFiles' = {}
   BY <2>0, <2>2 DEF Stores
 <2>3. ASSUME NEW F, CountsIn(F) \/ Takes(F) \/ PaysOff(F)
       PROVE  Uncounted' \subseteq KeptFiles' /\ Owed' \cap KeptFiles' = {}
   BY <2>0, <2>3 DEF CountsIn, Takes, PaysOff
 <2> QED BY <2>1, <2>2, <2>3, Effects
<1> QED BY <1>1, <1>2, <1>3, SeenKept DEF Truth

\* A step keeps the counter and the books together.
LEMMA BalanceKept ==
  ASSUME Sound, Balance, ~LostOrDead', Next
  PROVE  Balance'
<1>0. /\ Typed /\ ~Lost' /\ plan' = plan /\ plan \in Plans /\ used \in Int /\ used' \in Int
      /\ Cardinality(vectors) \in Nat /\ Cardinality(vectors') \in Nat
      /\ Uncounted \subseteq KeptFiles /\ Owed \cap KeptFiles = {} /\ Booked \in SUBSET Files
 <2>1. Typed /\ vectors \subseteq Bots \X Urls /\ vectors' \subseteq Bots \X Urls
   BY VectorsTyped DEF Sound, Typed, Types
 <2> QED
   BY <2>1, IndexFinite, CountersTyped, PlanStays DEF Sound, Truth, Typed, Types, LostOrDead, Booked, KeptFiles, Owed
<1>1. AnyDead => AnyDead' BY <1>0, DeadStays
<1>2. SizeOf(Booked) \in Nat /\ \A T \in SUBSET Booked : SizeOf(T) <= SizeOf(Booked) /\ SizeOf(T) \in Nat
  BY <1>0, Sizes
<1>3. Gap' = used' - (SizeOf(Booked') + Cardinality(vectors')) BY <1>0 DEF Gap, SizeOf
<1>4. Gap = used - (SizeOf(Booked) + Cardinality(vectors)) /\ Gap >= 0 /\ (~AnyDead => Gap = 0) BY DEF Gap, Balance
<1>5. Booked' = (KeptFiles' \ Uncounted') \cup Owed' /\ Booked = (KeptFiles \ Uncounted) \cup Owed BY DEF Booked
<1>6. CASE Stands
 <2>1. Booked' \subseteq Booked /\ (AnyDead' \/ Booked' = Booked) BY <1>5, <1>6 DEF Stands
 <2>2. used' - Cardinality(vectors') = used - Cardinality(vectors) BY <1>6 DEF Stands
 <2>3. Booked' = Booked => Gap' = Gap BY <1>0, <1>2, <1>3, <1>4, <2>2
 <2>4. Gap' >= 0
  <3>1. SizeOf(Booked') <= SizeOf(Booked) /\ SizeOf(Booked') \in Nat BY <1>2, <2>1
  <3> QED BY <1>0, <1>2, <1>3, <1>4, <2>2, <3>1
 <2> QED BY <1>1, <1>4, <2>1, <2>3, <2>4 DEF Balance
<1>7. ASSUME NEW F, Stores(F) \/ Takes(F)  PROVE Balance'
 <2>1. Booked' = Booked BY <1>0, <1>5, <1>7 DEF Stores, Takes
 <2>2. used' = used /\ vectors' = vectors BY <1>7 DEF Stores, Takes
 <2> QED BY <1>1, <1>3, <1>4, <2>1, <2>2 DEF Balance
<1>8. ASSUME NEW F \in SUBSET Files, CountsIn(F)  PROVE Balance'
 <2>1. Booked' = Booked \cup F /\ Booked \cap F = {} BY <1>0, <1>5, <1>8 DEF CountsIn
 <2>2. SizeOf(Booked') = SizeOf(Booked) + SizeOf(F) /\ SizeOf(F) \in Nat BY <1>0, <2>1, Sizes
 <2>3. used' = used + SizeOf(F) /\ vectors' = vectors BY <1>8 DEF CountsIn
 <2>4. Gap' = Gap BY <1>0, <1>2, <1>3, <1>4, <2>2, <2>3
 <2> QED BY <1>1, <1>4, <2>4 DEF Balance
<1>9. ASSUME NEW F \in SUBSET Files, PaysOff(F)  PROVE Balance'
 <2>1. Booked = Booked' \cup F /\ Booked' \cap F = {} /\ Booked' \in SUBSET Files BY <1>0, <1>5, <1>9 DEF PaysOff
 <2>2. SizeOf(Booked) = SizeOf(Booked') + SizeOf(F) /\ SizeOf(F) \in Nat /\ SizeOf(Booked') \in Nat
   BY <1>0, <2>1, Sizes
 <2>3. used' = used - SizeOf(F) /\ vectors' = vectors BY <1>4, <1>9 DEF PaysOff
 <2>4. Gap' = Gap BY <1>0, <1>2, <1>3, <1>4, <2>2, <2>3
 <2> QED BY <1>1, <1>4, <2>4 DEF Balance
<1> QED BY <1>0, <1>6, <1>7, <1>8, <1>9, Effects

\* A step keeps what a team has within its quota, until uploads race or something is lost.
LEMMA FitKept ==
  ASSUME Sound, Balance, Fitting, Within, ~LostOrDead', ~UploadsRaced', Next, NewBots
  PROVE  (Fitting /\ Within)'
<1>0. /\ Typed /\ Ordered /\ Made /\ ~Lost /\ ~Lost' /\ ~UploadsRaced /\ plan' = plan /\ plan \in Plans /\ used \in Int
      /\ Cardinality(vectors) \in Nat /\ plan.limit \in Nat
      /\ \A q \in Calls : Does(q)' = Does(q) /\ Does(q).files \in SUBSET Files
 <2>1. Typed /\ vectors \subseteq Bots \X Urls BY DEF Sound, Typed, Types
 <2> QED
   BY <2>1, IndexFinite, PlanStays, PlanTypes, CallStays, CallTypes, DriftStays DEF Sound, Typed, Types, LostOrDead
<1>1. KeptFiles \in SUBSET Files /\ KeptFiles' \in SUBSET Files BY DEF KeptFiles
<1>2. \A S \in SUBSET Files : SizeOf(S) \in Nat /\ SizeOf(S)' = SumFunctionOnSet(plan.size, S')
  BY <1>0, Sizes DEF SizeOf
<1>3. ASSUME NEW q \in Calls, NEW r \in Calls, call'[q].pc = "store", StoreFiles(r), call'[r].pc = "count"  PROVE FALSE
 <2>1. Does(q).op \in Uploads /\ Does(r).op \in Uploads /\ q # r
  <3>1. InPlace(q, call'[q]) /\ Does(q).op \in Ops
   <4>1. CASE call'[q] = call[q] BY <1>0, <4>1, CallTypes
   <4>2. CASE call'[q] # call[q] BY <1>0, <4>2, CallStays, CallTypes DEF Becomes
   <4> QED BY <4>1, <4>2
  <3>2. Does(q).op \in Uploads BY <1>3, <3>1 DEF InPlace, Ops, Uploads, Forgets, Over
  <3> QED BY <1>0, <1>3, <3>2, StoreFilesCall DEF Uploads
 <2> QED BY <1>0, <1>3, <2>1, UploadsRace DEF Over
<1>4. KeptFiles' \subseteq KeptFiles \/ \E q \in Calls : StoreFiles(q) /\ call'[q].pc = "count" /\ Stores(Does(q).files)
  BY Effects, <1>0 DEF Stands, CountsIn, Takes, PaysOff
<1>5. KeptFiles' \subseteq KeptFiles => SizeOf(KeptFiles') <= SizeOf(KeptFiles) BY <1>0, <1>1, Sizes
<1>6. Within'
 <2>0. Within' <=> SizeOf(KeptFiles') <= plan.limit \/ SizeOf(KeptFiles') <= SizeOf(plan.stored)
   BY <1>0 DEF Within, SizeOf
 <2>1. CASE KeptFiles' \subseteq KeptFiles
  <3>1. SizeOf(plan.stored) \in Nat BY <1>0, PlanTypes, Sizes
  <3> QED BY <1>0, <1>1, <1>2, <1>5, <2>0, <2>1, <3>1 DEF Within
 <2>2. ASSUME NEW q \in Calls, StoreFiles(q), Stores(Does(q).files)  PROVE SizeOf(KeptFiles') <= plan.limit
  <3>1. call[q].pc = "store" BY <1>0, <2>2, StoreFilesCall
  <3>2. SizeOf(KeptFiles) + SizeOf(Does(q).files) <= plan.limit BY <3>1 DEF Fitting
  <3>3. KeptFiles' = KeptFiles \cup Does(q).files /\ KeptFiles \cap Does(q).files = {} BY <2>2 DEF Stores
  <3>4. SizeOf(KeptFiles') = SizeOf(KeptFiles) + SizeOf(Does(q).files) BY <1>0, <1>1, <3>3, Sizes
  <3> QED BY <3>2, <3>4
 <2> QED BY <1>4, <2>0, <2>1, <2>2
<1>7. Fitting'
 <2>0. SUFFICES ASSUME NEW q \in Calls, call'[q].pc = "store"
                PROVE  SizeOf(KeptFiles') + SizeOf(Does(q).files) <= plan.limit
   BY <1>0 DEF Fitting, SizeOf
 <2>1. KeptFiles' \subseteq KeptFiles BY <1>3, <1>4, <2>0
 <2>2. SizeOf(KeptFiles') <= SizeOf(KeptFiles) /\ SizeOf(KeptFiles') \in Nat /\ SizeOf(KeptFiles) \in Nat
       /\ SizeOf(Does(q).files) \in Nat
   BY <1>0, <1>1, <1>2, <1>5, <2>1
 <2>3. CASE call'[q] = call[q] BY <1>0, <2>0, <2>2, <2>3 DEF Fitting
 <2>4. CASE call'[q] # call[q]
  <3>1. InPlace(q, call'[q]) /\ Does(q).op \in Ops BY <1>0, <2>4, CallStays, CallTypes DEF Becomes
  <3>2. Does(q).op \in Uploads BY <2>0, <3>1 DEF InPlace, Ops, Uploads, Forgets, Over
  <3>3. TestLock(q) \/ SetLock(q) \/ CheckQuota(q) \/ StoreFiles(q) \/ CountUpload(q) \/ ReleaseLock(q) \/ Die(q)
    BY <1>0, <2>4, <3>2, UploadMover
  <3>4. CheckQuota(q)
    BY <1>0, <2>0, <3>3, TestLockCall, SetLockCall, StoreFilesCall, CountUploadCall, ReleaseLockCall, DieCall
  <3>5. used + SizeOf(Does(q).files) <= plan.limit BY <1>0, <2>0, <3>4, CheckQuotaCall DEF Fits
  <3>6. Uncounted = {}
   <4> SUFFICES ASSUME NEW f \in Uncounted  PROVE FALSE OBVIOUS
   <4>1. PICK r \in Calls : f \in UncountedOf(r) BY DEF Uncounted
   <4>2. call[r].pc = "count" /\ Does(r).op \in Uploads BY <1>0, <4>1, BookTypes DEF UncountedOf
   <4>3. r # q /\ call'[r] = call[r] BY <1>0, <2>4, <3>4, <4>2, CallStays, CheckQuotaCall
   <4> QED BY <1>0, <2>0, <3>2, <4>2, <4>3, UploadsRace DEF Over
  <3>7. Booked \in SUBSET Files /\ KeptFiles \in SUBSET Booked BY <1>1, <3>6 DEF Booked, Owed
  <3>8. SizeOf(KeptFiles) <= SizeOf(Booked) /\ SizeOf(Booked) \in Nat BY <1>0, <3>7, Sizes
  <3>9. used >= SizeOf(Booked) BY <1>0, <3>8 DEF Balance, Gap
  <3> QED BY <1>0, <2>2, <3>5, <3>8, <3>9
 <2> QED BY <2>3, <2>4
<1> QED BY <1>6, <1>7

\* A step keeps the invariant of the files and their counter.
LEMMA FilesKept ==
  ASSUME Typed, Ordered, NewBots, FilesInv, Next
  PROVE  FilesInv'
<1>1. Cleared' /\ Made' BY ClearedKept, MadeKept DEF FilesInv
<1>2. (Lost => Lost') /\ (LostOrDead => LostOrDead') /\ (UploadsRaced => UploadsRaced') /\ (Lost => LostOrDead) /\ (Lost' => LostOrDead')
  BY LostStays, DriftStays DEF LostOrDead
<1>3. ~Lost' => Sound BY <1>2 DEF FilesInv, Sound
<1>4. ~Lost' => Truth' BY <1>3, TruthKept
<1>5. ~LostOrDead' => Balance' BY <1>2, <1>3, BalanceKept DEF FilesInv
<1>6. ~LostOrDead' /\ ~UploadsRaced' => (Fitting /\ Within)' BY <1>2, <1>3, FitKept DEF FilesInv
<1> QED BY <1>1, <1>4, <1>5, <1>6 DEF FilesInv

\* The files of the first state.
LEMMA InitFiles == Init => FilesInv
<1> SUFFICES ASSUME Init  PROVE FilesInv OBVIOUS
<1>0. /\ Typed /\ plan \in Plans /\ plan.stored \subseteq Files /\ plan.indexed \subseteq Urls /\ plan.bot \in Bots
      /\ \A q \in Calls : call[q] = Idle
 <2>1. Typed /\ plan \in Plans /\ \A q \in Calls : call[q] = Idle BY InitTypes DEF Init, Typed
 <2> QED BY <2>1, PlanTypes
<1>1. \A q \in Calls : call[q].pc = "new" /\ call[q].rows = {} /\ call[q].cut = {} /\ call[q].end = "none"
  BY <1>0 DEF Idle
<1>2. \A f \in Files : ~file[f].deleted /\ (IsRow(f) <=> f \in plan.stored)
 <2> SUFFICES ASSUME NEW f \in Files  PROVE ~file[f].deleted /\ (IsRow(f) <=> f \in plan.stored) OBVIOUS
 <2>1. file[f] = IF f \in plan.stored THEN [NewFile(plan.bot) EXCEPT !.status = "INDEXED"] ELSE NoFile BY DEF Init
 <2>2. CASE f \in plan.stored
  <3>1. file[f].status = "INDEXED" /\ ~file[f].deleted BY <2>1, <2>2 DEF NewFile
  <3> QED BY <2>2, <3>1 DEF IsRow
 <2>3. CASE f \notin plan.stored BY <2>1, <2>3 DEF NoFile, IsRow
 <2> QED BY <2>2, <2>3
<1>3. KeptFiles = plan.stored /\ Uncounted = {} /\ Owed = {} /\ Booked = plan.stored
 <2>1. KeptFiles = plan.stored BY <1>0, <1>2 DEF KeptFiles
 <2>2. Uncounted = {} /\ Owed = {} BY <1>1 DEF Uncounted, UncountedOf, Owed, OwedOf
 <2> QED BY <2>1, <2>2 DEF Booked
<1>4. Cardinality(vectors) = Cardinality(plan.indexed) /\ Cardinality(vectors) \in Nat
 <2>1. vectors = {plan.bot} \X plan.indexed BY DEF Init
 <2>2. IsFiniteSet(plan.indexed) /\ IsFiniteSet({plan.bot}) /\ Cardinality({plan.bot}) = 1
   BY <1>0, PlanAssumption, FS_Subset, FS_Singleton
 <2>3. Cardinality(plan.indexed) \in Nat BY <2>2, FS_CardinalityType
 <2>4. Cardinality(vectors) = 1 * Cardinality(plan.indexed) BY <2>1, <2>2, FS_Product
 <2> QED BY <2>3, <2>4
<1>5. Gap = 0
 <2>1. SizeOf(plan.stored) \in Nat BY <1>0, Sizes
 <2>2. used = SizeOf(plan.stored) + Cardinality(plan.indexed) BY DEF Init
 <2> QED BY <1>3, <1>4, <2>1, <2>2 DEF Gap
<1>6. Cleared BY DEF Cleared, Init
<1>7. Made BY <1>1, <1>2 DEF Made, Stored
<1>8. Truth BY <1>1, <1>2, <1>3 DEF Truth, Seeking, Hidden, Counts
<1>9. Balance BY <1>5 DEF Balance
<1>10. Fitting /\ Within
 <2>1. SizeOf(KeptFiles) \in Nat BY <1>0, <1>3, Sizes
 <2> QED BY <1>1, <1>3, <2>1 DEF Fitting, Within
<1> QED BY <1>6, <1>7, <1>8, <1>9, <1>10 DEF FilesInv

\* What is lost is told.
LEMMA LostIsTold ==
  ASSUME Typed
  PROVE  /\ Lost => Excused
         /\ LostOrDead \/ UploadsRaced => Drifted \/ \E q \in Calls : Does(q).op \in Uploads /\ Started(q) /\ Racing(q, Uploads)
<1>1. ASSUME NEW q \in Calls, Does(q).op = "deleteFiles", call[q].cut \cup call[q].left # call[q].rows  PROVE Excused
 <2>1. call[q].left \subseteq call[q].rows /\ call[q].cut \subseteq call[q].rows
   BY <1>1, CallTypes DEF Keeps, FileDeletes
 <2>2. Skipped(q) BY <1>1, <2>1 DEF Skipped
 <2> QED BY <2>2 DEF Excused
<1>2. ASSUME NEW q \in Calls, Does(q).op = "upload", call[q].end = "threw"  PROVE Excused BY <1>2 DEF Excused, Skipped
<1>3. Lost => Excused BY <1>1, <1>2 DEF Lost, Excused
<1> QED BY <1>3 DEF LostOrDead, Drifted, UploadsRaced

\* What the books say of the files.
LEMMA FilesAre ==
  ASSUME Typed, FilesInv
  PROVE  UsageExplained /\ OverfullOnlyRacing
<1>1. UsageExplained
 <2> SUFFICES ASSUME Calm, ~Lost  PROVE used = SizeOf(KeptFiles) + Cardinality(vectors)
   BY LostIsTold DEF UsageExplained
 <2>1. ~LostOrDead /\ ~AnyDead /\ \A q \in Calls : UncountedOf(q) = {} /\ OwedOf(q) = {}
   BY DEF Calm, LostOrDead, AnyDead, UncountedOf, OwedOf
 <2>2. Booked = KeptFiles BY <2>1 DEF Booked, Uncounted, Owed
 <2>3. Gap = 0 BY <2>1 DEF FilesInv, Balance
 <2>4. SizeOf(KeptFiles) \in Nat /\ used \in Int /\ Cardinality(vectors) \in Nat
   BY Sizes, IndexFinite DEF KeptFiles, Typed, Types
 <2> QED BY <2>2, <2>3, <2>4 DEF Gap
<1>2. OverfullOnlyRacing
 <2> SUFFICES ASSUME SizeOf(KeptFiles) > plan.limit, SizeOf(KeptFiles) > SizeOf(plan.stored)
              PROVE  LostOrDead \/ UploadsRaced
   BY LostIsTold DEF OverfullOnlyRacing
 <2>1. SizeOf(KeptFiles) \in Nat /\ plan.limit \in Nat /\ SizeOf(plan.stored) \in Nat
   BY Sizes, PlanTypes DEF KeptFiles, Typed, Types
 <2> QED BY <2>1 DEF FilesInv, Within
<1> QED BY <1>1, <1>2

--------------------
(* The theorems *)

WorkspaceInv == Typed /\ Ordered /\ BotInv /\ FilesInv

\* A step keeps the invariant.
LEMMA WorkspaceInvKept ==
  ASSUME WorkspaceInv, Next
  PROVE  WorkspaceInv'
<1>1. Typed /\ Ordered /\ NewBots /\ BotInv /\ FilesInv BY DEF WorkspaceInv, BotInv
<1> QED BY <1>1, TypesKept, OrderKept, BotsKept, FilesKept DEF WorkspaceInv

\* So does a step that changes nothing.
LEMMA WorkspaceInvStays ==
  ASSUME WorkspaceInv, UNCHANGED vars
  PROVE  WorkspaceInv'
<1>0. /\ plan' = plan /\ bot' = bot /\ botUsed' = botUsed /\ cascade' = cascade /\ file' = file /\ used' = used
      /\ lock' = lock /\ page' = page /\ vectors' = vectors /\ task' = task /\ notices' = notices /\ call' = call
      /\ sweep' = sweep /\ chats' = chats
  BY DEF vars
<1>1. Typed' BY <1>0 DEF WorkspaceInv, Typed, Types, Places, PageTasks, InPlace, Keeps, Does
<1>2. Ordered' BY <1>0 DEF WorkspaceInv, Ordered, TasksEnd, Sinces, Noticed, Finished, Does
<1>3. \A q, r \in Calls : /\ (Overlap(q, r)' <=> Overlap(q, r)) /\ Does(q)' = Does(q) /\ (Started(q)' <=> Started(q))
                          /\ (Racing(q, Uploads)' <=> Racing(q, Uploads))
  BY <1>0 DEF Overlap, Does, Started, Racing
<1>4. BotInv'
 <2>1. NewBots' <=> NewBots BY <1>0 DEF NewBots, Does
 <2>2. BotsOverlap' <=> BotsOverlap BY <1>3 DEF BotsOverlap
 <2>3. BotsCounted' <=> BotsCounted BY <1>0 DEF BotsCounted, Running, LiveBots, AnyDead, BotBooks, BotBook, Does
 <2> QED BY <2>1, <2>2, <2>3 DEF WorkspaceInv, BotInv
<1>5. (Lost' <=> Lost) /\ (LostOrDead' <=> LostOrDead) /\ (UploadsRaced' <=> UploadsRaced)
  BY <1>0, <1>3 DEF Lost, LostOrDead, UploadsRaced, Miscounts, Twice
<1>6. (Cleared' <=> Cleared) /\ (Made' <=> Made) BY <1>0, <1>3 DEF Cleared, Made, IsRow, Stored
<1>7. KeptFiles' = KeptFiles /\ Uncounted' = Uncounted /\ Owed' = Owed
  BY <1>0, <1>3 DEF KeptFiles, IsRow, Uncounted, UncountedOf, Owed, OwedOf
<1>8. Truth' <=> Truth BY <1>0, <1>3, <1>7 DEF Truth, Seeking, Hidden, Counts
<1>9. Balance' <=> Balance BY <1>0, <1>7 DEF Balance, Gap, Booked, SizeOf, AnyDead
<1>10. (Fitting /\ Within)' <=> Fitting /\ Within BY <1>0, <1>3, <1>7 DEF Fitting, Within, SizeOf
<1>11. FilesInv' BY <1>5, <1>6, <1>8, <1>9, <1>10 DEF WorkspaceInv, FilesInv
<1> QED BY <1>1, <1>2, <1>4, <1>11 DEF WorkspaceInv

\* The invariant holds of every behaviour.
THEOREM WorkspaceInvariant == Spec => []WorkspaceInv
<1>1. Init => WorkspaceInv BY InitTypes, InitBots, InitFiles DEF WorkspaceInv, Typed
<1>2. WorkspaceInv /\ [Next]_vars => WorkspaceInv' BY WorkspaceInvKept, WorkspaceInvStays
<1> QED BY <1>1, <1>2, PTL DEF Spec

\* Type correctness: calls, rows, tasks and counters keep their types, a page
\* refers to a task there is, and one that waits to none.
THEOREM TypeCorrect == Spec => []TypeOK
<1>1. WorkspaceInv => TypeOK BY TypedIsOK DEF WorkspaceInv
<1> QED BY <1>1, WorkspaceInvariant, PTL

\* The FILE and the BOT quota count what the team keeps, and it keeps no more than
\* they allow, but for the races and half-way failures QuotasKept names, for
\* every number of calls, files, bots and pods.
THEOREM QuotasHold == Spec => []QuotasKept
<1>1. WorkspaceInv => QuotasKept BY FilesAre, BotsAre DEF WorkspaceInv, QuotasKept
<1> QED BY <1>1, WorkspaceInvariant, PTL

\* The notice of a failed task fails only pages that task still holds, however
\* late it comes: Marked(Owned(t), "failed") is the only step that fails a page.
LEMMA NoticeStep ==
  ASSUME Typed, Ordered, Next, NEW i \in DOMAIN page, page[i].status # "failed", page'[i].status = "failed"
  PROVE  page[i].status = "Processing" /\ task[page[i].task].status = "failed"
<1>0. /\ \A R, s : s \in PageStatus /\ page' = Marked(R, s) => page'[i].status = page[i].status \/ (i \in R /\ s = "failed")
      /\ page[i] \in PageRow
 <2>1. page[i] \in PageRow BY PageTypes DEF Typed
 <2>2. ASSUME NEW R, NEW s \in PageStatus, page' = Marked(R, s)
       PROVE  page'[i].status = page[i].status \/ (i \in R /\ s = "failed")
  <3>1. Marked(R, s)[i].status = IF i \in R /\ ~page[i].gone THEN s ELSE page[i].status BY MarkedRows DEF Typed
  <3> QED BY <2>2, <3>1
 <2> QED BY <2>1, <2>2
<1>1. page' # page OBVIOUS
<1>2. \A s : s \in {"UPLOADED", "FAILED", "INDEXED", "BEING_DELETED"} => \A R : page' # Marked(R, s)
  BY <1>0 DEF PageStatus
<1>3. ASSUME NEW q \in Calls, ResetRows(q) \/ Dispatch(q)  PROVE FALSE
  BY <1>1, <1>2, <1>3, ResetRowsCall, DispatchCall
<1>4. ASSUME NEW q \in Calls, OpenRows(q)  PROVE FALSE
 <2> DEFINE R == call'[q].rows
            m == Marked(R, "UPLOADED")
 <2>1. CASE Does(q).op # "edit"
  <3>1. page'[i] = page[i] \/ page'[i] = [page[i] EXCEPT !.gone = TRUE] BY <1>2, <1>4, <2>1, OpenRowsCall DEF Forgets
  <3> QED BY <1>0, <3>1 DEF PageRow
 <2>2. CASE Does(q).op = "edit"
  <3>1. page'[i] = IF i \in R THEN [m[i] EXCEPT !.url = Does(q).to] ELSE page[i]
    BY <1>4, <2>2, OpenRowsCall DEF Readdressed
  <3>2. m[i].status = (IF i \in R /\ ~page[i].gone THEN "UPLOADED" ELSE page[i].status) /\ m[i] \in PageRow
    BY MarkedRows DEF Typed, PageStatus
  <3> HIDE DEF m
  <3>3. [m[i] EXCEPT !.url = Does(q).to].status = m[i].status BY <3>2 DEF PageRow
  <3> QED BY <3>1, <3>2, <3>3
 <2> QED BY <2>1, <2>2
<1>5. ASSUME NEW q \in Calls, NEW u \in Urls, CreateRow(q, u)  PROVE FALSE BY <1>5, CreateRowCall
<1>6. ASSUME NEW q \in Calls, NEW j \in DOMAIN page, ForgetOne(q, j)  PROVE FALSE
 <2>1. page' = [page EXCEPT ![j].gone = TRUE] BY <1>1, <1>2, <1>6, ForgetOneCall
 <2>2. page'[i] = page[i] \/ page'[i] = [page[i] EXCEPT !.gone = TRUE] BY <2>1, RowGoes
 <2> QED BY <1>0, <2>2 DEF PageRow
<1>7. ASSUME NEW t \in DOMAIN task, StartTask(t)  PROVE FALSE
 <2>1. page'[i] = page[i] \/ page'[i] = [page[i] EXCEPT !.status = "Processing", !.task = t] BY <1>7 DEF StartTask
 <2> QED BY <1>0, <2>1 DEF PageRow
<1>8. ASSUME NEW t \in DOMAIN task, FinishTask(t)  PROVE FALSE BY <1>2, <1>8 DEF FinishTask
<1>9. ASSUME NEW b \in Bots, CascadeContents(b)  PROVE FALSE
 <2>1. page'[i] = page[i] \/ page'[i] = [page[i] EXCEPT !.deleted = TRUE] BY <1>9 DEF CascadeContents
 <2> QED BY <1>0, <2>1 DEF PageRow
<1>10. ASSUME NEW t \in DOMAIN task, NEW p \in Pods, CascadeFailed(p, t)
       PROVE  page[i].status = "Processing" /\ task[page[i].task].status = "failed"
 <2>1. page' = Marked(Owned(t), "failed") /\ <<p, t>> \in notices BY <1>10 DEF CascadeFailed
 <2>2. i \in Owned(t) BY <1>0, <2>1 DEF PageStatus
 <2>3. task[t].status = "failed" BY <2>1 DEF Ordered, Noticed
 <2> QED BY <2>2, <2>3 DEF Owned
<1> QED BY <1>1, <1>3, <1>4, <1>5, <1>6, <1>7, <1>8, <1>9, <1>10, PageSteps

\* No notice, however late, fails a page of a later attempt.
THEOREM NoticesHold == Spec => NoticesHitTheirOwn
<1>1. WorkspaceInv /\ [Next]_vars =>
        [\A i \in DOMAIN page : page[i].status # "failed" /\ page'[i].status = "failed"
           => page[i].status = "Processing" /\ task[page[i].task].status = "failed"]_vars
  BY NoticeStep DEF WorkspaceInv
<1> QED BY <1>1, WorkspaceInvariant, PTL DEF Spec, NoticesHitTheirOwn
=============================================================================
