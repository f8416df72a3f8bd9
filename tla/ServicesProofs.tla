--------------------------- MODULE ServicesProofs ---------------------------
(* Proofs about the services in one system.  Every service's calls move by
   themselves, so what one service promises is shown of its own steps and
   kept by everybody else's:
   - what a pod makes sure of at Stripe settles (ServicesBootstrapSettles)
   - a connection is one row with its own grant (ServicesOneConnection)
   - what was taken back is gone (ServicesTakenBackIsGone)
   - a legal document is evidence (ServicesDocumentsAreEvidence).
   Of each action there is a lemma ...Is that says what it does to its own
   call, of each part of an invariant one that it is kept. *)
EXTENDS Services, FiniteSetTheorems, SequenceTheorems, FunctionTheorems, TLAPS

(* Calls: how a step of one moves it, and what that leaves of the others. *)
Alive(q) == Begun(q) /\ call[q].pc \notin Over
OverNow == {r \in Calls : call[r].pc \in Over}
Formed == call = [q \in Calls |-> [pc |-> call[q].pc, loc |-> call[q].loc, end |-> call[q].end, since |-> call[q].since]]

\* What holds of calls of every service.
CallsOK ==
  /\ plan \in Plans /\ Formed
  /\ \A q \in Calls : call[q].since \subseteq OverNow /\ q \notin call[q].since /\ (~Begun(q) => call[q] = Idle)

\* A call is set to something, and the others stay.
Becomes(q, pc, loc, end, since) ==
  /\ Formed'
  /\ call'[q].pc = pc /\ call'[q].loc = loc /\ call'[q].end = end /\ call'[q].since = since
  /\ \A r \in Calls \ {q} : call'[r] = call[r]

\* A call comes in, or goes on.
Advances(q) ==
  /\ plan' = plan /\ Formed' /\ (\A r \in Calls \ {q} : call'[r] = call[r]) /\ Begun(q)'
  /\ \/ ~Begun(q) /\ call'[q].since = OverNow
     \/ Alive(q) /\ call'[q].since = call[q].since

\* What a call that comes in becomes.
LEMMA EnterBecomes ==
  ASSUME Formed, NEW q \in Calls, NEW pc, NEW loc, NEW end, Enter(q, pc, loc, end)
  PROVE  Becomes(q, pc, loc, end, OverNow)
  BY DEF Formed, Enter, Becomes, OverNow

\* What a call that moves becomes.
LEMMA MovesBecomes ==
  ASSUME Formed, NEW q \in Calls, NEW pc, NEW loc, NEW end, Moves(q, pc, loc, end)
  PROVE  Becomes(q, pc, loc, end, call[q].since)
  BY DEF Formed, Moves, Becomes

\* What a call that goes on becomes.
LEMMA GoesBecomes ==
  ASSUME Formed, NEW q \in Calls, NEW to, NEW loc, Goes(q, to, loc)
  PROVE  Becomes(q, to, loc, call[q].end, call[q].since)
  BY MovesBecomes DEF Goes

\* What a call that answers becomes.
LEMMA EndsBecomes ==
  ASSUME Formed, NEW q \in Calls, NEW end, Ends(q, end)
  PROVE  Becomes(q, "done", Loc(q), end, call[q].since)
  BY MovesBecomes DEF Ends

\* What a call becomes whose pod dies.
LEMMA DiesBecomes ==
  ASSUME Formed, NEW q \in Calls, Dies(q)
  PROVE  Becomes(q, "dead", Loc(q), call[q].end, call[q].since) /\ Alive(q) /\ plan.failures
  BY MovesBecomes DEF Dies, Alive

\* What a call that comes in and goes on becomes.
LEMMA StartsBecomes ==
  ASSUME Formed, NEW q \in Calls, NEW ops, NEW pc, NEW loc, Starts(q, ops, pc, loc)
  PROVE  Becomes(q, pc, loc, None, OverNow) /\ ~Begun(q) /\ Does(q).op \in ops
  BY EnterBecomes DEF Starts, Starting, Begun

\* What a call that is answered at once becomes.
LEMMA AnswersBecomes ==
  ASSUME Formed, NEW q \in Calls, NEW ops, NEW end, Answers(q, ops, end)
  PROVE  Becomes(q, "done", None, end, OverNow) /\ ~Begun(q) /\ Does(q).op \in ops
  BY EnterBecomes DEF Answers, Starting, Begun

\* A call that comes in takes a turn.
LEMMA EnterTurn ==
  ASSUME CallsOK, plan' = plan, NEW q \in Calls, NEW pc, NEW loc, NEW end, pc # "new", ~Begun(q), Becomes(q, pc, loc, end, OverNow)
  PROVE  Advances(q)
  BY DEF Advances, Becomes, Begun

\* So does one that goes on.
LEMMA OnTurn ==
  ASSUME CallsOK, plan' = plan, NEW q \in Calls, NEW pc, NEW loc, NEW end, pc # "new", Alive(q),
         Becomes(q, pc, loc, end, call[q].since)
  PROVE  Advances(q)
  BY DEF Advances, Becomes, Begun

\* What holds of calls is kept by every turn.
LEMMA TurnKeeps ==
  ASSUME CallsOK, NEW q \in Calls, Advances(q)
  PROVE  CallsOK'
<1>1. OverNow \subseteq OverNow'
 <2> SUFFICES ASSUME NEW r \in OverNow  PROVE r \in OverNow' OBVIOUS
 <2>1. r # q BY DEF OverNow, Advances, Alive, Begun, Over
 <2> QED BY <2>1 DEF OverNow, Advances
<1>2. q \notin OverNow BY DEF OverNow, Advances, Alive, Begun, Over
<1>3. ASSUME NEW r \in Calls
      PROVE  call'[r].since \subseteq OverNow' /\ r \notin call'[r].since /\ (~Begun(r)' => call'[r] = Idle)
 <2>1. CASE r = q BY <1>1, <1>2, <2>1 DEF Advances, CallsOK
 <2>2. CASE r # q BY <1>1, <2>2 DEF Advances, CallsOK, Begun
 <2> QED BY <2>1, <2>2
<1> QED BY <1>3 DEF CallsOK, Advances

\* And by a step that moves no call.
LEMMA StillKeeps ==
  ASSUME CallsOK, plan' = plan, call' = call
  PROVE  CallsOK'
  BY DEF CallsOK, Formed, OverNow, Begun

\* Who has begun has begun for good, and knows for good who was over by then.
LEMMA TurnSince ==
  ASSUME NEW q \in Calls, Advances(q), NEW r \in Calls, Begun(r)
  PROVE  Begun(r)' /\ call'[r].since = call[r].since
  BY DEF Advances, Begun, Alive

\* A call that begins was begun by nobody before, so it is known to nobody.
LEMMA TurnNew ==
  ASSUME CallsOK, NEW q \in Calls, Advances(q), ~Begun(q)
  PROVE  /\ \A r \in Calls : q \notin call[r].since /\ q \notin call'[r].since
         /\ q \notin OverNow
  BY DEF Advances, Begun, Alive, CallsOK, OverNow, Over

\* Two calls that overlap do so for good.
LEMMA TurnOverlap ==
  ASSUME NEW q \in Calls, Advances(q), NEW a \in Calls, NEW b \in Calls, Overlap(a, b)
  PROVE  Overlap(a, b)'
<1>1. Begun(a)' /\ call'[a].since = call[a].since /\ Begun(b)' /\ call'[b].since = call[b].since
  BY TurnSince DEF Overlap
<1> QED BY <1>1 DEF Overlap

\* It overlaps everyone who is on the way too.
LEMMA BothOverlap ==
  ASSUME CallsOK, NEW a \in Calls, Alive(a), NEW b \in Calls, Alive(b), a # b
  PROVE  Overlap(a, b) /\ Overlap(b, a)
  BY DEF CallsOK, Alive, Overlap, OverNow

\* A call that begins overlaps whoever is on its way.
LEMMA NewOverlaps ==
  ASSUME CallsOK, NEW q \in Calls, Advances(q), ~Begun(q), NEW a \in Calls, Alive(a)
  PROVE  Overlap(a, q)' /\ Overlap(q, a)' /\ a # q
<1>1. a # q /\ Begun(a) /\ a \notin OverNow BY DEF Alive, OverNow
<1>2. Begun(a)' /\ call'[a].since = call[a].since /\ Begun(q)' /\ call'[q].since = OverNow
  BY <1>1, TurnSince DEF Advances, Alive
<1>3. q \notin call[a].since BY TurnNew
<1> QED BY <1>1, <1>2, <1>3 DEF Overlap

\* Overlapping goes both ways.
LEMMA OverlapTurned ==
  ASSUME NEW a, NEW b, Overlap(a, b)
  PROVE  Overlap(b, a)
  BY DEF Overlap

--------------------
(* What a pod makes sure of at Stripe *)
ProductRow == [active : BOOLEAN, indexed : BOOLEAN, by : Calls \cup {None}]
MeterState == {"active", "stopped", "gone"}
BootOps == Boots \cup {"archiveProduct", "stopMeter"}

BootTypes ==
  /\ product \in Seq(ProductRow) /\ stored \in 0 .. Len(product)
  /\ meter \in Seq(MeterState) /\ setting \in 0 .. Len(meter)

\* What a start on its way holds, by its place; what is done by hand is done at once.
StartHolds(q) ==
  /\ Does(q).op = "ensureProduct" =>
       /\ Loc(q) \in [id : 0 .. Len(product), found : 0 .. Len(product)]
       /\ call[q].pc = "retrieve" => Loc(q).id # 0
       /\ call[q].pc = "store" => Loc(q).found # 0
  /\ Does(q).op = "ensureMeter" =>
       /\ Loc(q) \in [id : 0 .. Len(meter)]
       /\ call[q].pc \in {"retrieve", "store"} => Loc(q).id # 0
BootHolds ==
  \A q \in Calls : /\ Alive(q) => StartHolds(q)
                   /\ Does(q).op \in {"archiveProduct", "stopMeter"} => ~Alive(q)
                   /\ Does(q).op \in BootOps /\ call[q].pc # "done" => call[q].end = None

\* The rows and what a start has read keep naming what is there.
LEMMA RowsGrow ==
  ASSUME NEW S, NEW s \in Seq(S), NEW x \in S
  PROVE  /\ Append(s, x) \in Seq(S) /\ Len(Append(s, x)) = Len(s) + 1
         /\ \A i \in 1 .. Len(s) : Append(s, x)[i] = s[i]
         /\ Append(s, x)[Len(s) + 1] = x
  OBVIOUS

\* A sequence over a part is one over the whole.
LEMMA SeqOfPart ==
  ASSUME NEW S, NEW T, S \subseteq T, NEW s \in Seq(S)
  PROVE  s \in Seq(T)
<1>1. s \in [1 .. Len(s) -> S] /\ Len(s) \in Nat OBVIOUS
<1>2. s \in [1 .. Len(s) -> T] BY <1>1
<1> QED BY <1>1, <1>2

\* What each step of a start does to its call.
Entered(q, pc, loc) == ~Begun(q) /\ Becomes(q, pc, loc, None, OverNow)
Answered(q, end) == ~Begun(q) /\ Becomes(q, "done", None, end, OverNow)
Went(q, from, to, loc) == call[q].pc = from /\ Becomes(q, to, loc, call[q].end, call[q].since)
Ended(q, from, end) == call[q].pc = from /\ Becomes(q, "done", Loc(q), end, call[q].since)

\* Coming in, as a place and what is held there.
LEMMA StartsEnters ==
  ASSUME Formed, NEW q \in Calls, NEW ops, NEW pc, NEW loc, Starts(q, ops, pc, loc)
  PROVE  Entered(q, pc, loc) /\ Does(q).op \in ops
  BY StartsBecomes DEF Entered

\* Being answered at once.
LEMMA AnswersAnswered ==
  ASSUME Formed, NEW q \in Calls, NEW ops, NEW end, Answers(q, ops, end)
  PROVE  Answered(q, end) /\ Does(q).op \in ops
  BY AnswersBecomes DEF Answered

\* Going on.
LEMMA GoesWent ==
  ASSUME Formed, NEW q \in Calls, NEW ops, NEW from, At(q, ops, from), NEW to, NEW loc, Goes(q, to, loc)
  PROVE  Went(q, from, to, loc) /\ Does(q).op \in ops
  BY GoesBecomes DEF Went, At

\* Ending.
LEMMA EndsEnded ==
  ASSUME Formed, NEW q \in Calls, NEW ops, NEW from, At(q, ops, from), NEW end, Ends(q, end)
  PROVE  Ended(q, from, end) /\ Does(q).op \in ops
  BY EndsBecomes DEF Ended, At

\* The steps of ensureProduct, as what they read and write.
LEMMA FindProductRowIs ==
  ASSUME Formed, NEW q \in Calls, FindProductRow(q)
  PROVE  /\ Entered(q, IF stored = 0 THEN "search" ELSE "retrieve", [id |-> stored, found |-> 0])
         /\ Does(q).op = "ensureProduct" /\ UNCHANGED bootstrapVars
  BY StartsEnters DEF FindProductRow

\* The step RetrieveProduct, as what it reads and writes.
LEMMA RetrieveProductIs ==
  ASSUME Formed, NEW q \in Calls, RetrieveProduct(q)
  PROVE  /\ Does(q).op = "ensureProduct" /\ UNCHANGED bootstrapVars
         /\ \/ Went(q, "retrieve", "search", Loc(q))
            \/ product[Loc(q).id].active /\ Ended(q, "retrieve", "kept")
<1>1. At(q, {"ensureProduct"}, "retrieve") /\ UNCHANGED bootstrapVars BY DEF RetrieveProduct
<1>2. Does(q).op = "ensureProduct" BY <1>1 DEF At
<1>3. CASE Goes(q, "search", Loc(q)) BY <1>1, <1>2, <1>3, GoesWent
<1>4. CASE product[Loc(q).id].active /\ Ends(q, "kept") BY <1>1, <1>2, <1>4, EndsEnded
<1> QED BY <1>3, <1>4 DEF RetrieveProduct

\* The step SearchProduct, as what it reads and writes.
LEMMA SearchProductIs ==
  ASSUME Formed, NEW q \in Calls, SearchProduct(q)
  PROVE  /\ Does(q).op = "ensureProduct" /\ UNCHANGED bootstrapVars
         /\ \/ Searched = {} /\ Went(q, "search", "create", Loc(q))
            \/ \E i \in Searched : Went(q, "search", "store", [Loc(q) EXCEPT !.found = i])
            \/ Ended(q, "search", "failed")
<1>1. At(q, {"ensureProduct"}, "search") /\ UNCHANGED bootstrapVars BY DEF SearchProduct
<1>2. Does(q).op = "ensureProduct" BY <1>1 DEF At
<1>3. CASE Searched = {} /\ Goes(q, "create", Loc(q)) BY <1>1, <1>2, <1>3, GoesWent
<1>4. CASE \E i \in Searched : Goes(q, "store", [Loc(q) EXCEPT !.found = i])
 <2>1. PICK i \in Searched : Goes(q, "store", [Loc(q) EXCEPT !.found = i]) BY <1>4
 <2>2. Went(q, "search", "store", [Loc(q) EXCEPT !.found = i]) BY <1>1, <2>1, GoesWent
 <2> QED BY <1>1, <1>2, <2>2
<1>5. CASE Ends(q, "failed") BY <1>1, <1>2, <1>5, EndsEnded
<1> QED BY <1>3, <1>4, <1>5 DEF SearchProduct

\* The step CreateProduct, as what it reads and writes.
LEMMA CreateProductIs ==
  ASSUME Formed, NEW q \in Calls, CreateProduct(q)
  PROVE  /\ Does(q).op = "ensureProduct" /\ UNCHANGED <<stored, meter, setting>>
         /\ \/ /\ Went(q, "create", "store", [Loc(q) EXCEPT !.found = Created])
               /\ product' = Append(product, [active |-> TRUE, indexed |-> plan.windows = 0, by |-> q])
            \/ Ended(q, "create", "failed") /\ product' = product
<1>1. At(q, {"ensureProduct"}, "create") /\ UNCHANGED <<stored, meter, setting>> BY DEF CreateProduct
<1>2. Does(q).op = "ensureProduct" BY <1>1 DEF At
<1>3. CASE /\ Goes(q, "store", [Loc(q) EXCEPT !.found = Created])
           /\ product' = Append(product, [active |-> TRUE, indexed |-> plan.windows = 0, by |-> q])
  BY <1>1, <1>2, <1>3, GoesWent
<1>4. CASE Ends(q, "failed") /\ UNCHANGED product BY <1>1, <1>2, <1>4, EndsEnded
<1> QED BY <1>3, <1>4 DEF CreateProduct

\* The step StoreProduct, as what it reads and writes.
LEMMA StoreProductIs ==
  ASSUME Formed, NEW q \in Calls, StoreProduct(q)
  PROVE  /\ Does(q).op = "ensureProduct" /\ UNCHANGED <<product, meter, setting>>
         /\ \/ Ended(q, "store", "stored") /\ stored' = Loc(q).found
            \/ Ended(q, "store", "failed") /\ stored' = stored
<1>1. At(q, {"ensureProduct"}, "store") /\ UNCHANGED <<product, meter, setting>> BY DEF StoreProduct
<1>2. Does(q).op = "ensureProduct" BY <1>1 DEF At
<1>3. CASE Ends(q, "stored") /\ stored' = Loc(q).found BY <1>1, <1>2, <1>3, EndsEnded
<1>4. CASE Ends(q, "failed") /\ UNCHANGED stored BY <1>1, <1>2, <1>4, EndsEnded
<1> QED BY <1>3, <1>4 DEF StoreProduct

\* The steps of ensureMeter.
LEMMA FindSettingIs ==
  ASSUME Formed, NEW q \in Calls, FindSetting(q)
  PROVE  /\ Entered(q, IF setting = 0 THEN "list" ELSE "retrieve", [id |-> setting])
         /\ Does(q).op = "ensureMeter" /\ UNCHANGED bootstrapVars
  BY StartsEnters DEF FindSetting

\* The step RetrieveMeter, as what it reads and writes.
LEMMA RetrieveMeterIs ==
  ASSUME Formed, NEW q \in Calls, RetrieveMeter(q)
  PROVE  /\ Does(q).op = "ensureMeter" /\ UNCHANGED bootstrapVars
         /\ Ended(q, "retrieve", "kept") \/ Went(q, "retrieve", "forget", Loc(q))
<1>1. At(q, {"ensureMeter"}, "retrieve") /\ UNCHANGED bootstrapVars BY DEF RetrieveMeter
<1>2. Does(q).op = "ensureMeter" BY <1>1 DEF At
<1>3. CASE Ends(q, "kept") BY <1>1, <1>2, <1>3, EndsEnded
<1>4. CASE Goes(q, "forget", Loc(q)) BY <1>1, <1>2, <1>4, GoesWent
<1> QED BY <1>3, <1>4 DEF RetrieveMeter

\* The step ForgetMeter, as what it reads and writes.
LEMMA ForgetMeterIs ==
  ASSUME Formed, NEW q \in Calls, ForgetMeter(q)
  PROVE  /\ Does(q).op = "ensureMeter" /\ UNCHANGED <<product, stored, meter>> /\ setting' = 0
         /\ \/ setting = 0 /\ Ended(q, "forget", "failed")
            \/ setting # 0 /\ Went(q, "forget", "list", Loc(q))
<1>1. At(q, {"ensureMeter"}, "forget") /\ UNCHANGED <<product, stored, meter>> /\ setting' = 0 BY DEF ForgetMeter
<1>2. Does(q).op = "ensureMeter" BY <1>1 DEF At
<1>3. CASE setting = 0 /\ Ends(q, "failed") BY <1>1, <1>2, <1>3, EndsEnded
<1>4. CASE setting # 0 /\ Goes(q, "list", Loc(q)) BY <1>1, <1>2, <1>4, GoesWent
<1> QED BY <1>3, <1>4 DEF ForgetMeter

\* The step ListMeters, as what it reads and writes.
LEMMA ListMetersIs ==
  ASSUME Formed, NEW q \in Calls, ListMeters(q)
  PROVE  /\ Does(q).op = "ensureMeter" /\ UNCHANGED bootstrapVars
         /\ \/ Went(q, "list", "create", Loc(q))
            \/ \E i \in Listed : Went(q, "list", "store", [id |-> i])
            \/ plan.failures /\ Ended(q, "list", "failed")
<1>1. At(q, {"ensureMeter"}, "list") /\ UNCHANGED bootstrapVars BY DEF ListMeters
<1>2. Does(q).op = "ensureMeter" BY <1>1 DEF At
<1>3. CASE Goes(q, "create", Loc(q)) BY <1>1, <1>2, <1>3, GoesWent
<1>4. CASE \E i \in Listed : Goes(q, "store", [id |-> i])
 <2>1. PICK i \in Listed : Goes(q, "store", [id |-> i]) BY <1>4
 <2>2. Went(q, "list", "store", [id |-> i]) BY <1>1, <2>1, GoesWent
 <2> QED BY <1>1, <1>2, <2>2
<1>5. CASE plan.failures /\ Ends(q, "failed") BY <1>1, <1>2, <1>5, EndsEnded
<1> QED BY <1>3, <1>4, <1>5 DEF ListMeters

\* The step CreateMeter, as what it reads and writes.
LEMMA CreateMeterIs ==
  ASSUME Formed, NEW q \in Calls, CreateMeter(q)
  PROVE  /\ Does(q).op = "ensureMeter" /\ UNCHANGED <<product, stored, setting>>
         /\ \/ Went(q, "create", "store", [id |-> Len(meter) + 1]) /\ meter' = Append(meter, "active")
            \/ plan.failures /\ Ended(q, "create", "failed") /\ meter' = meter
<1>1. At(q, {"ensureMeter"}, "create") /\ UNCHANGED <<product, stored, setting>> BY DEF CreateMeter
<1>2. Does(q).op = "ensureMeter" BY <1>1 DEF At
<1>3. CASE Goes(q, "store", [id |-> Len(meter) + 1]) /\ meter' = Append(meter, "active") BY <1>1, <1>2, <1>3, GoesWent
<1>4. CASE plan.failures /\ Ends(q, "failed") /\ UNCHANGED meter BY <1>1, <1>2, <1>4, EndsEnded
<1> QED BY <1>3, <1>4 DEF CreateMeter

\* The step StoreMeter, as what it reads and writes.
LEMMA StoreMeterIs ==
  ASSUME Formed, NEW q \in Calls, StoreMeter(q)
  PROVE  /\ Does(q).op = "ensureMeter" /\ UNCHANGED <<product, stored, meter>>
         /\ Ended(q, "store", "stored") /\ setting' = Loc(q).id
<1>1. At(q, {"ensureMeter"}, "store") BY DEF StoreMeter
<1> QED BY <1>1, EndsEnded DEF StoreMeter, At

\* What is done by hand.
LEMMA ArchiveProductIs ==
  ASSUME Formed, NEW q \in Calls, ArchiveProduct(q)
  PROVE  /\ Does(q).op = "archiveProduct" /\ UNCHANGED <<stored, meter, setting>> /\ Answered(q, "archived")
         /\ \E i \in DOMAIN product : product' = [product EXCEPT ![i].active = FALSE]
<1>1. Answers(q, {"archiveProduct"}, "archived") BY DEF ArchiveProduct
<1>2. Answered(q, "archived") /\ Does(q).op = "archiveProduct" BY <1>1, AnswersAnswered
<1> QED BY <1>2 DEF ArchiveProduct

\* The step StopMeter, as what it reads and writes.
LEMMA StopMeterIs ==
  ASSUME Formed, NEW q \in Calls, StopMeter(q)
  PROVE  /\ Does(q).op = "stopMeter" /\ UNCHANGED <<product, stored, setting>> /\ Answered(q, "stopped")
         /\ \E i \in DOMAIN meter : meter' = [meter EXCEPT ![i] = "stopped"]
<1>1. Answers(q, {"stopMeter"}, "stopped") BY DEF StopMeter
<1>2. Answered(q, "stopped") /\ Does(q).op = "stopMeter" BY <1>1, AnswersAnswered
<1> QED BY <1>2 DEF StopMeter

\* Whoever is at a place of a handler is on the way; coming in, going on and ending are turns.
LEMMA EnteredTurn ==
  ASSUME CallsOK, plan' = plan, NEW q \in Calls, NEW pc, pc # "new", NEW loc, Entered(q, pc, loc)
  PROVE  Advances(q)
  BY EnterTurn DEF Entered

\* Being answered at once is a turn.
LEMMA AnsweredTurn ==
  ASSUME CallsOK, plan' = plan, NEW q \in Calls, NEW end, Answered(q, end)
  PROVE  Advances(q)
  BY EnterTurn DEF Answered

\* Going on is a turn.
LEMMA WentTurn ==
  ASSUME CallsOK, plan' = plan, NEW q \in Calls, NEW from, from \notin Over \cup {"new"}, NEW to, to # "new",
         NEW loc, Went(q, from, to, loc)
  PROVE  Advances(q) /\ Alive(q)
<1>1. Alive(q) BY DEF Went, Alive, Begun, Over
<1> QED BY <1>1, OnTurn DEF Went

\* Ending is a turn.
LEMMA EndedTurn ==
  ASSUME CallsOK, plan' = plan, NEW q \in Calls, NEW from, from \notin Over \cup {"new"}, NEW end, Ended(q, from, end)
  PROVE  Advances(q) /\ Alive(q)
<1>1. Alive(q) BY DEF Ended, Alive, Begun, Over
<1> QED BY <1>1, OnTurn DEF Ended

\* Dying is a turn.
LEMMA DiesTurn ==
  ASSUME CallsOK, plan' = plan, NEW q \in Calls, Dies(q)
  PROVE  Advances(q) /\ Alive(q)
  BY DiesBecomes, OnTurn DEF CallsOK

\* A step of ensureProduct or of ensureMeter is a turn, and so is what is done by hand.
LEMMA BootTurn ==
  ASSUME CallsOK, NEW q \in Calls, BootstrapStep(q)
  PROVE  Advances(q) /\ Does(q).op \in BootOps
<1>0. plan' = plan /\ Formed BY DEF BootstrapStep, CallsOK
<1> USE DEF BootOps, Boots, Over
<1>1. CASE FindProductRow(q) BY <1>0, <1>1, FindProductRowIs, EnteredTurn
<1>2. CASE RetrieveProduct(q) BY <1>0, <1>2, RetrieveProductIs, WentTurn, EndedTurn
<1>3. CASE SearchProduct(q) BY <1>0, <1>3, SearchProductIs, WentTurn, EndedTurn
<1>4. CASE CreateProduct(q) BY <1>0, <1>4, CreateProductIs, WentTurn, EndedTurn
<1>5. CASE StoreProduct(q) BY <1>0, <1>5, StoreProductIs, EndedTurn
<1>6. CASE FindSetting(q) BY <1>0, <1>6, FindSettingIs, EnteredTurn
<1>7. CASE RetrieveMeter(q) BY <1>0, <1>7, RetrieveMeterIs, WentTurn, EndedTurn
<1>8. CASE ForgetMeter(q) BY <1>0, <1>8, ForgetMeterIs, WentTurn, EndedTurn
<1>9. CASE ListMeters(q) BY <1>0, <1>9, ListMetersIs, WentTurn, EndedTurn
<1>10. CASE CreateMeter(q) BY <1>0, <1>10, CreateMeterIs, WentTurn, EndedTurn
<1>11. CASE StoreMeter(q) BY <1>0, <1>11, StoreMeterIs, EndedTurn
<1>12. CASE ArchiveProduct(q) BY <1>0, <1>12, ArchiveProductIs, AnsweredTurn
<1>13. CASE StopMeter(q) BY <1>0, <1>13, StopMeterIs, AnsweredTurn
<1>14. CASE Does(q).op \in Boots /\ Dies(q) BY <1>0, <1>14, DiesTurn
<1> QED
  BY <1>1, <1>2, <1>3, <1>4, <1>5, <1>6, <1>7, <1>8, <1>9, <1>10, <1>11, <1>12, <1>13, <1>14
     DEF BootstrapStep, ensureProduct, ensureMeter

\* One call's part of BootHolds, and that a step keeps it for the others.
BootPlace(q) ==
  /\ Alive(q) => StartHolds(q)
  /\ Does(q).op \in {"archiveProduct", "stopMeter"} => ~Alive(q)
  /\ Does(q).op \in BootOps /\ call[q].pc # "done" => call[q].end = None

\* BootHolds, call by call.
LEMMA BootHoldsIs ==
  BootHolds <=> \A q \in Calls : BootPlace(q)
  BY DEF BootHolds, BootPlace

\* What the others hold stays while rows only get more.
LEMMA BootOthers ==
  ASSUME BootTypes, BootHolds, NEW q \in Calls, Advances(q), Len(product') \in Nat, Len(meter') \in Nat,
         Len(product) <= Len(product'), Len(meter) <= Len(meter'), BootPlace(q)'
  PROVE  BootHolds'
<1>1. ASSUME NEW r \in Calls, r # q  PROVE BootPlace(r)'
 <2>1. BootPlace(r) /\ call'[r] = call[r] /\ plan' = plan BY <1>1, BootHoldsIs DEF Advances
 <2>2. 0 .. Len(product) \subseteq 0 .. Len(product') /\ 0 .. Len(meter) \subseteq 0 .. Len(meter') BY DEF BootTypes
 <2>3. Alive(r)' => StartHolds(r)' BY <2>1, <2>2 DEF BootPlace, Alive, Begun, StartHolds, Does, Loc
 <2> QED BY <2>1, <2>3 DEF BootPlace, Alive, Begun, Does
<1> QED BY <1>1 DEF BootHolds, BootPlace

\* A start that comes in, goes on or ends, with what it then holds.
LEMMA PlaceEntered ==
  ASSUME plan' = plan, NEW q \in Calls, NEW pc, NEW loc, pc # "new", pc \notin Over, Entered(q, pc, loc),
         Does(q).op \in Boots,
         Does(q).op = "ensureProduct" => /\ loc \in [id : 0 .. Len(product'), found : 0 .. Len(product')]
                                         /\ pc = "retrieve" => loc.id # 0
                                         /\ pc = "store" => loc.found # 0,
         Does(q).op = "ensureMeter" => loc \in [id : 0 .. Len(meter')] /\ (pc \in {"retrieve", "store"} => loc.id # 0)
  PROVE  BootPlace(q)'
  BY DEF Entered, Becomes, BootPlace, Alive, Begun, StartHolds, Does, Loc, Over, Boots, BootOps

\* One that goes on.
LEMMA PlaceWent ==
  ASSUME plan' = plan, BootHolds, NEW q \in Calls, NEW from, NEW pc, NEW loc, from # "done", pc # "new", pc \notin Over, Went(q, from, pc, loc),
         Does(q).op \in Boots,
         Does(q).op = "ensureProduct" => /\ loc \in [id : 0 .. Len(product'), found : 0 .. Len(product')]
                                         /\ pc = "retrieve" => loc.id # 0
                                         /\ pc = "store" => loc.found # 0,
         Does(q).op = "ensureMeter" => loc \in [id : 0 .. Len(meter')] /\ (pc \in {"retrieve", "store"} => loc.id # 0)
  PROVE  BootPlace(q)'
  BY DEF Went, Becomes, BootPlace, BootHolds, Alive, Begun, StartHolds, Does, Loc, Over, Boots, BootOps

\* One that is over.
LEMMA PlaceOver ==
  ASSUME NEW q \in Calls, call'[q].pc = "done" \/ (call'[q].pc = "dead" /\ call'[q].end = None)
  PROVE  BootPlace(q)'
  BY DEF BootPlace, Alive, Begun, Over

\* One that ends.
LEMMA PlaceEnded ==
  ASSUME NEW q \in Calls, NEW from, NEW end, Ended(q, from, end)
  PROVE  BootPlace(q)'
  BY PlaceOver DEF Ended, Becomes

\* One that is answered at once.
LEMMA PlaceAnswered ==
  ASSUME NEW q \in Calls, NEW end, Answered(q, end)
  PROVE  BootPlace(q)'
  BY PlaceOver DEF Answered, Becomes

\* The rows name what Stripe has, and a start what it has read, after every step.
LEMMA BootKept ==
  ASSUME CallsOK, BootTypes, BootHolds, NEW q \in Calls, BootstrapStep(q)
  PROVE  BootTypes' /\ BootHolds'
<1>0. plan' = plan /\ Formed /\ Advances(q) /\ Does(q).op \in BootOps /\ Len(product) \in Nat /\ Len(meter) \in Nat
  BY BootTurn DEF BootstrapStep, CallsOK, BootTypes
<1>1. ASSUME UNCHANGED bootstrapVars, BootPlace(q)'  PROVE BootTypes' /\ BootHolds'
  BY <1>0, <1>1, BootOthers DEF BootTypes, bootstrapVars
<1>2. ASSUME Alive(q), Does(q).op \in Boots  PROVE StartHolds(q) BY <1>2 DEF BootHolds
<1>3. \A from : call[q].pc = from /\ from \notin Over \cup {"new"} => Alive(q) BY DEF Alive, Begun
<1> USE DEF Over, Boots
<1>11. CASE FindProductRow(q) BY <1>0, <1>1, <1>11, FindProductRowIs, PlaceEntered DEF BootTypes, bootstrapVars
<1>12. CASE RetrieveProduct(q)
 <2>0. StartHolds(q) /\ Does(q).op = "ensureProduct" /\ UNCHANGED bootstrapVars
   BY <1>0, <1>2, <1>3, <1>12, RetrieveProductIs DEF Went, Ended
 <2>1. Ended(q, "retrieve", "kept") => BootPlace(q)' BY PlaceEnded
 <2>2. Went(q, "retrieve", "search", Loc(q)) => BootPlace(q)' BY <1>0, <2>0, PlaceWent DEF bootstrapVars, StartHolds
 <2> QED BY <1>0, <1>1, <1>12, <2>1, <2>2, RetrieveProductIs
<1>13. CASE SearchProduct(q)
 <2>0. StartHolds(q) /\ Does(q).op = "ensureProduct" /\ UNCHANGED bootstrapVars
   BY <1>0, <1>2, <1>3, <1>13, SearchProductIs DEF Went, Ended
 <2>1. Ended(q, "search", "failed") => BootPlace(q)' BY PlaceEnded
 <2>2. Went(q, "search", "create", Loc(q)) => BootPlace(q)' BY <1>0, <2>0, PlaceWent DEF bootstrapVars, StartHolds
 <2>3. ASSUME NEW i \in Searched, Went(q, "search", "store", [Loc(q) EXCEPT !.found = i])  PROVE BootPlace(q)'
  <3>1. i \in 1 .. Len(product) BY DEF Searched, BootTypes
  <3>2. /\ [Loc(q) EXCEPT !.found = i] \in [id : 0 .. Len(product'), found : 0 .. Len(product')]
        /\ [Loc(q) EXCEPT !.found = i].found # 0
    BY <2>0, <3>1 DEF bootstrapVars, StartHolds
  <3> QED BY <1>0, <2>0, <2>3, <3>2, PlaceWent
 <2> QED BY <1>0, <1>1, <1>13, <2>1, <2>2, <2>3, SearchProductIs
<1>14. CASE CreateProduct(q)
 <2>0. StartHolds(q) /\ Does(q).op = "ensureProduct" /\ UNCHANGED <<stored, meter, setting>>
   BY <1>0, <1>2, <1>3, <1>14, CreateProductIs DEF Went, Ended
 <2>1. CASE Ended(q, "create", "failed") /\ product' = product BY <1>0, <1>1, <2>0, <2>1, PlaceEnded DEF bootstrapVars
 <2>2. CASE /\ Went(q, "create", "store", [Loc(q) EXCEPT !.found = Created])
            /\ product' = Append(product, [active |-> TRUE, indexed |-> plan.windows = 0, by |-> q])
  <3>1. [active |-> TRUE, indexed |-> plan.windows = 0, by |-> q] \in ProductRow BY DEF ProductRow
  <3>2. product' \in Seq(ProductRow) /\ Len(product') = Len(product) + 1 BY <2>2, <3>1, RowsGrow DEF BootTypes
  <3>3. /\ [Loc(q) EXCEPT !.found = Created] \in [id : 0 .. Len(product'), found : 0 .. Len(product')]
        /\ [Loc(q) EXCEPT !.found = Created].found # 0
    BY <1>0, <2>0, <3>2 DEF StartHolds, Created
  <3>4. BootPlace(q)' BY <1>0, <2>0, <2>2, <3>3, PlaceWent
  <3>5. BootTypes' BY <1>0, <2>0, <3>2 DEF BootTypes
  <3> QED BY <1>0, <2>0, <3>2, <3>4, <3>5, BootOthers
 <2> QED BY <1>0, <1>14, <2>1, <2>2, CreateProductIs
<1>15. CASE StoreProduct(q)
 <2>0. StartHolds(q) /\ Does(q).op = "ensureProduct" /\ UNCHANGED <<product, meter, setting>> /\ call[q].pc = "store"
   BY <1>0, <1>2, <1>3, <1>15, StoreProductIs DEF Went, Ended
 <2>1. BootPlace(q)' BY <1>0, <1>15, StoreProductIs, PlaceEnded
 <2>2. stored' \in 0 .. Len(product) BY <1>0, <1>15, <2>0, StoreProductIs DEF StartHolds, BootTypes
 <2> QED BY <1>0, <2>0, <2>1, <2>2, BootOthers DEF BootTypes
<1>16. CASE FindSetting(q) BY <1>0, <1>1, <1>16, FindSettingIs, PlaceEntered DEF BootTypes, bootstrapVars
<1>17. CASE RetrieveMeter(q)
 <2>0. StartHolds(q) /\ Does(q).op = "ensureMeter" /\ UNCHANGED bootstrapVars
   BY <1>0, <1>2, <1>3, <1>17, RetrieveMeterIs DEF Went, Ended
 <2>1. Ended(q, "retrieve", "kept") => BootPlace(q)' BY PlaceEnded
 <2>2. Went(q, "retrieve", "forget", Loc(q)) => BootPlace(q)' BY <1>0, <2>0, PlaceWent DEF bootstrapVars, StartHolds
 <2> QED BY <1>0, <1>1, <1>17, <2>1, <2>2, RetrieveMeterIs
<1>18. CASE ForgetMeter(q)
 <2>0. StartHolds(q) /\ Does(q).op = "ensureMeter" /\ UNCHANGED <<product, stored, meter>> /\ setting' = 0
   BY <1>0, <1>2, <1>3, <1>18, ForgetMeterIs DEF Went, Ended
 <2>1. Ended(q, "forget", "failed") => BootPlace(q)' BY PlaceEnded
 <2>2. Went(q, "forget", "list", Loc(q)) => BootPlace(q)' BY <1>0, <2>0, PlaceWent DEF StartHolds
 <2> QED BY <1>0, <1>18, <2>0, <2>1, <2>2, ForgetMeterIs, BootOthers DEF BootTypes
<1>19. CASE ListMeters(q)
 <2>0. StartHolds(q) /\ Does(q).op = "ensureMeter" /\ UNCHANGED bootstrapVars
   BY <1>0, <1>2, <1>3, <1>19, ListMetersIs DEF Went, Ended
 <2>1. Ended(q, "list", "failed") => BootPlace(q)' BY PlaceEnded
 <2>2. Went(q, "list", "create", Loc(q)) => BootPlace(q)' BY <1>0, <2>0, PlaceWent DEF bootstrapVars, StartHolds
 <2>3. ASSUME NEW i \in Listed, Went(q, "list", "store", [id |-> i])  PROVE BootPlace(q)'
  <3>1. i \in 1 .. Len(meter) BY DEF Listed, BootTypes
  <3>2. [id |-> i] \in [id : 0 .. Len(meter')] /\ [id |-> i].id # 0 BY <2>0, <3>1 DEF bootstrapVars
  <3> QED BY <1>0, <2>0, <2>3, <3>2, PlaceWent
 <2> QED BY <1>0, <1>1, <1>19, <2>1, <2>2, <2>3, ListMetersIs
<1>20. CASE CreateMeter(q)
 <2>0. StartHolds(q) /\ Does(q).op = "ensureMeter" /\ UNCHANGED <<product, stored, setting>>
   BY <1>0, <1>2, <1>3, <1>20, CreateMeterIs DEF Went, Ended
 <2>1. CASE Ended(q, "create", "failed") /\ meter' = meter BY <1>0, <1>1, <2>0, <2>1, PlaceEnded DEF bootstrapVars
 <2>2. CASE Went(q, "create", "store", [id |-> Len(meter) + 1]) /\ meter' = Append(meter, "active")
  <3>2. meter' \in Seq(MeterState) /\ Len(meter') = Len(meter) + 1 BY <2>2, RowsGrow DEF BootTypes, MeterState
  <3>3. [id |-> Len(meter) + 1] \in [id : 0 .. Len(meter')] /\ [id |-> Len(meter) + 1].id # 0 BY <1>0, <3>2
  <3>4. BootPlace(q)' BY <1>0, <2>0, <2>2, <3>3, PlaceWent
  <3>5. BootTypes' BY <1>0, <2>0, <3>2 DEF BootTypes
  <3> QED BY <1>0, <2>0, <3>2, <3>4, <3>5, BootOthers
 <2> QED BY <1>0, <1>20, <2>1, <2>2, CreateMeterIs
<1>21. CASE StoreMeter(q)
 <2>0. StartHolds(q) /\ Does(q).op = "ensureMeter" /\ UNCHANGED <<product, stored, meter>> /\ call[q].pc = "store"
   BY <1>0, <1>2, <1>3, <1>21, StoreMeterIs DEF Ended
 <2>1. BootPlace(q)' BY <1>0, <1>21, StoreMeterIs, PlaceEnded
 <2>2. setting' \in 0 .. Len(meter) BY <1>0, <1>21, <2>0, StoreMeterIs DEF StartHolds
 <2> QED BY <1>0, <2>0, <2>1, <2>2, BootOthers DEF BootTypes
<1>22. CASE ArchiveProduct(q)
 <2>0. PICK i \in DOMAIN product : product' = [product EXCEPT ![i].active = FALSE] BY <1>0, <1>22, ArchiveProductIs
 <2>1. BootPlace(q)' /\ UNCHANGED <<stored, meter, setting>> BY <1>0, <1>22, ArchiveProductIs, PlaceAnswered
 <2>2. product' \in Seq(ProductRow) /\ Len(product') = Len(product)
  <3>1. product[i] \in ProductRow /\ product \in Seq(ProductRow) BY DEF BootTypes
  <3>2. [product[i] EXCEPT !.active = FALSE] \in ProductRow BY <3>1 DEF ProductRow
  <3> DEFINE x == [product[i] EXCEPT !.active = FALSE]
  <3>3. product' = [product EXCEPT ![i] = x] BY <2>0
  <3> HIDE DEF x
  <3> QED BY <3>1, <3>2, <3>3 DEF x
 <2> QED BY <1>0, <2>1, <2>2, BootOthers DEF BootTypes
<1>23. CASE StopMeter(q)
 <2>0. PICK i \in DOMAIN meter : meter' = [meter EXCEPT ![i] = "stopped"] BY <1>0, <1>23, StopMeterIs
 <2>1. BootPlace(q)' /\ UNCHANGED <<product, stored, setting>> BY <1>0, <1>23, StopMeterIs, PlaceAnswered
 <2>2. meter' \in Seq(MeterState) /\ Len(meter') = Len(meter) BY <2>0 DEF BootTypes, MeterState
 <2> QED BY <1>0, <2>1, <2>2, BootOthers DEF BootTypes
<1>24. CASE Dies(q) /\ UNCHANGED bootstrapVars
 <2>1. call'[q].pc = "dead" /\ call'[q].end = call[q].end /\ call[q].pc # "done"
   BY <1>0, <1>24, DiesBecomes DEF Becomes, Alive
 <2>2. BootPlace(q)' BY <1>0, <2>1, PlaceOver DEF BootHolds
 <2> QED BY <1>1, <1>24, <2>2
<1> QED
  BY <1>11, <1>12, <1>13, <1>14, <1>15, <1>16, <1>17, <1>18, <1>19, <1>20, <1>21, <1>22, <1>23, <1>24
     DEF BootstrapStep, ensureProduct, ensureMeter

\* Its search catching up changes only that.
LEMMA IndexIs ==
  ASSUME BootTypes, IndexProduct
  PROVE  /\ UNCHANGED <<plan, call, stored, meter, setting>> /\ product' \in Seq(ProductRow) /\ Len(product') = Len(product)
         /\ \A i \in DOMAIN product : /\ product'[i].active = product[i].active /\ product'[i].by = product[i].by
                                      /\ product[i].indexed => product'[i].indexed
<1>1. PICK i \in DOMAIN product : product' = [product EXCEPT ![i].indexed = TRUE] BY DEF IndexProduct
<1>2. product' \in Seq(ProductRow) /\ Len(product') = Len(product)
 <2>1. product[i] \in ProductRow /\ product \in Seq(ProductRow) BY DEF BootTypes
 <2>2. [product[i] EXCEPT !.indexed = TRUE] \in ProductRow BY <2>1 DEF ProductRow
 <2> DEFINE x == [product[i] EXCEPT !.indexed = TRUE]
 <2>3. product' = [product EXCEPT ![i] = x] BY <1>1
 <2> HIDE DEF x
 <2> QED BY <2>1, <2>2, <2>3 DEF x
<1>3. \A k \in DOMAIN product : product[k] \in ProductRow BY DEF BootTypes
<1>4. ASSUME NEW k \in DOMAIN product
      PROVE  /\ product'[k].active = product[k].active /\ product'[k].by = product[k].by
             /\ product[k].indexed => product'[k].indexed
  BY <1>1, <1>3, <1>4 DEF ProductRow, BootTypes
<1> QED BY <1>2, <1>4 DEF IndexProduct

\* Whoever does what a start must not overlap leaves no start on its way, and one that has settled no more.
LEMMA ApartBack ==
  ASSUME NEW q \in Calls, Advances(q), NEW op, NEW hand, Apart(op, hand)'
  PROVE  Apart(op, hand)
<1>1. ASSUME NEW a \in Calls, NEW b \in Calls, Does(a).op = op, Does(b).op = hand, Overlap(a, b)  PROVE FALSE
 <2>1. Overlap(a, b)' /\ plan' = plan BY <1>1, TurnOverlap DEF Advances
 <2> QED BY <1>1, <2>1 DEF Apart, Does
<1> QED BY <1>1 DEF Apart

\* What is done by hand comes in when no start is on its way.
LEMMA HandMeetsNobody ==
  ASSUME CallsOK, NEW q \in Calls, Advances(q), ~Begun(q), NEW op, NEW hand, Does(q).op = hand, Apart(op, hand)'
  PROVE  \A r \in Calls : Does(r).op = op => ~Alive(r)
<1> SUFFICES ASSUME NEW r \in Calls, Does(r).op = op, Alive(r)  PROVE FALSE OBVIOUS
<1>1. Overlap(r, q)' /\ plan' = plan BY NewOverlaps DEF Advances
<1> QED BY <1>1 DEF Apart, Does

\* After it no start has settled yet.
LEMMA HandUnsettles ==
  ASSUME CallsOK, NEW q \in Calls, Advances(q), ~Begun(q), NEW op, NEW hand, Does(q).op = hand, NEW ends
  PROVE  ~Settled(op, hand, ends)'
<1>1. \A w \in Calls : q \notin call'[w].since BY TurnNew
<1>2. Begun(q)' /\ plan' = plan BY DEF Advances
<1> QED BY <1>1, <1>2 DEF Settled, Does

\* Who has settled after a step had settled before, or settles in it.
LEMMA SettledBack ==
  ASSUME CallsOK, NEW q \in Calls, Advances(q), NEW op, NEW hand, NEW ends, None \notin ends, Settled(op, hand, ends)'
  PROVE  Settled(op, hand, ends) \/ (Does(q).op = op /\ call'[q].end \in ends /\ call[q].end \notin ends)
<1>1. PICK w \in Calls : /\ Does(w).op = op /\ call'[w].end \in ends
                         /\ \A r \in Calls : Does(r).op = hand /\ Begun(r)' => r \in call'[w].since
  BY DEF Settled, Does, Advances
<1>2. CASE w = q /\ call[q].end \notin ends BY <1>1, <1>2
<1>3. CASE w # q \/ call[q].end \in ends
 <2>1. call[w].end \in ends /\ Begun(w) BY <1>1, <1>3 DEF Advances, CallsOK, Idle
 <2>2. call'[w].since = call[w].since BY <2>1, TurnSince
 <2>3. \A r \in Calls : Begun(r) => Begun(r)' BY TurnSince
 <2> QED BY <1>1, <2>1, <2>2, <2>3 DEF Settled
<1> QED BY <1>2, <1>3

(* One product, that sells, and a meter that takes usage *)
Making(q) == Does(q).op = "ensureProduct" /\ Alive(q)
ProductOf(i, q) == product[i].by # None /\ Overlap(product[i].by, q)
Single ==
  plan.windows = 0 =>
    /\ \A i \in DOMAIN product : product[i].indexed
    /\ \A i, k \in DOMAIN product : i # k /\ product[i].active /\ product[k].active
                                    => product[k].by # None /\ ProductOf(i, product[k].by)
    /\ \A q \in Calls, i \in DOMAIN product :
         Making(q) /\ call[q].pc = "create" /\ product[i].active => ProductOf(i, q)

Sells == stored # 0 /\ product[stored].active
Selling ==
  Apart("ensureProduct", "archiveProduct") =>
    /\ \A q \in Calls : Making(q) => /\ call[q].pc = "store" => product[Loc(q).found].active
                                     /\ call[q].pc = "retrieve" => stored = Loc(q).id \/ Sells
    /\ Settled("ensureProduct", "archiveProduct", {"stored", "kept"}) => Sells

TakesUsage == setting # 0 /\ meter[setting] = "active"
Metering ==
  ~plan.failures /\ Apart("ensureMeter", "stopMeter") =>
    /\ \A q \in Calls : Does(q).op = "ensureMeter" /\ Alive(q) /\ call[q].pc = "store" => meter[Loc(q).id] = "active"
    /\ Settled("ensureMeter", "stopMeter", {"stored"}) =>
         TakesUsage \/ \E q \in Calls : Does(q).op = "ensureMeter" /\ call[q].pc \in {"list", "create", "store"}

BootInv == BootTypes /\ BootHolds /\ Single /\ Selling /\ Metering

\* What the invariant says of Stripe and the rows.
LEMMA BootSettlesThen ==
  ASSUME CallsOK, BootInv
  PROVE  BootstrapSettles /\ BootstrapTypeOK
<1>1. OneProductUnlessRacing
 <2> SUFFICES ASSUME plan.windows = 0, NEW i \in DOMAIN product, NEW k \in DOMAIN product, i # k,
                     product[i].active, product[k].active
              PROVE  product[i].by # None /\ product[k].by # None /\ Overlap(product[i].by, product[k].by)
   BY DEF OneProductUnlessRacing
 <2> QED BY DEF BootInv, Single, ProductOf
<1>2. StoredProductSells BY DEF BootInv, Selling, StoredProductSells, Sells
<1>3. MeterTakesUsage
 <2> SUFFICES ASSUME ~plan.failures, Settled("ensureMeter", "stopMeter", {"stored"}), Apart("ensureMeter", "stopMeter"),
                     \A q \in Calls : Does(q).op = "ensureMeter" /\ Begun(q) => call[q].pc = "done"
              PROVE  TakesUsage
   BY DEF MeterTakesUsage, TakesUsage
 <2> QED BY DEF BootInv, Metering, Begun
<1>4. BootstrapTypeOK
 <2>1. \A i \in DOMAIN product : product[i] \in ProductRow BY DEF BootInv, BootTypes
 <2>2. \A i \in DOMAIN meter : meter[i] \in MeterState BY DEF BootInv, BootTypes
 <2>3. ASSUME NEW q \in Calls, At(q, {"ensureProduct"}, "store")  PROVE Loc(q).found \in DOMAIN product
   BY <2>3 DEF BootInv, BootTypes, BootHolds, StartHolds, At, Alive, Begun, Over
 <2> QED BY <2>1, <2>2, <2>3 DEF BootInv, BootTypes, BootstrapTypeOK, ProductRow, MeterState
<1> QED BY <1>1, <1>2, <1>3, <1>4 DEF BootstrapSettles

\* Products stay single where only the calls move, and where none becomes active.
LEMMA SingleStays ==
  ASSUME CallsOK, BootTypes, Single, NEW q \in Calls, Advances(q), DOMAIN product' = DOMAIN product,
         \A i \in DOMAIN product : /\ product'[i].active => product[i].active
                                   /\ product'[i].by = product[i].by
                                   /\ product[i].indexed => product'[i].indexed,
         Making(q)' /\ call'[q].pc = "create" => (Making(q) /\ call[q].pc = "create") \/ Searched = {}
  PROVE  Single'
<1> SUFFICES ASSUME plan.windows = 0  PROVE Single' BY DEF Single, Advances
<1>0. \A i \in DOMAIN product : product[i] \in ProductRow BY DEF BootTypes
<1>1. ASSUME NEW i \in DOMAIN product, NEW r \in Calls, ProductOf(i, r)  PROVE ProductOf(i, r)'
 <2>1. product[i].by \in Calls BY <1>0, <1>1 DEF ProductOf, ProductRow
 <2> QED BY <1>1, <2>1, TurnOverlap DEF ProductOf
<1>2. ASSUME NEW r \in Calls, NEW i \in DOMAIN product, Making(r)', call'[r].pc = "create", product'[i].active
      PROVE  ProductOf(i, r)'
 <2>1. CASE Making(r) /\ call[r].pc = "create" BY <1>1, <1>2, <2>1 DEF Single
 <2>2. CASE ~(Making(r) /\ call[r].pc = "create")
  <3>1. r = q BY <1>2, <2>2 DEF Advances, Making, Alive, Begun, Does
  <3>2. i \in Searched BY <1>2 DEF Single, Searched
  <3> QED BY <1>2, <2>2, <3>1, <3>2
 <2> QED BY <2>1, <2>2
<1>3. ASSUME NEW i \in DOMAIN product, NEW k \in DOMAIN product, i # k, product'[i].active, product'[k].active
      PROVE  product'[k].by # None /\ product'[i].by # None /\ Overlap(product[i].by, product[k].by)'
 <2>1. product[k].by # None /\ ProductOf(i, product[k].by) BY <1>3 DEF Single
 <2>2. PICK b \in Calls : product[k].by = b BY <1>0, <2>1 DEF ProductRow
 <2>3. ProductOf(i, b)' BY <1>1, <2>1, <2>2
 <2> QED BY <2>1, <2>2, <2>3 DEF ProductOf
<1>4. \A i \in DOMAIN product' : product'[i].indexed BY DEF Single
<1>5. \A i, k \in DOMAIN product' : i # k /\ product'[i].active /\ product'[k].active
                                   => product'[k].by # None /\ ProductOf(i, product[k].by)'
  BY <1>3 DEF ProductOf
<1>6. \A r \in Calls, i \in DOMAIN product' :
        Making(r)' /\ call'[r].pc = "create" /\ product'[i].active => ProductOf(i, r)'
  BY <1>2
<1> QED BY <1>4, <1>5, <1>6 DEF Single

\* A product that is created raced any other one.
LEMMA SingleCreated ==
  ASSUME CallsOK, BootTypes, Single, NEW q \in Calls, Advances(q), Making(q), call[q].pc = "create", call'[q].pc # "create",
         product' = Append(product, [active |-> TRUE, indexed |-> plan.windows = 0, by |-> q])
  PROVE  Single'
<1> SUFFICES ASSUME plan.windows = 0  PROVE Single' BY DEF Single, Advances
<1> DEFINE n == Len(product) + 1
<1>0. /\ Len(product) \in Nat /\ DOMAIN product = 1 .. Len(product) /\ DOMAIN product' = 1 .. n /\ q # None
      /\ product'[n] = [active |-> TRUE, indexed |-> TRUE, by |-> q]
      /\ \A i \in 1 .. Len(product) : product'[i] = product[i] /\ product[i] \in ProductRow
 <2>1. /\ Len(product) \in Nat /\ DOMAIN product = 1 .. Len(product) /\ q # None
       /\ \A i \in 1 .. Len(product) : product[i] \in ProductRow
   BY NoneIsApart DEF BootTypes
 <2>2. [active |-> TRUE, indexed |-> TRUE, by |-> q] \in ProductRow BY DEF ProductRow
 <2>3. product' = Append(product, [active |-> TRUE, indexed |-> TRUE, by |-> q]) OBVIOUS
 <2>4. /\ Len(product') = n /\ product' \in Seq(ProductRow) /\ product'[n] = [active |-> TRUE, indexed |-> TRUE, by |-> q]
       /\ \A i \in 1 .. Len(product) : product'[i] = product[i]
   BY <2>2, <2>3, RowsGrow DEF BootTypes
 <2> QED BY <2>1, <2>4
<1>1. ASSUME NEW i \in DOMAIN product, NEW r \in Calls, ProductOf(i, r)  PROVE ProductOf(i, r)'
 <2>1. product[i].by \in Calls BY <1>0, <1>1 DEF ProductOf, ProductRow
 <2> QED BY <1>0, <1>1, <2>1, TurnOverlap DEF ProductOf
<1>2. ASSUME NEW r \in Calls, NEW i \in DOMAIN product', Making(r)', call'[r].pc = "create", product'[i].active
      PROVE  ProductOf(i, r)'
 <2>1. r # q /\ Making(r) /\ call[r].pc = "create" BY <1>2 DEF Advances, Making, Alive, Begun, Does
 <2>2. CASE i = n
  <3>1. Overlap(q, r) BY <2>1, BothOverlap DEF Making
  <3>2. Overlap(q, r)' BY <3>1, TurnOverlap
  <3> QED BY <1>0, <2>2, <3>2 DEF ProductOf
 <2>3. CASE i # n BY <1>0, <1>1, <1>2, <2>1, <2>3 DEF Single
 <2> QED BY <2>2, <2>3
<1>3. ASSUME NEW i \in DOMAIN product, product[i].active
      PROVE  product'[i].by # None /\ (\E a \in Calls : a = product'[i].by /\ Overlap(a, q)' /\ Overlap(q, a)')
 <2>1. ProductOf(i, q) BY <1>3 DEF Single
 <2>2. PICK a \in Calls : a = product[i].by BY <1>0, <2>1 DEF ProductOf, ProductRow
 <2>3. Overlap(a, q) /\ Overlap(q, a) BY <2>1, <2>2, OverlapTurned DEF ProductOf
 <2>4. Overlap(a, q)' /\ Overlap(q, a)' BY <2>3, TurnOverlap
 <2> QED BY <1>0, <2>1, <2>2, <2>4 DEF ProductOf
<1>4. ASSUME NEW i \in DOMAIN product', NEW k \in DOMAIN product', i # k, product'[i].active, product'[k].active
      PROVE  product'[k].by # None /\ ProductOf(i, product[k].by)'
 <2>1. CASE i = n
  <3>1. k \in DOMAIN product /\ product'[k] = product[k] BY <1>0, <1>4, <2>1
  <3>2. PICK a \in Calls : a = product'[k].by /\ Overlap(a, q)' /\ Overlap(q, a)' BY <1>3, <1>4, <3>1
  <3> QED BY <1>0, <1>3, <1>4, <2>1, <3>1, <3>2 DEF ProductOf
 <2>2. CASE k = n
  <3>1. i \in DOMAIN product /\ product'[i] = product[i] BY <1>0, <1>4, <2>2
  <3>2. PICK a \in Calls : a = product'[i].by /\ Overlap(a, q)' /\ Overlap(q, a)' BY <1>3, <1>4, <3>1
  <3> QED BY <1>0, <1>3, <1>4, <2>2, <3>1, <3>2 DEF ProductOf
 <2>3. CASE i # n /\ k # n
  <3>1. i \in DOMAIN product /\ k \in DOMAIN product /\ product'[i] = product[i] /\ product'[k] = product[k]
    BY <1>0, <2>3
  <3>2. PICK b \in Calls : product[k].by = b /\ ProductOf(i, b)
    BY <1>0, <1>4, <3>1, NoneIsApart DEF Single, ProductRow
  <3>3. ProductOf(i, b)' BY <1>1, <3>1, <3>2
  <3> QED BY <3>1, <3>2, <3>3, NoneIsApart DEF ProductOf
 <2> QED BY <2>1, <2>2, <2>3
<1>5. \A i \in DOMAIN product' : product'[i].indexed BY <1>0 DEF Single
<1>6. \A r \in Calls, i \in DOMAIN product' :
        Making(r)' /\ call'[r].pc = "create" /\ product'[i].active => ProductOf(i, r)'
  BY <1>2
<1>7. \A i, k \in DOMAIN product' : i # k /\ product'[i].active /\ product'[k].active
                                   => product'[k].by # None /\ ProductOf(i, product[k].by)'
  BY <1>4
<1> QED BY <1>5, <1>6, <1>7 DEF Single

\* A product that sells goes on selling where nobody archives.
LEMMA SellingStays ==
  ASSUME CallsOK, BootTypes, BootHolds, Selling, NEW q \in Calls, Advances(q), Len(product) <= Len(product'),
         \A i \in DOMAIN product : product[i].active => i \in DOMAIN product' /\ product'[i].active,
         stored' = stored \/ (Making(q) /\ call[q].pc = "store" /\ stored' = Loc(q).found),
         Making(q)' => \/ call'[q].pc \notin {"store", "retrieve"}
                       \/ call'[q].pc = "store" /\ product'[Loc(q)'.found].active
                       \/ call'[q].pc = "retrieve" /\ Loc(q)'.id = stored /\ stored' = stored,
         /\ Does(q).op = "ensureProduct" /\ call'[q].end \in {"stored", "kept"} /\ call[q].end \notin {"stored", "kept"}
            => Making(q) /\ \/ call[q].pc = "store" /\ stored' = Loc(q).found
                            \/ call[q].pc = "retrieve" /\ product[Loc(q).id].active /\ stored' = stored
  PROVE  Selling'
<1> SUFFICES ASSUME Apart("ensureProduct", "archiveProduct")'  PROVE Selling' BY DEF Selling
<1>0. Apart("ensureProduct", "archiveProduct") /\ plan' = plan BY ApartBack DEF Advances
<1>1. Sells /\ stored' = stored => Sells'
 <2>1. Sells => stored \in DOMAIN product BY DEF Sells, BootTypes
 <2> QED BY <2>1 DEF Sells
<1>2. ASSUME Making(q), call[q].pc = "store", stored' = Loc(q).found  PROVE Sells'
 <2>1. product[Loc(q).found].active /\ Loc(q).found \in DOMAIN product /\ Loc(q).found # 0
   BY <1>0, <1>2 DEF Selling, BootHolds, StartHolds, Making, BootTypes
 <2> QED BY <1>2, <2>1 DEF Sells
<1>3. Sells => Sells' BY <1>1, <1>2
<1>4. stored' = stored \/ Sells' BY <1>2
<1>5. ASSUME NEW r \in Calls, Making(r)'
      PROVE  /\ call'[r].pc = "store" => product'[Loc(r)'.found].active
             /\ call'[r].pc = "retrieve" => stored' = Loc(r)'.id \/ Sells'
 <2>1. CASE r = q BY <1>5, <2>1
 <2>2. CASE r # q
  <3>1. call'[r] = call[r] /\ Making(r) BY <1>0, <1>5, <2>2 DEF Advances, Making, Alive, Begun, Does
  <3>2. call[r].pc = "store" => Loc(r).found \in DOMAIN product BY <3>1 DEF BootHolds, StartHolds, Making, BootTypes
  <3> QED BY <1>0, <1>3, <1>4, <3>1, <3>2 DEF Selling, Loc
 <2> QED BY <2>1, <2>2
<1>6. ASSUME Settled("ensureProduct", "archiveProduct", {"stored", "kept"})'  PROVE Sells'
 <2>1. None \notin {"stored", "kept"} BY NoneIsNoStart
 <2>2. CASE Settled("ensureProduct", "archiveProduct", {"stored", "kept"}) BY <1>0, <1>3, <2>2 DEF Selling
 <2>3. CASE Making(q) /\ call[q].pc = "retrieve" /\ product[Loc(q).id].active /\ stored' = stored
  <3>1. Loc(q).id # 0 BY <2>3 DEF BootHolds, StartHolds, Making
  <3>2. Sells BY <1>0, <2>3, <3>1 DEF Selling, Sells
  <3> QED BY <1>3, <3>2
 <2> QED BY <1>2, <1>6, <2>1, <2>2, <2>3, SettledBack
<1> QED BY <1>5, <1>6 DEF Selling

\* Nor does an archive change what holds when no start is on its way.
LEMMA SellingArchived ==
  ASSUME CallsOK, NEW q \in Calls, Advances(q), ~Begun(q), Does(q).op = "archiveProduct"
  PROVE  Selling'
<1> SUFFICES ASSUME Apart("ensureProduct", "archiveProduct")'  PROVE Selling' BY DEF Selling
<1>1. \A r \in Calls : ~Making(r) BY HandMeetsNobody DEF Making
<1>2. ~Settled("ensureProduct", "archiveProduct", {"stored", "kept"})' BY HandUnsettles
<1>3. ASSUME NEW r \in Calls  PROVE ~Making(r)'
 <2>1. CASE r = q BY <2>1 DEF Making, Does, Advances
 <2>2. CASE r # q BY <1>1, <2>2 DEF Making, Does, Advances, Alive, Begun
 <2> QED BY <2>1, <2>2
<1> QED BY <1>2, <1>3 DEF Selling

\* The meter goes on taking usage where nobody stops one.
Metered(q) == Does(q).op = "ensureMeter"

\* Usage is taken while only starts write the setting.
LEMMA MeteringStays ==
  ASSUME CallsOK, BootTypes, BootHolds, Metering, NEW q \in Calls, Advances(q),
         \A i \in DOMAIN meter : meter[i] = "active" => i \in DOMAIN meter' /\ meter'[i] = "active",
         Metered(q)' /\ call'[q].pc = "store" => meter'[Loc(q)'.id] = "active",
         \/ setting' = setting
         \/ setting' = 0 /\ (setting # 0 => Metered(q) /\ call'[q].pc = "list")
         \/ Metered(q) /\ call[q].pc = "store" /\ setting' = Loc(q).id,
         Metered(q) /\ call[q].pc \in {"list", "create", "store"} =>
           plan.failures \/ call'[q].pc \in {"list", "create", "store"} \/ (call[q].pc = "store" /\ setting' = Loc(q).id),
         Metered(q) /\ call'[q].end = "stored" /\ call[q].end # "stored" => call[q].pc = "store"
  PROVE  Metering'
<1> SUFFICES ASSUME ~plan.failures, Apart("ensureMeter", "stopMeter")'  PROVE Metering' BY DEF Metering, Advances
<1>0. Apart("ensureMeter", "stopMeter") /\ plan' = plan BY ApartBack DEF Advances
<1>1. ASSUME NEW r \in Calls, Metered(r), call[r].pc = "store"
      PROVE  meter[Loc(r).id] = "active" /\ Loc(r).id \in DOMAIN meter /\ Loc(r).id # 0
 <2>1. Alive(r) BY <1>1 DEF Alive, Begun, Over
 <2> QED BY <1>0, <1>1, <2>1 DEF Metering, Metered, BootHolds, StartHolds, BootTypes
<1>2. TakesUsage => setting \in DOMAIN meter BY DEF TakesUsage, BootTypes
<1>3. ASSUME Metered(q), call[q].pc = "store", setting' = Loc(q).id  PROVE TakesUsage' BY <1>1, <1>3 DEF TakesUsage
<1>4. ASSUME TakesUsage
      PROVE  TakesUsage' \/ \E r \in Calls : Metered(r)' /\ call'[r].pc \in {"list", "create", "store"}
  BY <1>0, <1>2, <1>3, <1>4 DEF TakesUsage, Metered, Does
<1>5. ASSUME NEW r \in Calls, Metered(r), call[r].pc \in {"list", "create", "store"}
      PROVE  TakesUsage' \/ \E s \in Calls : Metered(s)' /\ call'[s].pc \in {"list", "create", "store"}
 <2>1. CASE r = q BY <1>0, <1>3, <1>5, <2>1 DEF Metered, Does
 <2>2. CASE r # q BY <1>0, <1>5, <2>2 DEF Metered, Does, Advances
 <2> QED BY <2>1, <2>2
<1>6. ASSUME Settled("ensureMeter", "stopMeter", {"stored"})'
      PROVE  TakesUsage' \/ \E r \in Calls : Metered(r)' /\ call'[r].pc \in {"list", "create", "store"}
 <2>1. None \notin {"stored"} BY NoneIsNoStart
 <2>2. CASE Settled("ensureMeter", "stopMeter", {"stored"}) BY <1>0, <1>4, <1>5, <2>2 DEF Metering, Metered
 <2>3. CASE Metered(q) /\ call[q].pc = "store" BY <1>5, <2>3
 <2> QED BY <1>6, <2>1, <2>2, <2>3, SettledBack DEF Metered
<1>7. ASSUME NEW r \in Calls, Metered(r)', call'[r].pc = "store"  PROVE meter'[Loc(r)'.id] = "active"
 <2>1. CASE r = q BY <1>7, <2>1
 <2>2. CASE r # q BY <1>0, <1>1, <1>7, <2>2 DEF Advances, Metered, Does, Loc
 <2> QED BY <2>1, <2>2
<1> QED BY <1>6, <1>7 DEF Metering, Metered, TakesUsage

\* A meter that is stopped by hand unsettles every start.
LEMMA MeteringStopped ==
  ASSUME CallsOK, NEW q \in Calls, Advances(q), ~Begun(q), Does(q).op = "stopMeter"
  PROVE  Metering'
<1> SUFFICES ASSUME Apart("ensureMeter", "stopMeter")'  PROVE Metering' BY DEF Metering
<1>1. \A r \in Calls : Metered(r) => ~Alive(r) BY HandMeetsNobody DEF Metered
<1>2. ~Settled("ensureMeter", "stopMeter", {"stored"})' BY HandUnsettles
<1>3. ASSUME NEW r \in Calls, Metered(r)'  PROVE ~Alive(r)'
 <2>1. CASE r = q BY <1>3, <2>1 DEF Metered, Does, Advances
 <2>2. CASE r # q BY <1>1, <1>3, <2>2 DEF Metered, Does, Advances, Alive, Begun
 <2> QED BY <2>1, <2>2
<1> QED BY <1>2, <1>3 DEF Metering, Metered

\* Where only the call moves, and holds nothing it is about to write.
LEMMA SellingGoesOn ==
  ASSUME CallsOK, BootTypes, BootHolds, Selling, NEW q \in Calls, Advances(q), UNCHANGED <<product, stored>>,
         Making(q)' => call'[q].pc \notin {"store", "retrieve"},
         call'[q].end \in {"stored", "kept"} => Does(q).op # "ensureProduct" \/ call[q].end = call'[q].end
  PROVE  Selling'
  BY SellingStays DEF BootTypes

\* Nor does a step that leaves meters and setting.
LEMMA MeteringGoesOn ==
  ASSUME CallsOK, BootTypes, BootHolds, Metering, NEW q \in Calls, Advances(q), UNCHANGED <<meter, setting>>,
         Metered(q) => /\ call[q].pc \notin {"list", "create", "store"} /\ call'[q].pc # "store"
                       /\ call'[q].end = "stored" => call[q].end = "stored"
  PROVE  Metering'
<1>1. \A i \in DOMAIN meter : meter[i] = "active" => i \in DOMAIN meter' /\ meter'[i] = "active" OBVIOUS
<1>2. Metered(q)' <=> Metered(q) BY DEF Metered, Does, Advances
<1> QED BY <1>1, <1>2, MeteringStays

\* The three are kept by every step of a start, of Stripe, and of anybody else.
LEMMA BootElsewhere ==
  ASSUME CallsOK, BootInv, NEW q \in Calls, Advances(q), Does(q).op \notin BootOps, UNCHANGED bootstrapVars
  PROVE  BootInv'
<1>0. UNCHANGED <<product, stored, meter, setting>> /\ plan' = plan BY DEF bootstrapVars, Advances
<1>1. ~Making(q) /\ ~Making(q)' /\ ~Metered(q) /\ ~Metered(q)' /\ Does(q).op # "ensureProduct"
  BY <1>0 DEF Making, Metered, Does, BootOps, Boots
<1>2. BootPlace(q)' BY <1>0, <1>1 DEF BootPlace, StartHolds, Does, BootOps, Boots
<1>3. BootTypes' /\ BootHolds' BY <1>0, <1>2, BootOthers DEF BootInv, BootTypes
<1>4. Single' BY <1>0, <1>1, SingleStays DEF BootInv
<1>5. Selling' BY <1>0, <1>1, SellingGoesOn DEF BootInv
<1>6. Metering' BY <1>0, <1>1, MeteringGoesOn DEF BootInv
<1> QED BY <1>3, <1>4, <1>5, <1>6 DEF BootInv

\* A step that moves nothing of it.
LEMMA BootStill ==
  ASSUME BootInv, UNCHANGED <<plan, call>>, UNCHANGED bootstrapVars
  PROVE  BootInv'
<1>0. UNCHANGED <<product, stored, meter, setting>> /\ plan' = plan /\ call' = call BY DEF bootstrapVars
<1>1. BootTypes' /\ BootHolds' BY <1>0 DEF BootInv, BootTypes, BootHolds, StartHolds, Alive, Begun, Loc, Does
<1>2. Single' BY <1>0 DEF BootInv, Single, ProductOf, Making, Overlap, Alive, Begun, Loc, Does
<1>3. Apart("ensureProduct", "archiveProduct")' <=> Apart("ensureProduct", "archiveProduct")
  BY <1>0 DEF Apart, Overlap, Begun, Does
<1>4. Apart("ensureMeter", "stopMeter")' <=> Apart("ensureMeter", "stopMeter") BY <1>0 DEF Apart, Overlap, Begun, Does
<1>5. Settled("ensureProduct", "archiveProduct", {"stored", "kept"})' <=> Settled("ensureProduct", "archiveProduct", {"stored", "kept"})
  BY <1>0 DEF Settled, Begun, Does
<1>6. Settled("ensureMeter", "stopMeter", {"stored"})' <=> Settled("ensureMeter", "stopMeter", {"stored"})
  BY <1>0 DEF Settled, Begun, Does
<1>7. Selling' BY <1>0, <1>3, <1>5 DEF BootInv, Selling, Sells, Making, Alive, Begun, Loc, Does
<1>8. Metering' BY <1>0, <1>4, <1>6 DEF BootInv, Metering, TakesUsage, Alive, Begun, Loc, Does
<1> QED BY <1>1, <1>2, <1>7, <1>8 DEF BootInv

\* The search of Stripe catches up.
LEMMA BootIndexed ==
  ASSUME CallsOK, BootInv, IndexProduct
  PROVE  BootInv'
<1>0. /\ UNCHANGED <<plan, call, stored, meter, setting>> /\ product' \in Seq(ProductRow) /\ Len(product') = Len(product)
      /\ \A i \in DOMAIN product : /\ product'[i].active = product[i].active /\ product'[i].by = product[i].by
                                   /\ product[i].indexed => product'[i].indexed
      /\ DOMAIN product' = DOMAIN product /\ DOMAIN product = 1 .. Len(product)
  BY IndexIs DEF BootInv, BootTypes
<1>1. BootTypes' /\ BootHolds' BY <1>0 DEF BootInv, BootTypes, BootHolds, StartHolds, Alive, Begun, Loc, Does
<1>2. Single' BY <1>0 DEF BootInv, Single, ProductOf, Making, Overlap, Alive, Begun, Loc, Does
<1>3. Apart("ensureProduct", "archiveProduct")' <=> Apart("ensureProduct", "archiveProduct")
  BY <1>0 DEF Apart, Overlap, Begun, Does
<1>4. Apart("ensureMeter", "stopMeter")' <=> Apart("ensureMeter", "stopMeter") BY <1>0 DEF Apart, Overlap, Begun, Does
<1>5. Settled("ensureProduct", "archiveProduct", {"stored", "kept"})' <=> Settled("ensureProduct", "archiveProduct", {"stored", "kept"})
  BY <1>0 DEF Settled, Begun, Does
<1>6. Settled("ensureMeter", "stopMeter", {"stored"})' <=> Settled("ensureMeter", "stopMeter", {"stored"})
  BY <1>0 DEF Settled, Begun, Does
<1>7. Sells' <=> Sells BY <1>0 DEF Sells, BootInv, BootTypes
<1>8. \A r \in Calls : Making(r) /\ call[r].pc = "store" => Loc(r).found \in DOMAIN product
  BY <1>0 DEF BootInv, BootHolds, StartHolds, Making
<1>9. Selling' BY <1>0, <1>3, <1>5, <1>7, <1>8 DEF BootInv, Selling, Making, Alive, Begun, Loc, Does
<1>10. Metering' BY <1>0, <1>4, <1>6 DEF BootInv, Metering, TakesUsage, Alive, Begun, Loc, Does
<1> QED BY <1>1, <1>2, <1>9, <1>10 DEF BootInv

\* A start's own steps keep the three; what a step of one kind does not touch stays by itself.
ProductStep(q) ==
  FindProductRow(q) \/ RetrieveProduct(q) \/ SearchProduct(q) \/ CreateProduct(q) \/ StoreProduct(q)
MeterStep(q) == FindSetting(q) \/ RetrieveMeter(q) \/ ForgetMeter(q) \/ ListMeters(q) \/ CreateMeter(q) \/ StoreMeter(q)

\* The steps of ensureProduct leave the meter.
LEMMA ProductStepIs ==
  ASSUME Formed, NEW q \in Calls, ProductStep(q)
  PROVE  Does(q).op = "ensureProduct" /\ UNCHANGED <<meter, setting>>
  BY FindProductRowIs, RetrieveProductIs, SearchProductIs, CreateProductIs, StoreProductIs DEF ProductStep, bootstrapVars

\* The steps of ensureMeter leave the product.
LEMMA MeterStepIs ==
  ASSUME Formed, NEW q \in Calls, MeterStep(q)
  PROVE  Does(q).op = "ensureMeter" /\ UNCHANGED <<product, stored>>
  BY FindSettingIs, RetrieveMeterIs, ForgetMeterIs, ListMetersIs, CreateMeterIs, StoreMeterIs DEF MeterStep, bootstrapVars

\* Products stay single.
LEMMA SingleStep ==
  ASSUME CallsOK, BootInv, NEW q \in Calls, BootstrapStep(q), Advances(q)
  PROVE  Single'
<1>0. plan' = plan /\ Formed /\ BootTypes /\ Single BY DEF BootstrapStep, CallsOK, BootInv
<1>1. ASSUME product' = product, ~(Making(q)' /\ call'[q].pc = "create")  PROVE Single' BY <1>0, <1>1, SingleStays
<1>2. CASE Does(q).op # "ensureProduct" /\ product' = product BY <1>0, <1>1, <1>2 DEF Making, Does
<1>3. CASE FindProductRow(q) \/ RetrieveProduct(q) \/ StoreProduct(q)
 <2>1. product' = product /\ call'[q].pc # "create"
   BY <1>0, <1>3, FindProductRowIs, RetrieveProductIs, StoreProductIs DEF bootstrapVars, Entered, Went, Ended, Becomes
 <2> QED BY <1>1, <2>1
<1>4. CASE SearchProduct(q)
 <2>1. product' = product BY <1>0, <1>4, SearchProductIs DEF bootstrapVars
 <2>2. call'[q].pc = "create" => Searched = {} BY <1>0, <1>4, SearchProductIs DEF Went, Ended, Becomes
 <2> QED BY <1>0, <2>1, <2>2, SingleStays
<1>5. CASE CreateProduct(q)
 <2>1. CASE Ended(q, "create", "failed") /\ product' = product
  <3>1. call'[q].pc # "create" BY <2>1 DEF Ended, Becomes
  <3> QED BY <1>1, <2>1, <3>1
 <2>2. CASE /\ Went(q, "create", "store", [Loc(q) EXCEPT !.found = Created])
            /\ product' = Append(product, [active |-> TRUE, indexed |-> plan.windows = 0, by |-> q])
  <3>1. call[q].pc = "create" /\ call'[q].pc # "create" BY <2>2 DEF Went, Becomes
  <3>2. Making(q) BY <1>0, <1>5, <3>1, CreateProductIs DEF Making, Alive, Begun, Over
  <3> QED BY <1>0, <2>2, <3>1, <3>2, SingleCreated
 <2> QED BY <1>0, <1>5, <2>1, <2>2, CreateProductIs
<1>6. CASE ArchiveProduct(q)
 <2>1. PICK i \in DOMAIN product : product' = [product EXCEPT ![i].active = FALSE] BY <1>0, <1>6, ArchiveProductIs
 <2>2. \A k \in DOMAIN product : product[k] \in ProductRow BY <1>0 DEF BootTypes
 <2>3. ASSUME NEW k \in DOMAIN product
       PROVE  /\ product'[k].active => product[k].active
              /\ product'[k].by = product[k].by /\ (product[k].indexed => product'[k].indexed)
   BY <1>0, <2>1, <2>2 DEF ProductRow, BootTypes
 <2>4. DOMAIN product' = DOMAIN product BY <2>1
 <2>5. ~Making(q)' BY <1>0, <1>6, ArchiveProductIs DEF Making, Does
 <2> QED BY <1>0, <2>3, <2>4, <2>5, SingleStays
<1>7. CASE MeterStep(q) \/ StopMeter(q) BY <1>0, <1>2, <1>7, MeterStepIs, StopMeterIs
<1>8. CASE Dies(q) /\ UNCHANGED bootstrapVars
 <2>1. ~Making(q)' BY <1>0, <1>8, DiesBecomes DEF Becomes, Making, Alive, Over
 <2> QED BY <1>1, <1>8, <2>1 DEF bootstrapVars
<1> QED BY <1>3, <1>4, <1>5, <1>6, <1>7, <1>8 DEF BootstrapStep, ensureProduct, ensureMeter, MeterStep

\* The product goes on selling.
LEMMA SellingStep ==
  ASSUME CallsOK, BootInv, NEW q \in Calls, BootstrapStep(q), Advances(q)
  PROVE  Selling'
<1>0. plan' = plan /\ Formed /\ BootTypes /\ BootHolds /\ Selling /\ Does(q).op \in BootOps
  BY BootTurn DEF BootstrapStep, CallsOK, BootInv
<1>1. call[q].end = None \/ call[q].pc = "done" BY <1>0 DEF BootHolds
<1>2. None \notin {"stored", "kept"} BY NoneIsNoStart
<1>3. \A loc \in [id : 0 .. Len(product), found : 0 .. Len(product)] : \A i : [loc EXCEPT !.found = i].found = i
  OBVIOUS
<1>4. ASSUME Does(q).op = "ensureProduct", call[q].pc \notin Over \cup {"new"}  PROVE StartHolds(q) /\ Making(q)
  BY <1>0, <1>4 DEF BootHolds, Making, Alive, Begun
<1>5. Len(product) \in Nat /\ DOMAIN product = 1 .. Len(product) /\ \A i \in DOMAIN product : product[i] \in ProductRow
  BY <1>0 DEF BootTypes
<1>11. CASE FindProductRow(q)
 <2>1. /\ call'[q].pc \in {"search", "retrieve"} /\ call'[q].loc.id = stored /\ UNCHANGED <<product, stored>>
       /\ call'[q].end = None
   BY <1>0, <1>11, FindProductRowIs DEF Entered, Becomes, bootstrapVars
 <2> QED BY <1>0, <1>2, <1>5, <2>1, SellingStays DEF Loc
<1>12. CASE RetrieveProduct(q)
 <2>0. UNCHANGED <<product, stored>> /\ call[q].pc = "retrieve" /\ Making(q)
   BY <1>0, <1>4, <1>12, RetrieveProductIs DEF Went, Ended, bootstrapVars, Over
 <2>1. CASE Went(q, "retrieve", "search", Loc(q)) BY <1>0, <2>0, <2>1, SellingGoesOn DEF Went, Becomes
 <2>2. CASE product[Loc(q).id].active /\ Ended(q, "retrieve", "kept")
   BY <1>0, <1>5, <2>0, <2>2, SellingStays DEF Ended, Becomes
 <2> QED BY <1>0, <1>12, <2>1, <2>2, RetrieveProductIs
<1>13. CASE SearchProduct(q)
 <2>0. UNCHANGED <<product, stored>> /\ call[q].pc = "search" /\ Making(q) /\ StartHolds(q) /\ call[q].end = None
   BY <1>0, <1>1, <1>4, <1>13, SearchProductIs DEF Went, Ended, bootstrapVars, Over
 <2>1. CASE Went(q, "search", "create", Loc(q)) \/ Ended(q, "search", "failed")
   BY <1>0, <1>2, <2>0, <2>1, SellingGoesOn DEF Went, Ended, Becomes
 <2>2. CASE \E i \in Searched : Went(q, "search", "store", [Loc(q) EXCEPT !.found = i])
  <3>1. PICK i \in Searched : Went(q, "search", "store", [Loc(q) EXCEPT !.found = i]) BY <2>2
  <3>2. [Loc(q) EXCEPT !.found = i].found = i BY <1>3, <2>0 DEF StartHolds, Making
  <3>3. call'[q].loc.found = i /\ call'[q].pc = "store" /\ call'[q].end = None /\ product[i].active
    BY <2>0, <3>1, <3>2 DEF Went, Becomes, Searched
  <3> QED BY <1>0, <1>2, <1>5, <2>0, <3>3, SellingStays DEF Loc
 <2> QED BY <1>0, <1>13, <2>1, <2>2, SearchProductIs
<1>14. CASE CreateProduct(q)
 <2>0. stored' = stored /\ call[q].pc = "create" /\ Making(q) /\ StartHolds(q) /\ call[q].end = None
   BY <1>0, <1>1, <1>4, <1>14, CreateProductIs DEF Went, Ended, Over
 <2>1. CASE Ended(q, "create", "failed") /\ product' = product
   BY <1>0, <1>2, <2>0, <2>1, SellingGoesOn DEF Ended, Becomes
 <2>2. CASE /\ Went(q, "create", "store", [Loc(q) EXCEPT !.found = Created])
            /\ product' = Append(product, [active |-> TRUE, indexed |-> plan.windows = 0, by |-> q])
  <3>2. [Loc(q) EXCEPT !.found = Created].found = Created BY <1>3, <2>0 DEF StartHolds, Making
  <3>3. call'[q].loc.found = Created /\ call'[q].pc = "store" /\ call'[q].end = None
    BY <2>0, <2>2, <3>2 DEF Went, Becomes
  <3>4. [active |-> TRUE, indexed |-> plan.windows = 0, by |-> q] \in ProductRow BY DEF ProductRow
  <3>5. /\ Len(product') = Len(product) + 1 /\ product'[Created].active
        /\ DOMAIN product' = 1 .. Len(product) + 1 /\ \A i \in 1 .. Len(product) : product'[i] = product[i]
    BY <1>0, <1>5, <2>2, <3>4, RowsGrow DEF BootTypes, Created
  <3>6. \A i \in DOMAIN product : i \in DOMAIN product' BY <1>5, <3>5
  <3>7. Len(product) <= Len(product') BY <1>5, <3>5
  <3> QED BY <1>0, <1>2, <1>5, <2>0, <3>3, <3>5, <3>6, <3>7, SellingStays DEF Loc
 <2> QED BY <1>0, <1>14, <2>1, <2>2, CreateProductIs
<1>15. CASE StoreProduct(q)
 <2>0. product' = product /\ call[q].pc = "store" /\ Making(q) /\ StartHolds(q) /\ call[q].end = None
   BY <1>0, <1>1, <1>4, <1>15, StoreProductIs DEF Ended, Over
 <2>1. CASE Ended(q, "store", "failed") /\ stored' = stored
   BY <1>0, <1>2, <2>0, <2>1, SellingGoesOn DEF Ended, Becomes
 <2>2. CASE Ended(q, "store", "stored") /\ stored' = Loc(q).found
   BY <1>0, <1>5, <2>0, <2>2, SellingStays DEF Ended, Becomes
 <2> QED BY <1>0, <1>15, <2>1, <2>2, StoreProductIs
<1>16. CASE MeterStep(q) \/ StopMeter(q)
 <2>1. Does(q).op # "ensureProduct" /\ UNCHANGED <<product, stored>> BY <1>0, <1>16, MeterStepIs, StopMeterIs
 <2> QED BY <1>0, <2>1, SellingGoesOn DEF Making, Does
<1>17. CASE ArchiveProduct(q) BY <1>0, <1>17, ArchiveProductIs, SellingArchived DEF Answered
<1>18. CASE Dies(q) /\ UNCHANGED bootstrapVars
  BY <1>0, <1>18, DiesBecomes, SellingGoesOn DEF Becomes, Making, Alive, Over, bootstrapVars
<1> QED
  BY <1>11, <1>12, <1>13, <1>14, <1>15, <1>16, <1>17, <1>18 DEF BootstrapStep, ensureProduct, ensureMeter, MeterStep

\* The meter goes on taking usage.
LEMMA MeteringStep ==
  ASSUME CallsOK, BootInv, NEW q \in Calls, BootstrapStep(q), Advances(q)
  PROVE  Metering'
<1>0. plan' = plan /\ Formed /\ BootTypes /\ BootHolds /\ Metering /\ Does(q).op \in BootOps
  BY BootTurn DEF BootstrapStep, CallsOK, BootInv
<1>1. call[q].end = None \/ call[q].pc = "done" BY <1>0 DEF BootHolds
<1>2. None \notin {"stored", "kept"} BY NoneIsNoStart
<1>4. ASSUME Does(q).op = "ensureMeter", call[q].pc \notin Over \cup {"new"}  PROVE StartHolds(q) /\ Metered(q)
  BY <1>0, <1>4 DEF BootHolds, Metered, Alive, Begun
<1>5. Len(meter) \in Nat /\ DOMAIN meter = 1 .. Len(meter) BY <1>0 DEF BootTypes
<1>11. CASE FindSetting(q)
 <2>1. /\ call'[q].pc \in {"list", "retrieve"} /\ UNCHANGED <<meter, setting>> /\ call'[q].end = None /\ call[q].pc = "new"
   BY <1>0, <1>11, FindSettingIs DEF Entered, Becomes, Begun, bootstrapVars
 <2> QED BY <1>0, <1>2, <2>1, MeteringGoesOn
<1>12. CASE RetrieveMeter(q)
 <2>0. UNCHANGED <<meter, setting>> /\ call[q].pc = "retrieve" /\ Metered(q) /\ call[q].end = None
   BY <1>0, <1>1, <1>4, <1>12, RetrieveMeterIs DEF Went, Ended, bootstrapVars, Over
 <2> QED BY <1>0, <1>2, <1>12, <2>0, RetrieveMeterIs, MeteringGoesOn DEF Went, Ended, Becomes
<1>13. CASE ForgetMeter(q)
 <2>0. meter' = meter /\ setting' = 0 /\ call[q].pc = "forget" /\ Metered(q) /\ call[q].end = None
   BY <1>0, <1>1, <1>4, <1>13, ForgetMeterIs DEF Went, Ended, Over
 <2>1. call'[q].pc \in {"done", "list"} /\ (setting # 0 => call'[q].pc = "list") /\ call'[q].end # "stored"
   BY <1>0, <1>2, <1>13, <2>0, ForgetMeterIs DEF Went, Ended, Becomes
 <2> QED BY <1>0, <2>0, <2>1, MeteringStays
<1>14. CASE ListMeters(q)
 <2>0. UNCHANGED <<meter, setting>> /\ call[q].pc = "list" /\ Metered(q) /\ call[q].end = None
   BY <1>0, <1>1, <1>4, <1>14, ListMetersIs DEF Went, Ended, bootstrapVars, Over
 <2>1. CASE Went(q, "list", "create", Loc(q)) \/ (plan.failures /\ Ended(q, "list", "failed"))
   BY <1>0, <1>2, <1>5, <2>0, <2>1, MeteringStays DEF Went, Ended, Becomes
 <2>2. CASE \E i \in Listed : Went(q, "list", "store", [id |-> i])
  <3>1. PICK i \in Listed : Went(q, "list", "store", [id |-> i]) BY <2>2
  <3>3. call'[q].loc.id = i /\ call'[q].pc = "store" /\ call'[q].end = None /\ meter[i] = "active"
    BY <2>0, <3>1 DEF Went, Becomes, Listed
  <3> QED BY <1>0, <1>2, <1>5, <2>0, <3>3, MeteringStays DEF Loc
 <2> QED BY <1>0, <1>14, <2>1, <2>2, ListMetersIs
<1>15. CASE CreateMeter(q)
 <2>0. setting' = setting /\ call[q].pc = "create" /\ Metered(q) /\ call[q].end = None
   BY <1>0, <1>1, <1>4, <1>15, CreateMeterIs DEF Went, Ended, Over
 <2>1. CASE plan.failures /\ Ended(q, "create", "failed") /\ meter' = meter
   BY <1>0, <1>2, <1>5, <2>0, <2>1, MeteringStays DEF Ended, Becomes
 <2>2. CASE Went(q, "create", "store", [id |-> Len(meter) + 1]) /\ meter' = Append(meter, "active")
  <3>3. call'[q].loc.id = Len(meter) + 1 /\ call'[q].pc = "store" /\ call'[q].end = None
    BY <2>0, <2>2 DEF Went, Becomes
  <3>5. /\ Len(meter') = Len(meter) + 1 /\ meter'[Len(meter) + 1] = "active"
        /\ DOMAIN meter' = 1 .. Len(meter) + 1 /\ \A i \in 1 .. Len(meter) : meter'[i] = meter[i]
    BY <1>0, <1>5, <2>2, RowsGrow DEF BootTypes, MeterState
  <3>6. \A i \in DOMAIN meter : i \in DOMAIN meter' BY <1>5, <3>5
  <3> QED BY <1>0, <1>2, <1>5, <2>0, <3>3, <3>5, <3>6, MeteringStays DEF Loc
 <2> QED BY <1>0, <1>15, <2>1, <2>2, CreateMeterIs
<1>16. CASE StoreMeter(q)
 <2>0. /\ meter' = meter /\ call[q].pc = "store" /\ Metered(q) /\ setting' = Loc(q).id
       /\ call'[q].pc = "done"
   BY <1>0, <1>4, <1>16, StoreMeterIs DEF Ended, Becomes, Over
 <2> QED BY <1>0, <1>5, <2>0, MeteringStays
<1>17. CASE ProductStep(q) \/ ArchiveProduct(q)
 <2>1. ~Metered(q) /\ UNCHANGED <<meter, setting>> BY <1>0, <1>17, ProductStepIs, ArchiveProductIs DEF Metered
 <2> QED BY <1>0, <2>1, MeteringGoesOn
<1>18. CASE StopMeter(q) BY <1>0, <1>18, StopMeterIs, MeteringStopped DEF Answered
<1>19. CASE Dies(q) /\ UNCHANGED bootstrapVars
 <2>1. call'[q].pc = "dead" /\ call'[q].end = call[q].end /\ plan.failures /\ UNCHANGED <<meter, setting>>
   BY <1>0, <1>19, DiesBecomes DEF Becomes, bootstrapVars
 <2> QED BY <1>0, <1>5, <2>1, MeteringStays
<1> QED
  BY <1>11, <1>12, <1>13, <1>14, <1>15, <1>16, <1>17, <1>18, <1>19
     DEF BootstrapStep, ensureProduct, ensureMeter, ProductStep

\* All of it is kept by a step of a start.
LEMMA BootStep ==
  ASSUME CallsOK, BootInv, NEW q \in Calls, BootstrapStep(q)
  PROVE  BootInv' /\ CallsOK'
<1>1. Advances(q) BY BootTurn
<1>2. BootTypes' /\ BootHolds' BY BootKept DEF BootInv
<1> QED BY <1>1, <1>2, SingleStep, SellingStep, MeteringStep, TurnKeeps DEF BootInv

\* It holds where a plan starts.
LEMMA BootInit ==
  ASSUME CallsInit, BootstrapInit
  PROVE  BootInv /\ CallsOK
<1>0. plan \in Plans /\ call = [q \in Calls |-> Idle] BY DEF CallsInit
<1>1. CallsOK BY <1>0 DEF CallsOK, Formed, Idle, Begun, OverNow, Over
<1>2. BootTypes
 <2>1. plan.products \in Seq([active : BOOLEAN, indexed : BOOLEAN, by : {None}]) BY <1>0, StripeIsTold
 <2>2. [active : BOOLEAN, indexed : BOOLEAN, by : {None}] \subseteq ProductRow BY DEF ProductRow
 <2>3. product \in Seq(ProductRow) BY <2>1, <2>2, SeqOfPart DEF BootstrapInit
 <2> QED BY <1>0, <2>3, StripeIsTold DEF BootstrapInit, BootTypes, MeterState
<1>3. \A q \in Calls : ~Begun(q) /\ call[q] = Idle /\ ~Alive(q) BY <1>0 DEF Idle, Begun, Alive
<1>4. BootHolds BY <1>3 DEF BootHolds, Idle
<1>5. Single BY <1>0, <1>3, StripeIsTold DEF Single, BootstrapInit, Making
<1>6. \A op, hand, ends : None \notin ends => ~Settled(op, hand, ends) BY <1>3 DEF Settled, Idle
<1>7. Selling BY <1>3, <1>6, NoneIsNoStart DEF Selling, Making
<1>8. Metering BY <1>3, <1>6, NoneIsNoStart DEF Metering, Metered
<1> QED BY <1>1, <1>2, <1>4, <1>5, <1>7, <1>8 DEF BootInv

\* However a step of a handler moves its call, it is a step of that call alone.
LEMMA StartsAdvances ==
  ASSUME CallsOK, plan' = plan, NEW q \in Calls, NEW ops, NEW pc, pc # "new", NEW loc, Starts(q, ops, pc, loc)
  PROVE  Advances(q) /\ Does(q).op \in ops
  BY StartsBecomes, EnterTurn DEF CallsOK

\* So is being answered at once.
LEMMA AnswersAdvances ==
  ASSUME CallsOK, plan' = plan, NEW q \in Calls, NEW ops, NEW end, Answers(q, ops, end)
  PROVE  Advances(q) /\ Does(q).op \in ops
  BY AnswersBecomes, EnterTurn DEF CallsOK

\* So is going on.
LEMMA GoesAdvances ==
  ASSUME CallsOK, plan' = plan, NEW q \in Calls, NEW ops, NEW from, from \notin Over \cup {"new"}, At(q, ops, from),
         NEW to, to # "new", NEW loc, Goes(q, to, loc)
  PROVE  Advances(q) /\ Does(q).op \in ops
<1>1. Went(q, from, to, loc) /\ Does(q).op \in ops BY GoesWent DEF CallsOK
<1> QED BY <1>1, WentTurn

\* So is ending.
LEMMA EndsAdvances ==
  ASSUME CallsOK, plan' = plan, NEW q \in Calls, NEW ops, NEW from, from \notin Over \cup {"new"}, At(q, ops, from),
         NEW end, Ends(q, end)
  PROVE  Advances(q) /\ Does(q).op \in ops
<1>1. Ended(q, from, end) /\ Does(q).op \in ops BY EndsEnded DEF CallsOK
<1> QED BY <1>1, EndedTurn

\* A step of a webhook, an echo, the dashboard or the review is one of its call alone.
LEMMA InboundAdvances ==
  ASSUME CallsOK, NEW q \in Calls, InboundStep(q)
  PROVE  Advances(q) /\ Does(q).op \in InboundOps
<1>0. plan' = plan /\ Formed BY DEF InboundStep, CallsOK
<1> USE DEF InboundOps, Talks, Listens, Pages, Echoes, Over
<1>1. CASE Admit(q) BY <1>0, <1>1, StartsAdvances, AnswersAdvances, GoesAdvances, EndsAdvances DEF Admit
<1>2. CASE ReadCursor(q) BY <1>0, <1>2, StartsAdvances, AnswersAdvances, GoesAdvances, EndsAdvances DEF ReadCursor
<1>3. CASE WriteCursor(q) BY <1>0, <1>3, StartsAdvances, AnswersAdvances, GoesAdvances, EndsAdvances DEF WriteCursor
<1>4. CASE BeginTurn(q)
  BY <1>0, <1>4, StartsAdvances, AnswersAdvances, GoesAdvances, EndsAdvances DEF BeginTurn, Unanswered
<1>5. CASE EndTurn(q) BY <1>0, <1>5, StartsAdvances, AnswersAdvances, GoesAdvances, EndsAdvances DEF EndTurn
<1>6. CASE NoAnswer(q)
  BY <1>0, <1>6, StartsAdvances, AnswersAdvances, GoesAdvances, EndsAdvances DEF NoAnswer, Unanswered
<1>7. CASE Deduplicate(q)
  BY <1>0, <1>7, StartsAdvances, AnswersAdvances, GoesAdvances, EndsAdvances DEF Deduplicate, Suppress
<1>8. CASE withDisclosure(q)
  BY <1>0, <1>8, StartsAdvances, AnswersAdvances, GoesAdvances, EndsAdvances DEF withDisclosure, Takes
<1>9. CASE sendMetaMessage(q)
  BY <1>0, <1>9, StartsAdvances, AnswersAdvances, GoesAdvances, EndsAdvances DEF sendMetaMessage
<1>10. CASE sendWhatsAppMessage(q)
  BY <1>0, <1>10, StartsAdvances, AnswersAdvances, GoesAdvances, EndsAdvances DEF sendWhatsAppMessage
<1>11. CASE SendFails(q) BY <1>0, <1>11, StartsAdvances, AnswersAdvances, GoesAdvances, EndsAdvances DEF SendFails
<1>12. CASE Record(q) BY <1>0, <1>12, StartsAdvances, AnswersAdvances, GoesAdvances, EndsAdvances DEF Record
<1>13. CASE recordReply(q) BY <1>0, <1>13, StartsAdvances, AnswersAdvances, GoesAdvances, EndsAdvances DEF recordReply
<1>14. CASE BeginEcho(q) BY <1>0, <1>14, EnterBecomes, EnterTurn DEF BeginEcho, Starting, Begun
<1>15. CASE FindEchoed(q) BY <1>0, <1>15, StartsAdvances, AnswersAdvances, GoesAdvances, EndsAdvances DEF FindEchoed
<1>16. CASE DedupeEcho(q) BY <1>0, <1>16, StartsAdvances, AnswersAdvances, GoesAdvances, EndsAdvances DEF DedupeEcho
<1>17. CASE MirrorEcho(q) BY <1>0, <1>17, StartsAdvances, AnswersAdvances, GoesAdvances, EndsAdvances DEF MirrorEcho
<1>18. CASE TakeOver(q) BY <1>0, <1>18, StartsAdvances, AnswersAdvances, GoesAdvances, EndsAdvances DEF TakeOver
<1>19. CASE Handover(q) BY <1>0, <1>19, StartsAdvances, AnswersAdvances, GoesAdvances, EndsAdvances DEF Handover
<1>20. CASE AgentReads(q) BY <1>0, <1>20, StartsAdvances, AnswersAdvances, GoesAdvances, EndsAdvances DEF AgentReads
<1>21. CASE AgentWrites(q) BY <1>0, <1>21, StartsAdvances, AnswersAdvances, GoesAdvances, EndsAdvances DEF AgentWrites
<1>22. CASE deliverToExternalChannel(q)
  BY <1>0, <1>22, StartsAdvances, AnswersAdvances, GoesAdvances, EndsAdvances DEF deliverToExternalChannel
<1>23. CASE Close(q) BY <1>0, <1>23, StartsAdvances, AnswersAdvances, GoesAdvances, EndsAdvances DEF Close
<1>24. CASE setTestBot(q) BY <1>0, <1>24, StartsAdvances, AnswersAdvances, GoesAdvances, EndsAdvances DEF setTestBot
<1>25. CASE ClearOnSet(q) BY <1>0, <1>25, StartsAdvances, AnswersAdvances, GoesAdvances, EndsAdvances DEF ClearOnSet
<1>26. CASE UnsetTestBot(q)
  BY <1>0, <1>26, StartsAdvances, AnswersAdvances, GoesAdvances, EndsAdvances DEF UnsetTestBot
<1>27. CASE clearTestMessages(q)
  BY <1>0, <1>27, StartsAdvances, AnswersAdvances, GoesAdvances, EndsAdvances DEF clearTestMessages
<1>28. CASE BeginTest(q) BY <1>0, <1>28, StartsAdvances, AnswersAdvances, GoesAdvances, EndsAdvances DEF BeginTest
<1>29. CASE SendTest(q) BY <1>0, <1>29, StartsAdvances, AnswersAdvances, GoesAdvances, EndsAdvances DEF SendTest
<1>30. CASE ReadTestLog(q) BY <1>0, <1>30, StartsAdvances, AnswersAdvances, GoesAdvances, EndsAdvances DEF ReadTestLog
<1>31. CASE WriteTestLog(q)
  BY <1>0, <1>31, StartsAdvances, AnswersAdvances, GoesAdvances, EndsAdvances DEF WriteTestLog
<1>32. CASE Does(q).op \in InboundOps /\ Dies(q) BY <1>0, <1>32, DiesTurn
<1> QED
  BY <1>1, <1>2, <1>3, <1>4, <1>5, <1>6, <1>7, <1>8, <1>9, <1>10, <1>11, <1>12, <1>13, <1>14, <1>15, <1>16, <1>17, <1>18, <1>19, <1>20, <1>21, <1>22, <1>23, <1>24, <1>25, <1>26, <1>27, <1>28, <1>29, <1>30, <1>31, <1>32
     DEF InboundStep, handlePageWebhook, handleInstagramWebhook, handleWhatsAppWebhook, handleLegacyWebhook, handleOwnerEcho, handleMessageEchoes, handleTestModeMessages, TestMode, sendAgentMessage, Message, Turn, PageSend, Echo

\* A step of a visitor, an administrator or the night is one of its call alone.
LEMMA VisitorAdvances ==
  ASSUME CallsOK, NEW q \in Calls, VisitorStep(q)
  PROVE  Advances(q) /\ Does(q).op \in VisitorOps
<1>0. plan' = plan /\ Formed BY DEF VisitorStep, CallsOK
<1> USE DEF VisitorOps, Chats, Over
<1>1. CASE FindVisitor(q) BY <1>0, <1>1, StartsAdvances, AnswersAdvances, GoesAdvances, EndsAdvances DEF FindVisitor
<1>2. CASE CreateVisitor(q)
  BY <1>0, <1>2, StartsAdvances, AnswersAdvances, GoesAdvances, EndsAdvances DEF CreateVisitor
<1>3. CASE RefreshVisitor(q)
  BY <1>0, <1>3, StartsAdvances, AnswersAdvances, GoesAdvances, EndsAdvances DEF RefreshVisitor
<1>4. CASE BeginChat(q) BY <1>0, <1>4, StartsAdvances, AnswersAdvances, GoesAdvances, EndsAdvances DEF BeginChat
<1>5. CASE ChatFails(q) BY <1>0, <1>5, StartsAdvances, AnswersAdvances, GoesAdvances, EndsAdvances DEF ChatFails
<1>6. CASE CountChat(q) BY <1>0, <1>6, StartsAdvances, AnswersAdvances, GoesAdvances, EndsAdvances DEF CountChat
<1>7. CASE BlockVisitor(q) BY <1>0, <1>7, StartsAdvances, AnswersAdvances, GoesAdvances, EndsAdvances DEF BlockVisitor
<1>8. CASE UnblockVisitor(q)
  BY <1>0, <1>8, StartsAdvances, AnswersAdvances, GoesAdvances, EndsAdvances DEF UnblockVisitor
<1>9. CASE resetDailyVisitorStats(q)
  BY <1>0, <1>9, StartsAdvances, AnswersAdvances, GoesAdvances, EndsAdvances DEF resetDailyVisitorStats
<1>10. CASE CloseRated(q) BY <1>0, <1>10, StartsAdvances, AnswersAdvances, GoesAdvances, EndsAdvances DEF CloseRated
<1>11. CASE MarkFeedback(q)
  BY <1>0, <1>11, StartsAdvances, AnswersAdvances, GoesAdvances, EndsAdvances DEF MarkFeedback
<1>12. CASE StoreFeedback(q)
  BY <1>0, <1>12, StartsAdvances, AnswersAdvances, GoesAdvances, EndsAdvances DEF StoreFeedback
<1>13. CASE Does(q).op \in VisitorOps /\ Dies(q) BY <1>0, <1>13, DiesTurn
<1> QED
  BY <1>1, <1>2, <1>3, <1>4, <1>5, <1>6, <1>7, <1>8, <1>9, <1>10, <1>11, <1>12, <1>13
     DEF VisitorStep, createSession, VisitorMessage, widgetChat, chatStream, recordFeedback

\* A step of a connection is one of its call alone.
LEMMA IntegrationAdvances ==
  ASSUME CallsOK, NEW q \in Calls, IntegrationStep(q)
  PROVE  Advances(q) /\ Does(q).op \in IntegrationOps
<1>0. plan' = plan /\ Formed BY DEF IntegrationStep, CallsOK
<1> USE DEF IntegrationOps, Upserts, Connects, Leaves, ByRow, Over
<1>1. CASE SubscribePage(q)
  BY <1>0, <1>1, StartsAdvances, AnswersAdvances, GoesAdvances, EndsAdvances DEF SubscribePage
<1>2. CASE ExchangeCode(q) BY <1>0, <1>2, StartsAdvances, AnswersAdvances, GoesAdvances, EndsAdvances DEF ExchangeCode
<1>3. CASE FindRow(q)
 <2>1. At(q, Upserts, "find") /\ \E i : Goes(q, "write", [Loc(q) EXCEPT !.row = i]) BY <1>3 DEF FindRow
 <2>2. PICK i : Goes(q, "write", [Loc(q) EXCEPT !.row = i]) BY <2>1
 <2> QED BY <1>0, <2>1, <2>2, GoesAdvances
<1>4. CASE WriteRow(q) BY <1>0, <1>4, StartsAdvances, AnswersAdvances, GoesAdvances, EndsAdvances DEF WriteRow, After
<1>5. CASE FindLeaving(q) BY <1>0, <1>5, StartsAdvances, AnswersAdvances, GoesAdvances, EndsAdvances DEF FindLeaving
<1>6. CASE FindDeauthorized(q)
  BY <1>0, <1>6, StartsAdvances, AnswersAdvances, GoesAdvances, EndsAdvances DEF FindDeauthorized
<1>7. CASE Release(q) BY <1>0, <1>7, StartsAdvances, AnswersAdvances, GoesAdvances, EndsAdvances DEF Release
<1>8. CASE DeleteRows(q) BY <1>0, <1>8, StartsAdvances, AnswersAdvances, GoesAdvances, EndsAdvances DEF DeleteRows
<1>9. CASE FindById(q) BY <1>0, <1>9, StartsAdvances, AnswersAdvances, GoesAdvances, EndsAdvances DEF FindById
<1>10. CASE ApplyById(q) BY <1>0, <1>10, StartsAdvances, AnswersAdvances, GoesAdvances, EndsAdvances DEF ApplyById
<1>11. CASE ReadPayload(q) BY <1>0, <1>11, StartsAdvances, AnswersAdvances, GoesAdvances, EndsAdvances DEF ReadPayload
<1>12. CASE PushPayload(q) BY <1>0, <1>12, StartsAdvances, AnswersAdvances, GoesAdvances, EndsAdvances DEF PushPayload
<1>13. CASE ReadToken(q)
 <2>1. \/ \E end : Answers(q, {"token"}, end)
       \/ \E loc : Starts(q, {"token"}, "refresh", loc) \/ Starts(q, {"token"}, "invalidate", loc)
   BY <1>13 DEF ReadToken
 <2> QED BY <1>0, <2>1, StartsAdvances, AnswersAdvances
<1>14. CASE refreshAccessToken(q)
  BY <1>0, <1>14, StartsAdvances, AnswersAdvances, GoesAdvances, EndsAdvances DEF refreshAccessToken
<1>15. CASE StoreToken(q) BY <1>0, <1>15, StartsAdvances, AnswersAdvances, GoesAdvances, EndsAdvances DEF StoreToken
<1>16. CASE MarkInvalid(q) BY <1>0, <1>16, StartsAdvances, AnswersAdvances, GoesAdvances, EndsAdvances DEF MarkInvalid
<1>17. CASE createAuthorizationCode(q)
  BY <1>0, <1>17, StartsAdvances, AnswersAdvances, GoesAdvances, EndsAdvances DEF createAuthorizationCode
<1>18. CASE FindCode(q) BY <1>0, <1>18, StartsAdvances, AnswersAdvances, GoesAdvances, EndsAdvances DEF FindCode
<1>19. CASE UseCode(q) BY <1>0, <1>19, StartsAdvances, AnswersAdvances, GoesAdvances, EndsAdvances DEF UseCode
<1>20. CASE disconnectShop(q)
  BY <1>0, <1>20, StartsAdvances, AnswersAdvances, GoesAdvances, EndsAdvances DEF disconnectShop
<1>21. CASE Does(q).op \in IntegrationOps /\ Dies(q) BY <1>0, <1>21, DiesTurn
<1> QED
  BY <1>1, <1>2, <1>3, <1>4, <1>5, <1>6, <1>7, <1>8, <1>9, <1>10, <1>11, <1>12, <1>13, <1>14, <1>15, <1>16, <1>17, <1>18, <1>19, <1>20, <1>21
     DEF IntegrationStep, Upsert, Sync, Leave, completeConnection, completeSignup, handleCallback, createIntegration, completeShop, changeIntegration, disconnectChannel, disconnectPhone, disconnectCalendar, deleteByFbUserId, getTokenForBot, exchangeCodeForToken

\* A step of the legal documents is one of its call alone.
LEMMA LegalAdvances ==
  ASSUME CallsOK, NEW q \in Calls, LegalStep(q)
  PROVE  Advances(q) /\ Does(q).op \in LegalOps
<1>0. plan' = plan /\ Formed BY DEF LegalStep, CallsOK
<1> USE DEF LegalOps, Admins, Over
<1>1. CASE createDocument(q)
  BY <1>0, <1>1, StartsAdvances, AnswersAdvances, GoesAdvances, EndsAdvances DEF createDocument
<1>2. CASE CountPublished(q)
  BY <1>0, <1>2, StartsAdvances, AnswersAdvances, GoesAdvances, EndsAdvances DEF CountPublished
<1>3. CASE DeleteDocument(q)
  BY <1>0, <1>3, StartsAdvances, AnswersAdvances, GoesAdvances, EndsAdvances DEF DeleteDocument
<1>4. CASE FindLatest(q) BY <1>0, <1>4, StartsAdvances, AnswersAdvances, GoesAdvances, EndsAdvances DEF FindLatest
<1>5. CASE CreateDraft(q) BY <1>0, <1>5, StartsAdvances, AnswersAdvances, GoesAdvances, EndsAdvances DEF CreateDraft
<1>6. CASE CheckEdit(q) BY <1>0, <1>6, StartsAdvances, AnswersAdvances, GoesAdvances, EndsAdvances DEF CheckEdit
<1>7. CASE WriteContent(q) BY <1>0, <1>7, StartsAdvances, AnswersAdvances, GoesAdvances, EndsAdvances DEF WriteContent
<1>8. CASE ReadTranslation(q)
  BY <1>0, <1>8, StartsAdvances, AnswersAdvances, GoesAdvances, EndsAdvances DEF ReadTranslation
<1>9. CASE ApproveTranslation(q)
  BY <1>0, <1>9, StartsAdvances, AnswersAdvances, GoesAdvances, EndsAdvances DEF ApproveTranslation
<1>10. CASE CheckPublish(q)
  BY <1>0, <1>10, StartsAdvances, AnswersAdvances, GoesAdvances, EndsAdvances DEF CheckPublish
<1>11. CASE ArchivePublished(q)
  BY <1>0, <1>11, StartsAdvances, AnswersAdvances, GoesAdvances, EndsAdvances DEF ArchivePublished
<1>12. CASE PublishVersion(q)
 <2>1. At(q, {"publish"}, "commit") /\ \E end : Ends(q, end) BY <1>12 DEF PublishVersion
 <2> QED BY <1>0, <2>1, EndsAdvances
<1>13. CASE ReadAccepted(q)
  BY <1>0, <1>13, StartsAdvances, AnswersAdvances, GoesAdvances, EndsAdvances DEF ReadAccepted
<1>14. CASE CreateAcceptance(q)
  BY <1>0, <1>14, StartsAdvances, AnswersAdvances, GoesAdvances, EndsAdvances DEF CreateAcceptance
<1>15. CASE BeginSignUp(q) BY <1>0, <1>15, StartsAdvances, AnswersAdvances, GoesAdvances, EndsAdvances DEF BeginSignUp
<1>16. CASE FindSignUp(q) BY <1>0, <1>16, StartsAdvances, AnswersAdvances, GoesAdvances, EndsAdvances DEF FindSignUp
<1>17. CASE CreateSignUp(q)
  BY <1>0, <1>17, StartsAdvances, AnswersAdvances, GoesAdvances, EndsAdvances DEF CreateSignUp
<1>18. CASE Does(q).op \in LegalOps /\ Dies(q) BY <1>0, <1>18, DiesTurn
<1> QED
  BY <1>1, <1>2, <1>3, <1>4, <1>5, <1>6, <1>7, <1>8, <1>9, <1>10, <1>11, <1>12, <1>13, <1>14, <1>15, <1>16, <1>17, <1>18
     DEF LegalStep

\* A service's calls are no other's.
LEMMA OpsApart ==
  /\ BootOps \cap InboundOps = {} /\ BootOps \cap VisitorOps = {} /\ BootOps \cap IntegrationOps = {}
  /\ BootOps \cap LegalOps = {} /\ InboundOps \cap VisitorOps = {} /\ InboundOps \cap IntegrationOps = {}
  /\ InboundOps \cap LegalOps = {} /\ VisitorOps \cap IntegrationOps = {} /\ VisitorOps \cap LegalOps = {}
  /\ IntegrationOps \cap LegalOps = {}
<1> USE DEF BootOps, Boots, InboundOps, Talks, Listens, Echoes, VisitorOps, IntegrationOps, Upserts, Connects, Leaves, ByRow, LegalOps, Admins
<1>1. BootOps \cap InboundOps = {} /\ BootOps \cap VisitorOps = {} /\ BootOps \cap IntegrationOps = {} OBVIOUS
<1>2. BootOps \cap LegalOps = {} /\ InboundOps \cap VisitorOps = {} /\ InboundOps \cap IntegrationOps = {} OBVIOUS
<1>3. InboundOps \cap LegalOps = {} /\ VisitorOps \cap IntegrationOps = {} /\ VisitorOps \cap LegalOps = {} OBVIOUS
<1>4. IntegrationOps \cap LegalOps = {} OBVIOUS
<1> QED BY <1>1, <1>2, <1>3, <1>4

\* A step of the system is time's, and moves no call, or one of a call of a
\* service; nobody else's variables change.
Times == UNCHANGED <<plan, call>>
ByCall(q, ops) == q \in Calls /\ Advances(q) /\ Does(q).op \in ops
InboundStays == UNCHANGED inboundVars
VisitorStays == UNCHANGED visitorVars
IntegrationStays == UNCHANGED integrationVars
LegalStays == UNCHANGED legalVars
BootStays == UNCHANGED bootstrapVars

\* A step of the channels is time or one of a call.
LEMMA InboundIs ==
  ASSUME CallsOK, InboundNext
  PROVE  (InboundClock /\ Times) \/ \E q \in Calls : InboundStep(q) /\ ByCall(q, InboundOps)
<1>1. CASE InboundClock
  BY <1>1 DEF InboundClock, IdsForgotten, LinesAge, IdlePasses, WindowEnds, RepliesForgotten, Times
<1>2. ASSUME NEW q \in Calls, InboundStep(q)
      PROVE  InboundStep(q) /\ ByCall(q, InboundOps)
  BY <1>2, InboundAdvances DEF ByCall
<1> QED BY <1>1, <1>2 DEF InboundNext

\* A step of the widget is midnight or one of a call.
LEMMA VisitorsIs ==
  ASSUME CallsOK, VisitorsNext
  PROVE  (Midnight /\ Times) \/ \E q \in Calls : VisitorStep(q) /\ ByCall(q, VisitorOps)
<1>1. CASE Midnight BY <1>1 DEF Midnight, Times
<1>2. ASSUME NEW q \in Calls, VisitorStep(q)
      PROVE  VisitorStep(q) /\ ByCall(q, VisitorOps)
  BY <1>2, VisitorAdvances DEF ByCall
<1> QED BY <1>1, <1>2 DEF VisitorsNext

IntegrationClock == TokenExpires \/ (CodeExpires /\ UNCHANGED <<plan, call, row, subscribed, client, gateway>>)

\* A step of the connections is time or one of a call.
LEMMA IntegrationsIs ==
  ASSUME CallsOK, IntegrationsNext
  PROVE  (IntegrationClock /\ Times) \/ \E q \in Calls : IntegrationStep(q) /\ ByCall(q, IntegrationOps)
<1>1. CASE IntegrationClock BY <1>1 DEF IntegrationClock, TokenExpires, Times
<1>2. ASSUME NEW q \in Calls, IntegrationStep(q)
      PROVE  IntegrationStep(q) /\ ByCall(q, IntegrationOps)
  BY <1>2, IntegrationAdvances DEF ByCall
<1> QED BY <1>1, <1>2 DEF IntegrationsNext, IntegrationClock

\* A step of the legal documents is one of a call.
LEMMA LegalIs ==
  ASSUME CallsOK, LegalNext
  PROVE  \E q \in Calls : LegalStep(q) /\ ByCall(q, LegalOps)
<1>2. ASSUME NEW q \in Calls, LegalStep(q)
      PROVE  LegalStep(q) /\ ByCall(q, LegalOps)
  BY <1>2, LegalAdvances DEF ByCall
<1> QED BY <1>2 DEF LegalNext

\* A step of the bootstrap is the search or one of a call.
LEMMA BootstrapIs ==
  ASSUME CallsOK, BootstrapNext
  PROVE  (IndexProduct /\ Times) \/ \E q \in Calls : BootstrapStep(q) /\ ByCall(q, BootOps)
<1>1. CASE IndexProduct BY <1>1 DEF IndexProduct, Times
<1>2. ASSUME NEW q \in Calls, BootstrapStep(q)
      PROVE  BootstrapStep(q) /\ ByCall(q, BootOps)
  BY <1>2, BootTurn DEF ByCall
<1> QED BY <1>1, <1>2 DEF BootstrapNext

\* A step of the system, seen from a service: its own, or one of the others.
LEMMA SystemStep ==
  ASSUME CallsOK, [ServicesNext]_servicesVars
  PROVE  \/ InboundNext /\ (\A q \in Calls : Routed(q)) /\ VisitorStays /\ IntegrationStays /\ LegalStays /\ BootStays
         \/ VisitorsNext /\ InboundStays /\ IntegrationStays /\ LegalStays /\ BootStays
         \/ IntegrationsNext /\ InboundStays /\ VisitorStays /\ LegalStays /\ BootStays
         \/ LegalNext /\ InboundStays /\ VisitorStays /\ IntegrationStays /\ BootStays
         \/ BootstrapNext /\ InboundStays /\ VisitorStays /\ IntegrationStays /\ LegalStays
         \/ Times /\ InboundStays /\ VisitorStays /\ IntegrationStays /\ LegalStays /\ BootStays
<1>1. CASE ServicesNext BY <1>1 DEF ServicesNext, InboundStays, VisitorStays, IntegrationStays, LegalStays, BootStays
<1>2. CASE UNCHANGED servicesVars
  BY <1>2 DEF servicesVars, Times, InboundStays, VisitorStays, IntegrationStays, LegalStays, BootStays
<1> QED BY <1>1, <1>2

\* What moves the calls at all
LEMMA SystemCalls ==
  ASSUME CallsOK, [ServicesNext]_servicesVars
  PROVE  CallsOK' /\ (Times \/ \E q \in Calls : Advances(q))
<1>1. Times \/ \E q \in Calls : Advances(q)
  BY SystemStep, InboundIs, VisitorsIs, IntegrationsIs, LegalIs, BootstrapIs DEF ByCall
<1> QED BY <1>1, TurnKeeps, StillKeeps DEF Times

\* Seen from what a pod makes sure of.
LEMMA BootSystem ==
  ASSUME CallsOK, BootInv, [ServicesNext]_servicesVars
  PROVE  BootInv'
<1>1. CASE BootstrapNext BY <1>1, BootstrapIs, BootStep, BootIndexed DEF Times
<1>2. ASSUME NEW q \in Calls, Advances(q), Does(q).op \notin BootOps, BootStays
      PROVE  BootInv'
  BY <1>2, BootElsewhere DEF BootStays
<1>3. CASE Times /\ BootStays BY <1>3, BootStill DEF Times, BootStays
<1>4. CASE BootStays /\ (InboundNext \/ VisitorsNext \/ IntegrationsNext \/ LegalNext)
 <2>1. Times \/ \E q \in Calls : Advances(q) /\ Does(q).op \notin BootOps
   BY <1>4, InboundIs, VisitorsIs, IntegrationsIs, LegalIs, OpsApart DEF ByCall
 <2> QED BY <1>4, <2>1, <1>2, <1>3
<1> QED BY <1>1, <1>3, <1>4, SystemStep

\* Stripe and the rows settle, however many pods start and whatever else the
\* services do meanwhile.
THEOREM ServicesBootstrapSettles == ServicesSpec => []BootstrapSettles
<1>1. ServicesInit => CallsOK /\ BootInv BY BootInit DEF ServicesInit
<1>2. CallsOK /\ BootInv /\ [ServicesNext]_servicesVars => (CallsOK /\ BootInv)' BY SystemCalls, BootSystem
<1>3. CallsOK /\ BootInv => BootstrapSettles BY BootSettlesThen
<1> QED BY <1>1, <1>2, <1>3, PTL DEF ServicesSpec

(* Integrations: rows, and what each step does to them. *)
ConfigType == [bot : Bots \cup {None}, page : Pages2 \cup {None}, fb : BOOLEAN, fit : BOOLEAN, refresh : Bots \cup Calls \cup {None},
               invalid : BOOLEAN, due : BOOLEAN, by : Calls \cup {None}]
RowType == [type : RowTypes, bot : Bots, off : BOOLEAN, live : BOOLEAN, cfg : ConfigType]
RowsTyped == row \in Seq(RowType)

\* One row is put, the others stay.
Puts(i, r) ==
  /\ i \in 1..(Len(row) + 1) /\ row' \in Seq(RowType) /\ DOMAIN row' = DOMAIN row \cup {i}
  /\ row'[i] = r /\ \A k \in DOMAIN row \ {i} : row'[k] = row[k]
\* Some rows are deleted, the others stay.
Drops(gone) ==
  /\ row' \in Seq(RowType) /\ DOMAIN row' = DOMAIN row
  /\ \A k \in DOMAIN row : IF k \in gone THEN row'[k] = [row[k] EXCEPT !.live = FALSE] ELSE row'[k] = row[k]

\* A row that is put where one is, or after them.
LEMMA PutsThere ==
  ASSUME row \in Seq(RowType), NEW i \in DOMAIN row, NEW r \in RowType, row' = [row EXCEPT ![i] = r]
  PROVE  Puts(i, r)
<1>1. row' \in Seq(RowType) /\ Len(row) \in Nat /\ DOMAIN row = 1..Len(row) BY ExceptSeq
<1> QED BY <1>1 DEF Puts

\* A row that comes after the others.
LEMMA PutsAfter ==
  ASSUME row \in Seq(RowType), NEW r \in RowType, row' = Append(row, r)
  PROVE  Puts(Len(row) + 1, r)
<1>1. /\ row' \in Seq(RowType) /\ Len(row') = Len(row) + 1 /\ Len(row) \in Nat
      /\ \A k \in 1..Len(row) : row'[k] = row[k]
      /\ row'[Len(row) + 1] = r /\ DOMAIN row = 1..Len(row) /\ DOMAIN row' = 1..(Len(row) + 1)
  BY RowsGrow
<1> QED BY <1>1 DEF Puts

\* A row that is deleted is still one.
LEMMA RowGone ==
  ASSUME NEW r \in RowType
  PROVE  [r EXCEPT !.live = FALSE] \in RowType
  BY DEF RowType

\* Rows that are deleted together.
LEMMA DropsThen ==
  ASSUME row \in Seq(RowType), NEW gone,
         row' = [i \in DOMAIN row |-> IF i \in gone THEN [row[i] EXCEPT !.live = FALSE] ELSE row[i]]
  PROVE  Drops(gone)
<1>0. \A i \in DOMAIN row : row[i] \in RowType BY ElementOfSeq
<1>1. \A i \in DOMAIN row : (IF i \in gone THEN [row[i] EXCEPT !.live = FALSE] ELSE row[i]) \in RowType
  BY <1>0, RowGone
<1>2. DOMAIN row = 1..Len(row) /\ Len(row) \in Nat BY LenProperties
<1>3. row' \in [1..Len(row) -> RowType] BY <1>1, <1>2
<1>4. row' \in Seq(RowType) BY <1>2, <1>3, SeqDef
<1> QED BY <1>4 DEF Drops

\* What the plan says of a call.
LEMMA CallTold ==
  ASSUME plan \in Plans, NEW q \in Calls
  PROVE  /\ Does(q).op \in Upserts \cup Leaves \cup ByRow =>
              /\ Bot(q) \in Bots /\ Does(q).page \in Pages2 \cup {None} /\ Types(q) \in Seq(RowTypes) /\ Types(q) # <<>>
         /\ Does(q).op \in {"connectPage", "leavePage"} => TypesOf(q) \subseteq PageTypes
         /\ Does(q).op \in {"connectPhone", "leavePhone"} => TypesOf(q) = {"whatsapp"}
         /\ Does(q).op \in {"connectCalendar", "leaveCalendar"} => TypesOf(q) = {"calendar"}
         /\ Does(q).op = "linkShop" => TypesOf(q) = {"shopify"}
         /\ Does(q).op \in ByRow \cup {"create"} => Len(Types(q)) = 1
         /\ Does(q).op = "schedule" => Does(q).off \in BOOLEAN
         /\ Does(q).op = "connectPage" => Does(q).page \in Pages2 /\ Does(q).fb \in BOOLEAN
         /\ Does(q).op \in ByHand => Does(q).config \in Config \cup {None}
         /\ Does(q).op = "token" => Bot(q) \in Bots
         /\ Does(q).op = "redeem" => Does(q).of \in Calls
  BY ConnectionsAreTold DEF Does, Bot, Types, TypesOf

\* What a handler of the connections has read by the place it is at.
UpsertHolds(q) ==
  Does(q).op \in Upserts /\ call[q].pc \in {"find", "write"} =>
    /\ Loc(q) \in [left : Seq(RowTypes), row : Nat] /\ Loc(q).left # <<>>
    /\ \A k \in DOMAIN Loc(q).left : Loc(q).left[k] \in TypesOf(q)
    /\ call[q].pc = "write" /\ Loc(q).row # 0 =>
         /\ Loc(q).row \in DOMAIN row /\ row[Loc(q).row].type = Head(Loc(q).left)
         /\ Does(q).op \in Connects /\ Head(Loc(q).left) # "shopify" =>
              row[Loc(q).row].cfg.bot = Bot(q) \/ Handled(Head(Loc(q).left))
LeaveHolds(q) ==
  Does(q).op \in Leaves \cup {"deauthorize"} /\ call[q].pc \in {"release", "delete"} =>
    /\ Loc(q).rows \subseteq DOMAIN row
    /\ Does(q).op \in Leaves => \A i \in Loc(q).rows :
         row[i].type \in TypesOf(q) /\ (row[i].cfg.bot = Bot(q) \/ Handled(row[i].type))
    /\ Does(q).op = "deauthorize" => \A i \in Loc(q).rows : row[i].type \in PageTypes
ByRowHolds(q) ==
  Does(q).op \in ByRow /\ call[q].pc = "apply" =>
    /\ Loc(q) \in [left : Seq(RowTypes), row : Nat]
    /\ Loc(q).row \in DOMAIN row /\ row[Loc(q).row].type = Head(Types(q))
TokenHolds(q) ==
  Does(q).op = "token" /\ call[q].pc \in {"refresh", "store", "invalidate"} =>
    /\ Loc(q) \in [row : Nat, cfg : ConfigType] /\ Loc(q).row \in DOMAIN row /\ row[Loc(q).row].type = "calendar"
    /\ Loc(q).cfg.bot = Bot(q) /\ ~Loc(q).cfg.invalid /\ (row[Loc(q).row].cfg.bot = Bot(q) \/ Handled("calendar"))
    /\ call[q].pc = "refresh" => client \in Bots \cup Calls
EndHolds(q) ==
  Does(q).op \in IntegrationOps /\ Alive(q) => call[q].end = None
Place(q) == UpsertHolds(q) /\ LeaveHolds(q) /\ ByRowHolds(q) /\ TokenHolds(q) /\ EndHolds(q)
IntegrationHolds == \A q \in Calls : Place(q)
IntegrationTypes ==
  /\ RowsTyped /\ subscribed \subseteq Pages2 /\ client \in Bots \cup Calls \cup {None}
  /\ code \in [Calls -> {None, "fresh", "used", "expired"}]
IntegrationBase == plan \in Plans /\ IntegrationTypes /\ IntegrationHolds

\* The steps by which something is connected, as what they read and write.
LEMMA SubscribePageIs ==
  ASSUME Formed, NEW q \in Calls, SubscribePage(q)
  PROVE  /\ Entered(q, "find", [left |-> Types(q), row |-> 0]) /\ Does(q).op = "connectPage"
         /\ UNCHANGED <<row, client, gateway>>
         /\ subscribed' = subscribed \cup {Does(q).page} \/ (plan.failures /\ UNCHANGED subscribed)
  BY StartsEnters DEF SubscribePage, Subscribed

\* The step ExchangeCode, as what it reads and writes.
LEMMA ExchangeCodeIs ==
  ASSUME Formed, NEW q \in Calls, ExchangeCode(q)
  PROVE  /\ Does(q).op \in Upserts \ {"connectPage"} /\ UNCHANGED integrationVars
         /\ Entered(q, "find", [left |-> Types(q), row |-> 0]) \/ Answered(q, "failed")
<1>1. CASE Starts(q, Upserts \ {"connectPage"}, "find", [left |-> Types(q), row |-> 0])
  BY <1>1, StartsEnters DEF ExchangeCode
<1>2. CASE Answers(q, {"connectPhone", "connectCalendar"}, "failed")
  BY <1>2, AnswersAnswered DEF ExchangeCode, Upserts, Connects
<1> QED BY <1>1, <1>2 DEF ExchangeCode

\* The step FindRow, as what it reads and writes.
LEMMA FindRowIs ==
  ASSUME Formed, NEW q \in Calls, FindRow(q)
  PROVE  /\ Does(q).op \in Upserts /\ UNCHANGED integrationVars
         /\ \/ Found(Head(Loc(q).left), q) = {} /\ Went(q, "find", "write", [Loc(q) EXCEPT !.row = 0])
            \/ \E i \in Found(Head(Loc(q).left), q) : Went(q, "find", "write", [Loc(q) EXCEPT !.row = i])
<1>1. At(q, Upserts, "find") /\ UNCHANGED integrationVars BY DEF FindRow
<1>2. Does(q).op \in Upserts BY <1>1 DEF At
<1>3. CASE Found(Head(Loc(q).left), q) = {} /\ Goes(q, "write", [Loc(q) EXCEPT !.row = 0])
  BY <1>1, <1>2, <1>3, GoesWent
<1>4. ASSUME NEW i \in Found(Head(Loc(q).left), q), Goes(q, "write", [Loc(q) EXCEPT !.row = i])
      PROVE  Went(q, "find", "write", [Loc(q) EXCEPT !.row = i])
  BY <1>1, <1>4, GoesWent
<1> QED BY <1>1, <1>2, <1>3, <1>4 DEF FindRow

\* After a type is written.
Proceeds(q) ==
  \/ Tail(Loc(q).left) # <<>> /\ Went(q, "write", "find", [Loc(q) EXCEPT !.left = Tail(Loc(q).left)])
  \/ Tail(Loc(q).left) = <<>> /\ McpRelevant(Head(Loc(q).left)) /\ Went(q, "write", "readAll", Loc(q))
  \/ Tail(Loc(q).left) = <<>> /\ ~McpRelevant(Head(Loc(q).left)) /\ Ended(q, "write", "connected")
Wrote(q, i) ==
  /\ Puts(i, row'[i]) /\ row'[i].type = Head(Loc(q).left) /\ row'[i].live
  /\ \/ Loc(q).row = 0 /\ i = Len(row) + 1 /\ row'[i].cfg = NewConfig(q) /\ row'[i].bot = Bot(q)
     \/ /\ Loc(q).row = i /\ i \in Live /\ row'[i].cfg = Rewritten(row[i].cfg, q)
        /\ row'[i].bot = IF Does(q).op = "create" THEN row[i].bot ELSE Bot(q)

\* What is left to connect has the types of the call, and so has its tail.
LEMMA LeftIs ==
  ASSUME NEW s \in Seq(RowTypes), s # <<>>, NEW T, \A k \in DOMAIN s : s[k] \in T
  PROVE  /\ Head(s) \in RowTypes \cap T /\ Tail(s) \in Seq(RowTypes)
         /\ \A k \in DOMAIN Tail(s) : Tail(s)[k] \in T
         /\ Len(Tail(s)) > 0 <=> Tail(s) # <<>>
<1>1. Len(s) \in Nat /\ Len(s) > 0 /\ 1 \in DOMAIN s /\ Head(s) = s[1] OBVIOUS
<1>2. Tail(s) \in Seq(RowTypes) /\ Len(Tail(s)) = Len(s) - 1 /\ \A k \in 1..Len(Tail(s)) : Tail(s)[k] = s[k + 1]
  BY HeadTailProperties
<1> QED BY <1>1, <1>2

\* What a client sends for a row is a configuration, or leaves the one that is there.
LEMMA SendsIs ==
  ASSUME plan \in Plans, NEW q \in Calls, Does(q).op \in ByHand, NEW cfg \in ConfigType
  PROVE  /\ Sends(q, cfg) \in ConfigType
         /\ \/ Does(q).config = None /\ Sends(q, cfg) = cfg
            \/ /\ Does(q).config # None /\ Sends(q, cfg).bot = Does(q).config.bot /\ Sends(q, cfg).by = q
               /\ Sends(q, cfg).refresh = Does(q).config.refresh
<1>1. CASE Does(q).config = None BY <1>1 DEF Sends
<1>2. CASE Does(q).config # None
 <2> DEFINE c == Does(q).config
 <2>1. c \in Config BY <1>2, CallTold
 <2>2. Sends(q, cfg) = [c EXCEPT !.by = q] BY <1>2 DEF Sends
 <2> HIDE DEF c
 <2>3. /\ [c EXCEPT !.by = q] \in ConfigType /\ [c EXCEPT !.by = q].bot = c.bot
       /\ [c EXCEPT !.by = q].refresh = c.refresh /\ [c EXCEPT !.by = q].by = q
   BY <2>1 DEF Config, ConfigType
 <2> QED BY <1>2, <2>2, <2>3 DEF c
<1> QED BY <1>1, <1>2

\* What a row is created with.
LEMMA NewConfigIs ==
  ASSUME plan \in Plans, NEW q \in Calls, Does(q).op \in Upserts
  PROVE  /\ NewConfig(q) \in ConfigType /\ NewConfig(q).by = q
         /\ Does(q).op \in Connects \ {"linkShop"} =>
              NewConfig(q).bot = Bot(q) /\ NewConfig(q).refresh = q /\ ~NewConfig(q).invalid
         /\ Does(q).op = "linkShop" => NewConfig(q).refresh = None
         /\ Does(q).op = "create" =>
              \/ NewConfig(q).refresh = None
              \/ /\ Does(q).config # None /\ NewConfig(q).bot = Does(q).config.bot
                 /\ NewConfig(q).refresh = Does(q).config.refresh
<1>0. Bot(q) \in Bots /\ Does(q).page \in Pages2 \cup {None} /\ (Does(q).op = "connectPage" => Does(q).fb \in BOOLEAN)
  BY CallTold
<1>1. CASE Does(q).op = "create"
 <2> DEFINE c == Sends(q, Empty)
 <2>1. Empty \in ConfigType /\ Empty.refresh = None BY DEF Empty, ConfigType
 <2>2. /\ c \in ConfigType
       /\ c.refresh = None \/ (Does(q).config # None /\ c.bot = Does(q).config.bot /\ c.refresh = Does(q).config.refresh)
   BY <1>1, <2>1, SendsIs DEF ByHand
 <2>3. NewConfig(q) = [c EXCEPT !.by = q] BY <1>1 DEF NewConfig
 <2> HIDE DEF c
 <2>4. /\ [c EXCEPT !.by = q] \in ConfigType /\ [c EXCEPT !.by = q].by = q /\ [c EXCEPT !.by = q].refresh = c.refresh
       /\ [c EXCEPT !.by = q].bot = c.bot
   BY <2>2 DEF ConfigType
 <2> QED BY <1>1, <2>2, <2>3, <2>4 DEF Connects
<1>2. CASE Does(q).op = "linkShop" BY <1>2 DEF NewConfig, Empty, ConfigType
<1>3. CASE Does(q).op \in Connects \ {"linkShop"}
 <2>1. NewConfig(q) = [bot |-> Bot(q), page |-> Does(q).page, fb |-> Does(q).op = "connectPage" /\ Does(q).fb, fit |-> TRUE,
                       refresh |-> q, invalid |-> FALSE, due |-> FALSE, by |-> q]
   BY <1>3 DEF NewConfig, Connects
 <2>2. (Does(q).op = "connectPage" /\ Does(q).fb) \in BOOLEAN BY <1>0
 <2> QED BY <1>0, <1>3, <2>1, <2>2 DEF ConfigType, Connects
<1> QED BY <1>1, <1>2, <1>3 DEF Upserts

\* What a row that is there is given.
LEMMA RewrittenIs ==
  ASSUME plan \in Plans, NEW q \in Calls, Does(q).op \in Upserts, NEW cfg \in ConfigType
  PROVE  /\ Rewritten(cfg, q) \in ConfigType /\ (Does(q).op \in Connects => Rewritten(cfg, q) = NewConfig(q))
         /\ Does(q).op = "create" => Rewritten(cfg, q) = Sends(q, cfg)
  BY SendsIs, NewConfigIs DEF Rewritten, Connects, Upserts, ByHand

\* The step WriteRow, as what it reads and writes.
LEMMA WriteRowIs ==
  ASSUME Formed, IntegrationBase, NEW q \in Calls, WriteRow(q)
  PROVE  /\ Does(q).op \in Upserts /\ call[q].pc = "write" /\ UNCHANGED <<subscribed, client, gateway>>
         /\ \/ Proceeds(q) /\ \E i \in 1..(Len(row) + 1) : Wrote(q, i)
            \/ Ended(q, "write", "failed") /\ UNCHANGED row
<1>1. At(q, Upserts, "write") /\ UNCHANGED <<subscribed, client, gateway>> BY DEF WriteRow
<1>2. Does(q).op \in Upserts /\ call[q].pc = "write" BY <1>1 DEF At
<1>3. UpsertHolds(q) /\ plan \in Plans /\ RowsTyped BY DEF IntegrationBase, IntegrationTypes, IntegrationHolds, Place
<1> DEFINE left == Loc(q).left
           i == Loc(q).row
           n == NewRow(Head(left), Bot(q), NewConfig(q))
<1>4. left \in Seq(RowTypes) /\ left # <<>> /\ (\A k \in DOMAIN left : left[k] \in TypesOf(q)) /\ i \in Nat
  BY <1>2, <1>3 DEF UpsertHolds
<1>5. Head(left) \in RowTypes \cap TypesOf(q) /\ (Len(Tail(left)) > 0 <=> Tail(left) # <<>>) BY <1>4, LeftIs
<1>6. n \in RowType /\ Bot(q) \in Bots
 <2>1. NewConfig(q) \in ConfigType /\ Bot(q) \in Bots BY <1>2, <1>3, NewConfigIs, CallTold
 <2> QED BY <1>5, <2>1 DEF NewRow, RowType
<1>7. ASSUME After(q)  PROVE Proceeds(q)
 <2>1. CASE Len(Tail(left)) > 0 BY <1>1, <1>5, <1>7, <2>1, GoesWent DEF After, Proceeds
 <2>2. CASE ~(Len(Tail(left)) > 0) /\ McpRelevant(Head(left)) BY <1>1, <1>5, <1>7, <2>2, GoesWent DEF After, Proceeds
 <2>3. CASE ~(Len(Tail(left)) > 0) /\ ~McpRelevant(Head(left))
   BY <1>1, <1>5, <1>7, <2>3, EndsEnded DEF After, Proceeds
 <2> QED BY <2>1, <2>2, <2>3
<1>8. CASE i = 0
 <2>1. After(q) /\ row' = Append(row, n) BY <1>8 DEF WriteRow
 <2>2. Puts(Len(row) + 1, n) BY <1>3, <1>6, <2>1, PutsAfter DEF RowsTyped
 <2>3. row'[Len(row) + 1] = n /\ Len(row) + 1 \in 1..(Len(row) + 1) BY <2>2 DEF Puts
 <2>4. Wrote(q, Len(row) + 1) BY <1>8, <2>2, <2>3 DEF Wrote, NewRow
 <2> QED BY <1>1, <1>2, <1>7, <2>1, <2>3, <2>4
<1>9. CASE i # 0 /\ row[i].live
 <2> DEFINE c == Rewritten(row[i].cfg, q)
            b == IF Does(q).op = "create" THEN row[i].bot ELSE Bot(q)
            x == [row[i] EXCEPT !.cfg = c, !.bot = b]
 <2>1. After(q) /\ row' = [row EXCEPT ![i].cfg = Rewritten(@, q), ![i].bot = IF Does(q).op = "create" THEN @ ELSE Bot(q)]
   BY <1>9 DEF WriteRow
 <2>2. i \in DOMAIN row /\ row[i].type = Head(left) /\ row \in Seq(RowType)
   BY <1>2, <1>3, <1>9 DEF UpsertHolds, RowsTyped
 <2>3. row[i] \in RowType /\ i \in 1..(Len(row) + 1) BY <2>2, ElementOfSeq
 <2>4. row' = [row EXCEPT ![i] = x] BY <2>1, <2>2, <2>3 DEF RowType
 <2>5. c \in ConfigType /\ b \in Bots BY <1>2, <1>3, <1>6, <2>3, RewrittenIs DEF RowType
 <2>6. c = Rewritten(row[i].cfg, q) /\ b = IF Does(q).op = "create" THEN row[i].bot ELSE Bot(q) OBVIOUS
 <2> HIDE DEF c, b
 <2>7. x \in RowType /\ x.type = Head(left) /\ x.live /\ x.cfg = c /\ x.bot = b BY <1>9, <2>2, <2>3, <2>5 DEF RowType
 <2> HIDE DEF x
 <2>8. Puts(i, x) BY <2>2, <2>4, <2>7, PutsThere
 <2>9. row'[i] = x BY <2>8 DEF Puts
 <2>10. Wrote(q, i) BY <1>9, <2>2, <2>6, <2>7, <2>8, <2>9 DEF Wrote, Live
 <2> QED BY <1>1, <1>2, <1>7, <2>1, <2>3, <2>10
<1>10. CASE i # 0 /\ ~row[i].live BY <1>1, <1>2, <1>10, EndsEnded DEF WriteRow
<1> QED BY <1>8, <1>9, <1>10

\* The steps by which something is disconnected.
LEMMA FindLeavingIs ==
  ASSUME Formed, NEW q \in Calls, FindLeaving(q)
  PROVE  /\ Does(q).op \in Leaves /\ UNCHANGED integrationVars
         /\ \/ Answered(q, "unknown")
            \/ \E i \in Live : /\ row[i].type \in TypesOf(q) /\ row[i].cfg.bot = Bot(q)
                               /\ Entered(q, "release", [rows |-> {i}, pages |-> Left({i})])
<1>1. CASE Answers(q, Leaves, "unknown") BY <1>1, AnswersAnswered DEF FindLeaving
<1>2. ASSUME NEW i \in UNION {RowsOn(t, Bot(q)) : t \in TypesOf(q)},
             Starts(q, Leaves, "release", [rows |-> {i}, pages |-> Left({i})])
      PROVE  /\ Does(q).op \in Leaves
             /\ \E k \in Live : /\ row[k].type \in TypesOf(q) /\ row[k].cfg.bot = Bot(q)
                                /\ Entered(q, "release", [rows |-> {k}, pages |-> Left({k})])
 <2>1. i \in Live /\ row[i].type \in TypesOf(q) /\ row[i].cfg.bot = Bot(q) BY <1>2 DEF RowsOn
 <2> QED BY <1>2, <2>1, StartsEnters
<1>3. UNCHANGED integrationVars BY DEF FindLeaving
<1>4. \/ Answers(q, Leaves, "unknown")
      \/ \E i \in UNION {RowsOn(t, Bot(q)) : t \in TypesOf(q)} :
           Starts(q, Leaves, "release", [rows |-> {i}, pages |-> Left({i})])
  BY DEF FindLeaving
<1> QED BY <1>1, <1>2, <1>3, <1>4

\* The step FindDeauthorized, as what it reads and writes.
LEMMA FindDeauthorizedIs ==
  ASSUME Formed, NEW q \in Calls, FindDeauthorized(q)
  PROVE  /\ Does(q).op = "deauthorize" /\ UNCHANGED integrationVars
         /\ Entered(q, "release", [rows |-> CreatedBy, pages |-> Left(CreatedBy)])
  BY StartsEnters DEF FindDeauthorized

\* The step Release, as what it reads and writes.
LEMMA ReleaseIs ==
  ASSUME Formed, NEW q \in Calls, Release(q)
  PROVE  /\ Does(q).op \in Leaves \cup {"deauthorize"} /\ UNCHANGED <<row, client, gateway>>
         /\ Went(q, "release", "delete", Loc(q))
         /\ subscribed' = subscribed \ Loc(q).pages \/ (plan.failures /\ UNCHANGED subscribed)
<1>1. At(q, Leaves \cup {"deauthorize"}, "release") /\ Goes(q, "delete", Loc(q)) BY DEF Release
<1> QED BY <1>1, GoesWent DEF Release

\* The step DeleteRows, as what it reads and writes.
LEMMA DeleteRowsIs ==
  ASSUME Formed, IntegrationBase, NEW q \in Calls, DeleteRows(q)
  PROVE  /\ Does(q).op \in Leaves \cup {"deauthorize"} /\ UNCHANGED <<subscribed, client, gateway>>
         /\ Drops(Loc(q).rows)
         /\ Ended(q, "delete", "left") \/ (Ended(q, "delete", "failed") /\ Does(q).op # "deauthorize")
<1>1. At(q, Leaves \cup {"deauthorize"}, "delete") /\ UNCHANGED <<subscribed, client, gateway>> /\ Deleted(Loc(q).rows)
  BY DEF DeleteRows
<1>2. Drops(Loc(q).rows) BY <1>1, DropsThen DEF Deleted, IntegrationBase, IntegrationTypes, RowsTyped
<1>3. CASE Does(q).op = "deauthorize" \/ Loc(q).rows \subseteq Live BY <1>1, <1>2, <1>3, EndsEnded DEF DeleteRows
<1>4. CASE ~(Does(q).op = "deauthorize" \/ Loc(q).rows \subseteq Live) BY <1>1, <1>2, <1>4, EndsEnded DEF DeleteRows
<1> QED BY <1>3, <1>4

\* The steps on a row by its id, and of the gateway.
LEMMA FindByIdIs ==
  ASSUME Formed, NEW q \in Calls, FindById(q)
  PROVE  /\ Does(q).op \in ByRow /\ UNCHANGED integrationVars
         /\ \/ Answered(q, "unknown")
            \/ \E i \in Live : row[i].type = Head(Types(q)) /\ Entered(q, "apply", [left |-> Types(q), row |-> i])
<1>1. PICK i \in DOMAIN row : /\ row[i].type = Head(Types(q))
                              /\ IF row[i].live THEN Starts(q, ByRow, "apply", [left |-> Types(q), row |-> i])
                                 ELSE Answers(q, ByRow, "unknown")
  BY DEF FindById
<1>2. CASE row[i].live BY <1>1, <1>2, StartsEnters DEF FindById, Live
<1>3. CASE ~row[i].live BY <1>1, <1>3, AnswersAnswered DEF FindById
<1> QED BY <1>2, <1>3

\* A change of one row keeps what it is of what and where.
Changes(q, i) ==
  /\ Puts(i, row'[i]) /\ i \in Live /\ Loc(q).row = i /\ row'[i].type = row[i].type /\ row'[i].bot = row[i].bot
  /\ \/ Does(q).op = "update" /\ row'[i].live /\ row'[i].cfg = Sends(q, row[i].cfg)
     \/ Does(q).op = "schedule" /\ row'[i].live /\ row'[i].cfg = row[i].cfg
     \/ Does(q).op = "delete" /\ ~row'[i].live /\ row'[i].cfg = row[i].cfg

\* The step ApplyById, as what it reads and writes.
LEMMA ApplyByIdIs ==
  ASSUME Formed, IntegrationBase, NEW q \in Calls, ApplyById(q)
  PROVE  /\ Does(q).op \in ByRow /\ call[q].pc = "apply" /\ UNCHANGED <<subscribed, client, gateway>>
         /\ \/ Ended(q, "apply", "failed") /\ UNCHANGED row
            \/ /\ \/ Syncs(q) /\ Went(q, "apply", "readAll", Loc(q))
                  \/ ~Syncs(q) /\ Ended(q, "apply", "applied")
               /\ \E i \in Live : Changes(q, i)
<1> DEFINE i == Loc(q).row
<1>1. At(q, ByRow, "apply") /\ UNCHANGED <<subscribed, client, gateway>> BY DEF ApplyById
<1>2. Does(q).op \in ByRow /\ call[q].pc = "apply" BY <1>1 DEF At
<1>3. ByRowHolds(q) /\ RowsTyped /\ plan \in Plans BY DEF IntegrationBase, IntegrationTypes, IntegrationHolds, Place
<1>4. i \in DOMAIN row /\ row[i] \in RowType BY <1>2, <1>3, ElementOfSeq DEF ByRowHolds, RowsTyped
<1>5. CASE ~row[i].live
 <2>1. Ends(q, "failed") /\ row' = row BY <1>5 DEF ApplyById
 <2> QED BY <1>1, <1>2, <2>1, EndsEnded
<1>6. CASE row[i].live
 <2>1. (Syncs(q) /\ Went(q, "apply", "readAll", Loc(q))) \/ (~Syncs(q) /\ Ended(q, "apply", "applied"))
  <3>1. CASE Syncs(q) BY <1>1, <1>6, <3>1, GoesWent DEF ApplyById
  <3>2. CASE ~Syncs(q) BY <1>1, <1>6, <3>2, EndsEnded DEF ApplyById
  <3> QED BY <3>1, <3>2
 <2>2. ASSUME NEW x \in RowType, row' = [row EXCEPT ![i] = x]
       PROVE  Puts(i, row'[i]) /\ row'[i] = x
   BY <1>3, <1>4, <2>2, PutsThere DEF RowsTyped
 <2>3. i \in Live BY <1>4, <1>6 DEF Live
 <2>4. CASE Does(q).op = "update"
  <3> DEFINE c == Sends(q, row[i].cfg)
             x == [row[i] EXCEPT !.cfg = c]
  <3>1. c \in ConfigType BY <1>3, <1>4, <2>4, SendsIs DEF RowType, ByHand
  <3>2. row' = [row EXCEPT ![i] = x] BY <1>6, <2>4 DEF ApplyById
  <3>3. c = Sends(q, row[i].cfg) OBVIOUS
  <3> HIDE DEF c
  <3>4. x \in RowType /\ x.type = row[i].type /\ x.bot = row[i].bot /\ x.live /\ x.cfg = c BY <1>4, <1>6, <3>1 DEF RowType
  <3> HIDE DEF x
  <3>5. Puts(i, row'[i]) /\ row'[i] = x BY <3>2, <3>4, <2>2
  <3>6. Changes(q, i) BY <2>3, <2>4, <3>3, <3>4, <3>5 DEF Changes
  <3> QED BY <1>1, <1>2, <2>1, <2>3, <3>6
 <2>5. CASE Does(q).op = "schedule"
  <3> DEFINE x == [row[i] EXCEPT !.off = Does(q).off]
  <3>1. x \in RowType /\ x.type = row[i].type /\ x.bot = row[i].bot /\ x.live /\ x.cfg = row[i].cfg
    BY <1>3, <1>4, <1>6, <2>5, CallTold DEF RowType
  <3>2. row' = [row EXCEPT ![i] = x] BY <1>6, <2>5 DEF ApplyById
  <3> HIDE DEF x
  <3>4. Puts(i, row'[i]) /\ row'[i] = x BY <3>1, <3>2, <2>2
  <3>5. Changes(q, i) BY <2>3, <2>5, <3>1, <3>4 DEF Changes
  <3> QED BY <1>1, <1>2, <2>1, <2>3, <3>5
 <2>6. CASE Does(q).op = "delete"
  <3> DEFINE x == [row[i] EXCEPT !.live = FALSE]
  <3>1. x \in RowType /\ x.type = row[i].type /\ x.bot = row[i].bot /\ ~x.live /\ x.cfg = row[i].cfg BY <1>4 DEF RowType
  <3>2. row' = [row EXCEPT ![i] = x] BY <1>6, <2>6 DEF ApplyById
  <3> HIDE DEF x
  <3>4. Puts(i, row'[i]) /\ row'[i] = x BY <3>1, <3>2, <2>2
  <3>5. Changes(q, i) BY <2>3, <2>6, <3>1, <3>4 DEF Changes
  <3> QED BY <1>1, <1>2, <2>1, <2>3, <3>5
 <2> QED BY <1>2, <2>4, <2>5, <2>6 DEF ByRow
<1> QED BY <1>5, <1>6

Synced == {"create", "update", "delete"}

\* The step ReadPayload, as what it reads and writes.
LEMMA ReadPayloadIs ==
  ASSUME Formed, NEW q \in Calls, ReadPayload(q)
  PROVE  /\ Does(q).op \in Synced /\ UNCHANGED integrationVars
         /\ Went(q, "readAll", "push", [payload |-> Payload, row |-> Loc(q).row])
<1>1. At(q, {"create", "update", "delete"}, "readAll") /\ Goes(q, "push", [payload |-> Payload, row |-> Loc(q).row])
  BY DEF ReadPayload
<1> QED BY <1>1, GoesWent DEF ReadPayload, Synced

\* The step PushPayload, as what it reads and writes.
LEMMA PushPayloadIs ==
  ASSUME Formed, NEW q \in Calls, PushPayload(q)
  PROVE  /\ Does(q).op \in Synced /\ UNCHANGED <<row, subscribed, client>>
         /\ \/ Ended(q, "push", "synced") /\ gateway' = Loc(q).payload
            \/ plan.failures /\ (\E end \in {"synced", "failed"} : Ended(q, "push", end)) /\ UNCHANGED gateway
<1>1. At(q, {"create", "update", "delete"}, "push") BY DEF PushPayload
<1>2. ASSUME NEW end, Ends(q, end)
      PROVE  Ended(q, "push", end) /\ Does(q).op \in Synced
  BY <1>1, <1>2, EndsEnded DEF Synced
<1> QED BY <1>2 DEF PushPayload

\* A row that getTokenForBot goes on with: a token that is missing is told at once.
Reads(q, i) ==
  /\ row[i].type = "calendar" /\ row[i].cfg.bot = Bot(q) /\ ~row[i].cfg.invalid
  /\ \/ /\ row[i].cfg.refresh # None /\ client' = row[i].cfg.refresh
        /\ Entered(q, "refresh", [row |-> i, cfg |-> row[i].cfg])
     \/ row[i].cfg.refresh = None /\ UNCHANGED client /\ Entered(q, "invalidate", [row |-> i, cfg |-> row[i].cfg])

\* The steps of getTokenForBot.
LEMMA ReadTokenIs ==
  ASSUME Formed, NEW q \in Calls, ReadToken(q)
  PROVE  /\ Does(q).op = "token" /\ UNCHANGED <<row, subscribed, gateway>>
         /\ \/ UNCHANGED client /\ \E end \in {"notConfigured", "revoked", "token"} : Answered(q, end)
            \/ \E i \in Live : Reads(q, i)
<1>1. UNCHANGED <<row, subscribed, gateway>> BY DEF ReadToken
<1>2. ASSUME NEW end, Answers(q, {"token"}, end)
      PROVE  Does(q).op = "token" /\ Answered(q, end)
  BY <1>2, AnswersAnswered
<1>3. ASSUME NEW pc, NEW i, Starts(q, {"token"}, pc, [row |-> i, cfg |-> row[i].cfg])
      PROVE  Does(q).op = "token" /\ Entered(q, pc, [row |-> i, cfg |-> row[i].cfg])
  BY <1>3, StartsEnters
<1> DEFINE Read(i) ==
             IF row[i].cfg.invalid THEN Answers(q, {"token"}, "revoked") /\ UNCHANGED client
             ELSE IF ~row[i].cfg.due THEN Answers(q, {"token"}, "token") /\ UNCHANGED client
             ELSE IF row[i].cfg.refresh = None
             THEN Starts(q, {"token"}, "invalidate", [row |-> i, cfg |-> row[i].cfg]) /\ UNCHANGED client
             ELSE /\ Starts(q, {"token"}, "refresh", [row |-> i, cfg |-> row[i].cfg])
                  /\ client' = Hands(row[i].cfg.refresh)
<1>4. CASE Answers(q, {"token"}, "notConfigured") /\ UNCHANGED client BY <1>1, <1>2, <1>4
<1>5. ASSUME NEW i \in RowsOn("calendar", Bot(q)), Read(i)
      PROVE  /\ Does(q).op = "token"
             /\ \/ UNCHANGED client /\ \E end \in {"notConfigured", "revoked", "token"} : Answered(q, end)
                \/ \E k \in Live : Reads(q, k)
 <2>1. i \in Live /\ row[i].type = "calendar" /\ row[i].cfg.bot = Bot(q) BY <1>5 DEF RowsOn
 <2>2. CASE row[i].cfg.invalid BY <1>2, <1>5, <2>2
 <2>3. CASE ~row[i].cfg.invalid /\ ~row[i].cfg.due BY <1>2, <1>5, <2>3
 <2>4. CASE ~row[i].cfg.invalid /\ row[i].cfg.due /\ row[i].cfg.refresh = None
  <3>1. Starts(q, {"token"}, "invalidate", [row |-> i, cfg |-> row[i].cfg]) /\ UNCHANGED client BY <1>5, <2>4
  <3> QED BY <1>3, <2>1, <2>4, <3>1 DEF Reads
 <2>5. CASE ~row[i].cfg.invalid /\ row[i].cfg.due /\ row[i].cfg.refresh # None
  <3>1. Starts(q, {"token"}, "refresh", [row |-> i, cfg |-> row[i].cfg]) /\ client' = row[i].cfg.refresh
    BY <1>5, <2>5 DEF Hands
  <3> QED BY <1>3, <2>1, <2>5, <3>1 DEF Reads
 <2> QED BY <2>2, <2>3, <2>4, <2>5
<1>6. (Answers(q, {"token"}, "notConfigured") /\ UNCHANGED client) \/ \E i \in RowsOn("calendar", Bot(q)) : Read(i)
  BY DEF ReadToken
<1> QED BY <1>1, <1>4, <1>5, <1>6

\* The step Refresh, as what it reads and writes.
LEMMA RefreshIs ==
  ASSUME Formed, NEW q \in Calls, refreshAccessToken(q)
  PROVE  /\ Does(q).op = "token" /\ UNCHANGED integrationVars
         /\ \/ Went(q, "refresh", "store", [Loc(q) EXCEPT !.cfg = [@ EXCEPT !.refresh = client, !.due = FALSE]])
            \/ plan.failures /\ Went(q, "refresh", "invalidate", Loc(q))
<1>1. At(q, {"token"}, "refresh") /\ UNCHANGED integrationVars BY DEF refreshAccessToken
<1>2. Does(q).op = "token" BY <1>1 DEF At
<1>3. CASE Goes(q, "store", [Loc(q) EXCEPT !.cfg = [@ EXCEPT !.refresh = client, !.due = FALSE]])
  BY <1>1, <1>2, <1>3, GoesWent
<1>4. CASE plan.failures /\ Goes(q, "invalidate", Loc(q)) BY <1>1, <1>2, <1>4, GoesWent
<1> QED BY <1>3, <1>4 DEF refreshAccessToken

\* What a token call writes into its row.
Stores(q, i, cfg) ==
  /\ Puts(i, row'[i]) /\ i \in Live /\ Loc(q).row = i /\ row'[i].type = row[i].type /\ row'[i].live
  /\ row'[i].bot = row[i].bot /\ row'[i].cfg = cfg /\ cfg.bot = Loc(q).cfg.bot /\ cfg.refresh = Loc(q).cfg.refresh

\* The step Stores, as what it reads and writes.
LEMMA StoresIs ==
  ASSUME IntegrationBase, NEW q \in Calls, TokenHolds(q), Does(q).op = "token",
         call[q].pc \in {"refresh", "store", "invalidate"}, row[Loc(q).row].live,
         NEW c \in ConfigType, c.bot = Loc(q).cfg.bot, c.refresh = Loc(q).cfg.refresh,
         row' = [row EXCEPT ![Loc(q).row].cfg = c]
  PROVE  \E i \in Live : Stores(q, i, c)
<1> DEFINE i == Loc(q).row
           x == [row[i] EXCEPT !.cfg = c]
<1>1. i \in DOMAIN row /\ row[i] \in RowType /\ row[i].type = "calendar" /\ row \in Seq(RowType)
  BY ElementOfSeq DEF TokenHolds, IntegrationBase, IntegrationTypes, RowsTyped
<1>2. x \in RowType /\ x.type = row[i].type /\ x.bot = row[i].bot /\ x.live /\ x.cfg = c BY <1>1 DEF RowType
<1>3. row' = [row EXCEPT ![i] = x] OBVIOUS
<1> HIDE DEF x
<1>4. Puts(i, x) BY <1>1, <1>2, <1>3, PutsThere
<1>5. row'[i] = x BY <1>4 DEF Puts
<1>6. i \in Live BY <1>1 DEF Live
<1>7. Stores(q, i, c) BY <1>2, <1>4, <1>5, <1>6 DEF Stores
<1> QED BY <1>6, <1>7

\* The step StoreToken, as what it reads and writes.
LEMMA StoreTokenIs ==
  ASSUME Formed, IntegrationBase, NEW q \in Calls, StoreToken(q)
  PROVE  /\ Does(q).op = "token" /\ call[q].pc = "store" /\ UNCHANGED <<subscribed, client, gateway>>
         /\ \/ Ended(q, "store", "token") /\ \E i \in Live : Stores(q, i, Loc(q).cfg)
            \/ ~row[Loc(q).row].live /\ Went(q, "store", "invalidate", Loc(q)) /\ UNCHANGED row
<1>1. At(q, {"token"}, "store") /\ UNCHANGED <<subscribed, client, gateway>> BY DEF StoreToken
<1>2. Does(q).op = "token" /\ call[q].pc = "store" BY <1>1 DEF At
<1>3. TokenHolds(q) BY DEF IntegrationBase, IntegrationHolds, Place
<1>4. CASE row[Loc(q).row].live
 <2>1. Ends(q, "token") /\ row' = [row EXCEPT ![Loc(q).row].cfg = Loc(q).cfg] BY <1>4 DEF StoreToken
 <2>2. Loc(q).cfg \in ConfigType BY <1>2, <1>3 DEF TokenHolds
 <2> QED BY <1>1, <1>2, <1>3, <1>4, <2>1, <2>2, EndsEnded, StoresIs
<1>5. CASE ~row[Loc(q).row].live BY <1>1, <1>2, <1>5, GoesWent DEF StoreToken
<1> QED BY <1>4, <1>5

\* The step MarkInvalid, as what it reads and writes.
LEMMA MarkInvalidIs ==
  ASSUME Formed, IntegrationBase, NEW q \in Calls, MarkInvalid(q)
  PROVE  /\ Does(q).op = "token" /\ call[q].pc = "invalidate" /\ UNCHANGED <<subscribed, client, gateway>>
         /\ \/ Ended(q, "invalidate", "revoked") /\ \E i \in Live, c \in ConfigType : Stores(q, i, c)
            \/ ~row[Loc(q).row].live /\ Ended(q, "invalidate", "failed") /\ UNCHANGED row
<1>1. At(q, {"token"}, "invalidate") /\ UNCHANGED <<subscribed, client, gateway>> BY DEF MarkInvalid
<1>2. Does(q).op = "token" /\ call[q].pc = "invalidate" BY <1>1 DEF At
<1>3. TokenHolds(q) BY DEF IntegrationBase, IntegrationHolds, Place
<1>4. CASE row[Loc(q).row].live
 <2> DEFINE c == [Loc(q).cfg EXCEPT !.invalid = TRUE]
 <2>1. Ends(q, "revoked") /\ row' = [row EXCEPT ![Loc(q).row].cfg = c] BY <1>4 DEF MarkInvalid
 <2>2. Loc(q).cfg \in ConfigType BY <1>2, <1>3 DEF TokenHolds
 <2>3. c \in ConfigType /\ c.bot = Loc(q).cfg.bot /\ c.refresh = Loc(q).cfg.refresh BY <2>2 DEF ConfigType
 <2> HIDE DEF c
 <2> QED BY <1>1, <1>2, <1>3, <1>4, <2>1, <2>3, EndsEnded, StoresIs
<1>5. CASE ~row[Loc(q).row].live BY <1>1, <1>2, <1>5, EndsEnded DEF MarkInvalid
<1> QED BY <1>4, <1>5

\* The steps of a shop's code, and of a shop that goes.
LEMMA ConsentIs ==
  ASSUME Formed, NEW q \in Calls, createAuthorizationCode(q)
  PROVE  /\ Does(q).op = "consent"
         /\ (Answered(q, "code") /\ code' = [code EXCEPT ![q] = "fresh"]) \/ (Answered(q, "refused") /\ UNCHANGED code)
  BY AnswersAnswered DEF createAuthorizationCode

\* The step FindCode, as what it reads and writes.
LEMMA FindCodeIs ==
  ASSUME Formed, NEW q \in Calls, FindCode(q)
  PROVE  /\ Does(q).op = "redeem" /\ UNCHANGED code
         /\ (code[Does(q).of] = "fresh" /\ Entered(q, "use", None)) \/ Answered(q, "refused")
  BY StartsEnters, AnswersAnswered DEF FindCode

\* The step UseCode, as what it reads and writes.
LEMMA UseCodeIs ==
  ASSUME Formed, NEW q \in Calls, UseCode(q)
  PROVE  /\ Does(q).op = "redeem" /\ code' = [code EXCEPT ![Does(q).of] = "used"]
         /\ Ended(q, "use", "token")
<1>1. At(q, {"redeem"}, "use") /\ Ends(q, "token") /\ code' = [code EXCEPT ![Does(q).of] = "used"]
  BY DEF UseCode, Spent
<1> QED BY <1>1, EndsEnded

\* The step DisconnectShop, as what it reads and writes.
LEMMA DisconnectShopIs ==
  ASSUME Formed, RowsTyped, NEW q \in Calls, disconnectShop(q)
  PROVE  Does(q).op = "unlinkShop" /\ Answered(q, "left") /\ Drops(ShopRows)
<1>1. Answers(q, {"unlinkShop"}, "left")
      /\ row' = [i \in DOMAIN row |-> IF i \in ShopRows THEN [row[i] EXCEPT !.live = FALSE] ELSE row[i]]
  BY DEF disconnectShop, Cleared
<1> QED BY <1>1, AnswersAnswered, DropsThen DEF RowsTyped

\* The steps of a call, one by one.
LEMMA IntegrationActs ==
  ASSUME NEW q \in Calls, IntegrationStep(q)
  PROVE  /\ plan' = plan
         /\ \/ /\ \/ SubscribePage(q) \/ ExchangeCode(q) \/ FindRow(q) \/ WriteRow(q)
                  \/ FindLeaving(q) \/ FindDeauthorized(q) \/ Release(q) \/ DeleteRows(q)
                  \/ FindById(q) \/ ApplyById(q) \/ ReadPayload(q) \/ PushPayload(q)
                  \/ ReadToken(q) \/ refreshAccessToken(q) \/ StoreToken(q) \/ MarkInvalid(q)
               /\ UNCHANGED code
            \/ (createAuthorizationCode(q) \/ FindCode(q) \/ UseCode(q)) /\ UNCHANGED <<row, subscribed, client, gateway>>
            \/ disconnectShop(q) /\ UNCHANGED <<subscribed, client, gateway, code>>
            \/ Does(q).op \in IntegrationOps /\ Dies(q) /\ UNCHANGED integrationVars
  BY DEF IntegrationStep, completeConnection, completeSignup, handleCallback, createIntegration, completeShop, changeIntegration,
         disconnectChannel, disconnectPhone, disconnectCalendar, deleteByFbUserId, getTokenForBot, exchangeCodeForToken,
         Upsert, Sync, Leave

\* What no step takes from the rows: none disappears, none changes its type, a
\* deleted one stays so, and what it is looked for by stays, but for a shop's, of
\* which the team has one, and where rows of the type were written by hand.
RowsGrowOn ==
  /\ DOMAIN row \subseteq DOMAIN row'
  /\ \A i \in DOMAIN row :
       /\ row'[i].type = row[i].type /\ (row'[i].live => row[i].live)
       /\ row[i].type \in HandMade => row'[i].bot = row[i].bot
       /\ row[i].type \notin HandMade \cup {"shopify"} => row'[i].cfg.bot = row[i].cfg.bot \/ Handled(row[i].type)

\* Rows that are deleted keep theirs.
LEMMA TypedDrops ==
  ASSUME RowsTyped, NEW gone, Drops(gone)
  PROVE  RowsTyped' /\ RowsGrowOn
<1>1. ASSUME NEW k \in DOMAIN row
      PROVE  /\ row'[k].type = row[k].type /\ row'[k].cfg = row[k].cfg /\ (row'[k].live => row[k].live)
             /\ row'[k].bot = row[k].bot
 <2>1. row[k] \in RowType BY ElementOfSeq DEF RowsTyped
 <2>2. CASE k \in gone BY <2>1, <2>2 DEF Drops, RowType
 <2>3. CASE k \notin gone BY <2>1, <2>3 DEF Drops, RowType
 <2> QED BY <2>2, <2>3
<1>2. RowsTyped' BY DEF RowsTyped, Drops
<1>3. RowsGrowOn BY <1>1 DEF RowsGrowOn, Drops
<1> QED BY <1>2, <1>3

\* Types that are connected are not made by hand only.
LEMMA ConnectedTypes ==
  ASSUME plan \in Plans, NEW q \in Calls, Does(q).op \in Connects \cup Leaves, NEW t \in TypesOf(q)
  PROVE  t \notin HandMade /\ (Does(q).op \notin {"linkShop"} => t # "shopify")
<1>1. TypesOf(q) \subseteq PageTypes \/ TypesOf(q) \in {{"whatsapp"}, {"calendar"}, {"shopify"}} BY CallTold DEF Connects, Leaves
<1>2. Does(q).op \notin {"linkShop"} => TypesOf(q) \subseteq PageTypes \/ TypesOf(q) \in {{"whatsapp"}, {"calendar"}}
  BY CallTold DEF Connects, Leaves
<1> QED BY <1>1, <1>2 DEF PageTypes, HandMade, OldTypes

\* What a connect writes takes nothing from the rows.
LEMMA WroteGrows ==
  ASSUME plan \in Plans, NEW q \in Calls, UpsertHolds(q), Does(q).op \in Upserts, call[q].pc = "write", NEW i, Wrote(q, i),
         RowsTyped, i \in 1..(Len(row) + 1)
  PROVE  RowsGrowOn
<1>1. ASSUME NEW k \in DOMAIN row
      PROVE  /\ row'[k].type = row[k].type /\ (row'[k].live => row[k].live)
             /\ row[k].type \in HandMade => row'[k].bot = row[k].bot
             /\ row[k].type \notin HandMade \cup {"shopify"} => row'[k].cfg.bot = row[k].cfg.bot \/ Handled(row[k].type)
 <2>1. CASE k # i BY <2>1 DEF Wrote, Puts
 <2>2. CASE k = i
  <3>1. row \in Seq(RowType) /\ DOMAIN row = 1..Len(row) /\ Len(row) \in Nat /\ row[k] \in RowType
    BY LenProperties, ElementOfSeq DEF RowsTyped
  <3>2. Loc(q).row = i /\ i \in Live /\ i # 0 BY <2>2, <3>1 DEF Wrote
  <3>3. /\ row'[k].type = row[k].type /\ row[k].live /\ row[k].type = Head(Loc(q).left) /\ row[k].type \in TypesOf(q)
        /\ row[k].cfg \in ConfigType /\ row'[k].cfg = Rewritten(row[k].cfg, q)
   <4>1. Loc(q).left \in Seq(RowTypes) /\ Loc(q).left # <<>> /\ \A m \in DOMAIN Loc(q).left : Loc(q).left[m] \in TypesOf(q)
     BY DEF UpsertHolds
   <4>2. Head(Loc(q).left) \in TypesOf(q) BY <4>1, LeftIs
   <4> QED BY <2>2, <3>1, <3>2, <4>2 DEF Wrote, UpsertHolds, Live, RowType
  <3>4. CASE Does(q).op = "create"
   <4>1. Handled(row[k].type) BY <3>3, <3>4 DEF Handled, ByHand, Begun
   <4>2. row'[k].bot = row[k].bot BY <2>2, <3>1, <3>4 DEF Wrote
   <4> QED BY <3>3, <4>1, <4>2
  <3>5. CASE Does(q).op \in Connects
   <4>1. row[k].type \notin HandMade /\ (Does(q).op # "linkShop" => row[k].type # "shopify") BY <3>3, <3>5, ConnectedTypes
   <4>2. CASE Does(q).op = "linkShop"
    <5>1. TypesOf(q) = {"shopify"} BY <4>2, CallTold
    <5> QED BY <3>3, <4>1, <5>1
   <4>3. CASE Does(q).op # "linkShop"
    <5>1. row'[k].cfg.bot = Bot(q) BY <3>3, <3>5, <4>3, RewrittenIs, NewConfigIs
    <5>2. row[k].cfg.bot = Bot(q) \/ Handled(row[k].type) BY <2>2, <3>2, <3>3, <3>5, <4>1, <4>3 DEF UpsertHolds
    <5> QED BY <3>3, <4>1, <5>1, <5>2
   <4> QED BY <4>2, <4>3
  <3> QED BY <3>4, <3>5 DEF Upserts
 <2> QED BY <2>1, <2>2
<1>2. DOMAIN row \subseteq DOMAIN row' BY DEF Wrote, Puts
<1> QED BY <1>1, <1>2 DEF RowsGrowOn

\* Nor does what is applied to a row by its id.
LEMMA ChangesGrows ==
  ASSUME plan \in Plans, NEW q \in Calls, ByRowHolds(q), Does(q).op \in ByRow, call[q].pc = "apply",
         NEW i \in Live, Changes(q, i), RowsTyped
  PROVE  RowsGrowOn
<1>1. row'[i].cfg.bot = row[i].cfg.bot \/ Handled(row[i].type)
 <2>1. CASE Does(q).op = "update"
  <3>1. Types(q) \in Seq(RowTypes) /\ Types(q) # <<>> BY CallTold
  <3>2. Head(Types(q)) \in TypesOf(q) BY <3>1, LeftIs DEF TypesOf
  <3> QED BY <2>1, <3>2 DEF Changes, ByRowHolds, Handled, ByHand, Begun
 <2> QED BY <2>1 DEF Changes
<1> QED BY <1>1 DEF RowsGrowOn, Changes, Puts, Live

\* Nor do tokens that are stored.
LEMMA StoresGrows ==
  ASSUME NEW q \in Calls, Does(q).op = "token", call[q].pc \in {"store", "invalidate"}, TokenHolds(q),
         NEW i \in Live, NEW c, Stores(q, i, c)
  PROVE  RowsGrowOn
<1>1. row'[i].cfg.bot = row[i].cfg.bot \/ Handled(row[i].type) BY DEF Stores, TokenHolds
<1> QED BY <1>1 DEF RowsGrowOn, Stores, Puts, Live

\* Who writes by hand has done so for good.
LEMMA HandledStays ==
  ASSUME Times \/ \E q \in Calls : Advances(q), NEW t, Handled(t)
  PROVE  Handled(t)'
<1>1. plan' = plan /\ \A x \in Calls : Begun(x) => Begun(x)' BY TurnSince DEF Times, Advances, Begun
<1> QED BY <1>1 DEF Handled, Does, TypesOf, Types

\* What a call that does not move has read stays as it was.
LEMMA PlaceStays ==
  ASSUME plan \in Plans, plan' = plan, RowsGrowOn, NEW r \in Calls, Place(r), call'[r] = call[r],
         Times \/ \E q \in Calls : Advances(q),
         client' \in Bots \cup Calls \/ client' = client
  PROVE  Place(r)'
<1>0. /\ \A t : Handled(t) => Handled(t)'
      /\ UNCHANGED <<call[r], Does(r), Loc(r), Bot(r), TypesOf(r), Types(r)>>
  BY HandledStays DEF Does, Loc, Bot, TypesOf, Types
<1> USE DEF Alive, Begun, RowsGrowOn
<1>1. UpsertHolds(r)'
 <2> SUFFICES ASSUME Does(r).op \in Upserts, call[r].pc \in {"find", "write"}  PROVE UpsertHolds(r)' BY <1>0 DEF UpsertHolds
 <2>1. /\ Loc(r) \in [left : Seq(RowTypes), row : Nat] /\ Loc(r).left # <<>>
       /\ \A k \in DOMAIN Loc(r).left : Loc(r).left[k] \in TypesOf(r)
   BY DEF UpsertHolds, Place
 <2>2. CASE call[r].pc = "write" /\ Loc(r).row # 0
  <3> DEFINE i == Loc(r).row
             t == Head(Loc(r).left)
  <3>1. i \in DOMAIN row /\ row[i].type = t
        /\ (Does(r).op \in Connects /\ t # "shopify" => row[i].cfg.bot = Bot(r) \/ Handled(t))
    BY <2>2 DEF UpsertHolds, Place
  <3>2. Does(r).op \in Connects => t \notin HandMade BY <2>1, LeftIs, ConnectedTypes
  <3>3. i \in DOMAIN row' /\ row'[i].type = t
        /\ (Does(r).op \in Connects /\ t # "shopify" => row'[i].cfg.bot = Bot(r) \/ Handled(t))
    BY <3>1, <3>2
  <3> HIDE DEF t
  <3> QED BY <1>0, <2>1, <2>2, <3>3 DEF UpsertHolds, t
 <2> QED BY <1>0, <2>1, <2>2 DEF UpsertHolds
<1>2. LeaveHolds(r)'
 <2> SUFFICES ASSUME Does(r).op \in Leaves \cup {"deauthorize"}, call[r].pc \in {"release", "delete"}
              PROVE  /\ Loc(r).rows \subseteq DOMAIN row'
                     /\ Does(r).op \in Leaves => \A i \in Loc(r).rows :
                          row'[i].type \in TypesOf(r) /\ (row'[i].cfg.bot = Bot(r) \/ Handled(row[i].type)')
                     /\ Does(r).op = "deauthorize" => \A i \in Loc(r).rows : row'[i].type \in PageTypes
   BY <1>0 DEF LeaveHolds
 <2>1. /\ Loc(r).rows \subseteq DOMAIN row
       /\ Does(r).op \in Leaves => \A i \in Loc(r).rows :
            row[i].type \in TypesOf(r) /\ (row[i].cfg.bot = Bot(r) \/ Handled(row[i].type))
       /\ Does(r).op = "deauthorize" => \A i \in Loc(r).rows : row[i].type \in PageTypes
   BY DEF LeaveHolds, Place
 <2>2. \A i \in Loc(r).rows : i \in DOMAIN row BY <2>1
 <2>3. Does(r).op \in Leaves => \A t \in TypesOf(r) : t \notin HandMade \cup {"shopify"} BY ConnectedTypes DEF Leaves
 <2>4. ASSUME Does(r).op \in Leaves, NEW i \in Loc(r).rows
       PROVE  row'[i].type \in TypesOf(r) /\ (row'[i].cfg.bot = Bot(r) \/ Handled(row[i].type)')
  <3>1. /\ row[i].type \in TypesOf(r) /\ row'[i].type = row[i].type
        /\ (row[i].cfg.bot = Bot(r) /\ row'[i].cfg.bot = row[i].cfg.bot) \/ Handled(row[i].type)
    BY <2>1, <2>2, <2>3, <2>4
  <3>2. Handled(row[i].type) => Handled(row[i].type)' BY <1>0, <3>1 DEF Handled
  <3> QED BY <1>0, <3>1
 <2> QED BY <2>1, <2>2, <2>4
<1>3. ByRowHolds(r)' BY <1>0 DEF ByRowHolds, Place
<1>4. TokenHolds(r)' BY <1>0 DEF TokenHolds, Place, HandMade, OldTypes
<1>5. EndHolds(r)' BY <1>0 DEF EndHolds, Place
<1> QED BY <1>1, <1>2, <1>3, <1>4, <1>5 DEF Place

\* One call moves, and the others hold what they held.
LEMMA IntegrationOthers ==
  ASSUME IntegrationBase, RowsGrowOn, NEW q \in Calls, Advances(q), Place(q)',
         client' \in Bots \cup Calls \/ client' = client, IntegrationTypes'
  PROVE  IntegrationBase'
  BY PlaceStays DEF IntegrationBase, IntegrationHolds, Advances

\* Where a step leaves its call.
LEMMA EnteredAt ==
  ASSUME NEW q \in Calls, NEW pc, NEW loc, Entered(q, pc, loc)
  PROVE  /\ call'[q].pc = pc /\ call'[q].loc = loc /\ call'[q].end = None /\ ~Begun(q)
         /\ \A r \in Calls \ {q} : call'[r] = call[r]
  BY DEF Entered, Becomes

\* Where being answered at once leaves it.
LEMMA AnsweredAt ==
  ASSUME NEW q \in Calls, NEW end, Answered(q, end)
  PROVE  /\ call'[q].pc = "done" /\ call'[q].end = end /\ ~Begun(q) /\ \A r \in Calls \ {q} : call'[r] = call[r]
  BY DEF Answered, Becomes

\* Where going on leaves it.
LEMMA WentAt ==
  ASSUME NEW q \in Calls, NEW from, NEW to, NEW loc, Went(q, from, to, loc)
  PROVE  /\ call[q].pc = from /\ call'[q].pc = to /\ call'[q].loc = loc /\ call'[q].end = call[q].end
         /\ \A r \in Calls \ {q} : call'[r] = call[r]
  BY DEF Went, Becomes

\* Where ending leaves it.
LEMMA EndedAt ==
  ASSUME NEW q \in Calls, NEW from, NEW end, Ended(q, from, end)
  PROVE  /\ call[q].pc = from /\ call'[q].pc = "done" /\ call'[q].loc = Loc(q) /\ call'[q].end = end
         /\ \A r \in Calls \ {q} : call'[r] = call[r]
  BY DEF Ended, Becomes

\* A call that is over, and holds nothing to be deleted.
LEMMA PlaceDone ==
  ASSUME NEW r \in Calls, plan' = plan, call'[r].pc \in Over
  PROVE  Place(r)'
  BY DEF Place, UpsertHolds, LeaveHolds, ByRowHolds, TokenHolds, EndHolds, Alive, Over, Does

Kept(q) == IntegrationBase' /\ RowsGrowOn
\* Where no row, page or client changes.
LEMMA KeptThere ==
  ASSUME IntegrationBase, NEW q \in Calls, Advances(q),
         row' = row, UNCHANGED code, subscribed' \subseteq Pages2,
         client' \in Bots \cup Calls \/ client' = client, Place(q)'
  PROVE  Kept(q)
<1>1. RowsGrowOn BY DEF RowsGrowOn
<1>2. IntegrationTypes' BY DEF IntegrationBase, IntegrationTypes, RowsTyped
<1> QED BY <1>1, <1>2, IntegrationOthers DEF Kept

\* Where one row changes.
LEMMA KeptPut ==
  ASSUME IntegrationBase, NEW q \in Calls, Advances(q),
         RowsTyped', RowsGrowOn, UNCHANGED <<code, subscribed, client>>, Place(q)'
  PROVE  Kept(q)
<1>2. IntegrationTypes' BY DEF IntegrationBase, IntegrationTypes
<1> QED BY <1>2, IntegrationOthers DEF Kept

\* A row that a call finds is live, and of its type; who connects finds its bot's.
LEMMA FoundIs ==
  ASSUME NEW q, NEW t, NEW i \in Found(t, q), Does(q).op = "linkShop" => t = "shopify"
  PROVE  /\ i \in Live /\ i \in DOMAIN row /\ row[i].type = t
         /\ Does(q).op \in Connects /\ t # "shopify" => row[i].cfg.bot = Bot(q)
  BY DEF Found, ShopRows, RowsOn, Live, Connects

\* The steps by which something is connected keep it.
LEMMA ConnectsKept ==
  ASSUME CallsOK, IntegrationBase, NEW q \in Calls, Advances(q), plan' = plan, UNCHANGED code,
         SubscribePage(q) \/ ExchangeCode(q) \/ FindRow(q) \/ WriteRow(q)
  PROVE  Kept(q)
<1>0. Formed /\ Place(q) /\ plan \in Plans /\ RowsTyped
  BY DEF CallsOK, IntegrationBase, IntegrationHolds, IntegrationTypes
<1> USE DEF Upserts, Leaves, ByRow, Over
<1>1. ASSUME Entered(q, "find", [left |-> Types(q), row |-> 0]), Does(q).op \in Upserts
      PROVE  Place(q)'
 <2>1. call'[q].pc = "find" /\ call'[q].loc = [left |-> Types(q), row |-> 0] /\ call'[q].end = None BY <1>1, EnteredAt
 <2>2. Types(q) \in Seq(RowTypes) /\ Types(q) # <<>> BY <1>0, <1>1, CallTold
 <2>3. Loc(q)' = [left |-> Types(q), row |-> 0] /\ Does(q)' = Does(q) /\ TypesOf(q)' = TypesOf(q)
   BY <2>1 DEF Loc, Does, TypesOf, Types
 <2>4. \A k \in DOMAIN Types(q) : Types(q)[k] \in TypesOf(q) BY DEF TypesOf
 <2>5. UpsertHolds(q)' BY <2>1, <2>2, <2>3, <2>4 DEF UpsertHolds
 <2> QED BY <1>1, <2>1, <2>3, <2>5, NoneIsNoConnection DEF Place, LeaveHolds, ByRowHolds, TokenHolds, EndHolds
<1>2. CASE SubscribePage(q)
 <2>1. Does(q).page \in Pages2 BY <1>0, <1>2, SubscribePageIs, CallTold
 <2>2. subscribed' \subseteq Pages2 BY <1>0, <1>2, <2>1, SubscribePageIs DEF IntegrationBase, IntegrationTypes
 <2> QED BY <1>0, <1>1, <1>2, <2>2, SubscribePageIs, EnteredAt, KeptThere DEF Connects
<1>3. CASE ExchangeCode(q)
 <2>0. UNCHANGED <<row, subscribed, client>> /\ subscribed' \subseteq Pages2 /\ Does(q).op \in Upserts
   BY <1>0, <1>3, ExchangeCodeIs DEF integrationVars, IntegrationBase, IntegrationTypes
 <2>1. CASE Entered(q, "find", [left |-> Types(q), row |-> 0]) BY <1>1, <2>0, <2>1, EnteredAt, KeptThere
 <2>2. CASE Answered(q, "failed") BY <2>0, <2>2, AnsweredAt, PlaceDone, KeptThere
 <2> QED BY <1>0, <1>3, <2>1, <2>2, ExchangeCodeIs
<1>4. CASE FindRow(q)
 <2>0. UNCHANGED <<row, subscribed, client>> /\ subscribed' \subseteq Pages2 /\ Does(q).op \in Upserts
   BY <1>0, <1>4, FindRowIs DEF integrationVars, IntegrationBase, IntegrationTypes
 <2>1. PICK i : /\ Went(q, "find", "write", [Loc(q) EXCEPT !.row = i])
                /\ i = 0 \/ i \in Found(Head(Loc(q).left), q)
   BY <1>0, <1>4, FindRowIs
 <2>2. call[q].pc = "find" /\ call'[q].pc = "write" /\ call'[q].loc = [Loc(q) EXCEPT !.row = i] /\ call'[q].end = call[q].end
   BY <2>1, WentAt
 <2>3. /\ Loc(q) \in [left : Seq(RowTypes), row : Nat] /\ Loc(q).left # <<>>
       /\ \A k \in DOMAIN Loc(q).left : Loc(q).left[k] \in TypesOf(q)
   BY <1>0, <2>0, <2>2 DEF Place, UpsertHolds
 <2>4. i \in Nat /\ (i # 0 => /\ i \in DOMAIN row /\ row[i].type = Head(Loc(q).left)
                              /\ Does(q).op \in Connects /\ Head(Loc(q).left) # "shopify" => row[i].cfg.bot = Bot(q))
  <3>0. Does(q).op = "linkShop" => Head(Loc(q).left) = "shopify"
   <4>1. Head(Loc(q).left) \in TypesOf(q) BY <2>3, LeftIs
   <4> QED BY <1>0, <4>1, CallTold
  <3>1. row \in Seq(RowType) /\ DOMAIN row = 1..Len(row) /\ Len(row) \in Nat BY <1>0, LenProperties DEF RowsTyped
  <3> QED BY <2>1, <3>0, <3>1, FoundIs
 <2>5. UpsertHolds(q)'
  <3> DEFINE left == Loc(q).left
  <3>1. /\ Loc(q)' = [Loc(q) EXCEPT !.row = i] /\ UNCHANGED <<Does(q), TypesOf(q), Bot(q)>>
    BY <2>2 DEF Loc, Does, TypesOf, Types, Bot
  <3>2. Loc(q)' = [left |-> left, row |-> i] BY <2>3, <3>1
  <3>3. left \in Seq(RowTypes) BY <2>3
  <3> HIDE DEF left
  <3>4. Loc(q)' \in [left : Seq(RowTypes), row : Nat] /\ Loc(q)'.left = left /\ Loc(q)'.row = i BY <2>4, <3>2, <3>3
  <3> QED BY <2>0, <2>2, <2>3, <2>4, <3>1, <3>4 DEF UpsertHolds, left
 <2>6. call[q].end = None BY <1>0, <2>0, <2>2 DEF Place, EndHolds, Alive, Begun, IntegrationOps
 <2>7. Place(q)'
   BY <2>0, <2>2, <2>5, <2>6, NoneIsNoConnection DEF Place, LeaveHolds, ByRowHolds, TokenHolds, EndHolds, Does
 <2> QED BY <2>0, <2>1, <2>7, WentAt, KeptThere
<1>5. CASE WriteRow(q)
 <2>0. Does(q).op \in Upserts /\ call[q].pc = "write" /\ UNCHANGED <<subscribed, client, gateway>>
   BY <1>0, <1>5, WriteRowIs
 <2>1. CASE Ended(q, "write", "failed") /\ UNCHANGED row
   BY <2>0, <2>1, EndedAt, PlaceDone, KeptThere DEF IntegrationBase, IntegrationTypes
 <2>2. ASSUME Proceeds(q), NEW i \in 1..(Len(row) + 1), Wrote(q, i)
       PROVE  Kept(q)
  <3>1. RowsTyped' /\ RowsGrowOn BY <1>0, <2>0, <2>2, WroteGrows DEF Wrote, Puts, Place, RowsTyped
  <3>2. \A r \in Calls \ {q} : call'[r] = call[r] BY <2>2, WentAt, EndedAt DEF Proceeds
  <3>3. /\ Loc(q) \in [left : Seq(RowTypes), row : Nat] /\ Loc(q).left # <<>>
        /\ \A k \in DOMAIN Loc(q).left : Loc(q).left[k] \in TypesOf(q)
    BY <1>0, <2>0 DEF Place, UpsertHolds
  <3>4. call[q].end = None BY <1>0, <2>0 DEF Place, EndHolds, Alive, Begun, IntegrationOps
  <3>5. CASE Tail(Loc(q).left) # <<>> /\ Went(q, "write", "find", [Loc(q) EXCEPT !.left = Tail(Loc(q).left)])
   <4>1. call'[q].pc = "find" /\ call'[q].loc = [Loc(q) EXCEPT !.left = Tail(Loc(q).left)] /\ call'[q].end = None
     BY <3>4, <3>5, WentAt
   <4>2. Tail(Loc(q).left) \in Seq(RowTypes) /\ \A k \in DOMAIN Tail(Loc(q).left) : Tail(Loc(q).left)[k] \in TypesOf(q)
     BY <3>3, LeftIs
   <4>5. DOMAIN Loc(q)'.left = DOMAIN Tail(Loc(q).left) /\ Loc(q)' \in [left : Seq(RowTypes), row : Nat]
         /\ Loc(q)'.left = Tail(Loc(q).left)
     BY <3>3, <4>1, <4>2 DEF Loc
   <4>6. TypesOf(q)' = TypesOf(q) BY DEF TypesOf, Types, Does
   <4>3. UpsertHolds(q)' BY <3>5, <4>1, <4>2, <4>5, <4>6 DEF UpsertHolds
   <4>4. Place(q)'
     BY <2>0, <4>1, <4>3, NoneIsNoConnection DEF Place, LeaveHolds, ByRowHolds, TokenHolds, EndHolds, Does
   <4> QED BY <2>0, <3>1, <3>2, <4>4, KeptPut
  <3>6. CASE Went(q, "write", "readAll", Loc(q))
   <4>1. call'[q].pc = "readAll" /\ call'[q].end = None BY <3>4, <3>6, WentAt
   <4>2. Place(q)'
     BY <2>0, <4>1, NoneIsNoConnection DEF Place, UpsertHolds, LeaveHolds, ByRowHolds, TokenHolds, EndHolds, Does
   <4> QED BY <2>0, <3>1, <3>2, <4>2, KeptPut
  <3>7. CASE Ended(q, "write", "connected")
   <4>1. Place(q)' BY <2>0, <3>7, EndedAt, PlaceDone
   <4> QED BY <2>0, <3>1, <3>2, <4>1, KeptPut
  <3> QED BY <2>2, <3>5, <3>6, <3>7 DEF Proceeds
 <2> QED BY <1>0, <1>5, <2>1, <2>2, WriteRowIs
<1> QED BY <1>2, <1>3, <1>4, <1>5

\* So do those by which it is left.
LEMMA LeavesKept ==
  ASSUME CallsOK, IntegrationBase, NEW q \in Calls, Advances(q), plan' = plan, UNCHANGED code,
         FindLeaving(q) \/ FindDeauthorized(q) \/ Release(q) \/ DeleteRows(q)
  PROVE  Kept(q)
<1>0. Formed /\ Place(q) /\ plan \in Plans /\ RowsTyped /\ subscribed \subseteq Pages2
  BY DEF CallsOK, IntegrationBase, IntegrationHolds, IntegrationTypes
<1> USE DEF Upserts, Leaves, ByRow, Over
<1>1. \A i \in Live : i \in DOMAIN row BY DEF Live
<1>2. CASE FindLeaving(q)
 <2>0. Does(q).op \in Leaves /\ UNCHANGED <<row, subscribed, client>> BY <1>0, <1>2, FindLeavingIs DEF integrationVars
 <2>1. CASE Answered(q, "unknown") BY <1>0, <2>0, <2>1, AnsweredAt, PlaceDone, KeptThere
 <2>2. ASSUME NEW i \in Live, row[i].type \in TypesOf(q), row[i].cfg.bot = Bot(q),
              Entered(q, "release", [rows |-> {i}, pages |-> Left({i})])
       PROVE  Kept(q)
  <3>1. /\ call'[q].pc = "release" /\ call'[q].loc = [rows |-> {i}, pages |-> Left({i})]
        /\ call'[q].end = None /\ \A r \in Calls \ {q} : call'[r] = call[r]
    BY <2>2, EnteredAt
  <3>3. LeaveHolds(q)'
   <4>1. Loc(q)'.rows = {i} BY <3>1 DEF Loc
   <4> QED BY <1>1, <2>0, <2>2, <3>1, <4>1 DEF LeaveHolds, Does, TypesOf, Types, Bot
  <3>4. Place(q)' BY <2>0, <3>1, <3>3 DEF Place, UpsertHolds, ByRowHolds, TokenHolds, EndHolds, Does
  <3> QED BY <1>0, <2>0, <3>1, <3>4, KeptThere
 <2> QED BY <1>0, <1>2, <2>1, <2>2, FindLeavingIs
<1>3. CASE FindDeauthorized(q)
 <2> DEFINE loc == [rows |-> CreatedBy, pages |-> Left(CreatedBy)]
 <2>0. Does(q).op = "deauthorize" /\ UNCHANGED <<row, subscribed, client>> /\ Entered(q, "release", loc)
   BY <1>0, <1>3, FindDeauthorizedIs DEF integrationVars
 <2>1. call'[q].pc = "release" /\ call'[q].loc = loc /\ call'[q].end = None /\ \A r \in Calls \ {q} : call'[r] = call[r]
   BY <2>0, EnteredAt
 <2>2. \A i \in CreatedBy : i \in Live /\ row[i].type \in PageTypes BY DEF CreatedBy
 <2>3. LeaveHolds(q)'
  <3>1. Loc(q)'.rows = CreatedBy BY <2>1 DEF Loc
  <3> QED BY <1>1, <2>0, <2>1, <2>2, <3>1 DEF LeaveHolds, Does, Leaves
 <2>4. Place(q)' BY <2>0, <2>1, <2>3 DEF Place, UpsertHolds, ByRowHolds, TokenHolds, EndHolds, Does
 <2> QED BY <1>0, <2>0, <2>1, <2>4, KeptThere
<1>4. CASE Release(q)
 <2>0. /\ Does(q).op \in Leaves \cup {"deauthorize"} /\ UNCHANGED <<row, client>>
       /\ subscribed' \subseteq subscribed /\ Went(q, "release", "delete", Loc(q))
   BY <1>0, <1>4, ReleaseIs
 <2>1. call[q].pc = "release" /\ call'[q].pc = "delete" /\ call'[q].loc = Loc(q) /\ call'[q].end = call[q].end
       /\ \A r \in Calls \ {q} : call'[r] = call[r]
   BY <2>0, WentAt
 <2>2. call[q].end = None BY <1>0, <2>0, <2>1 DEF Place, EndHolds, Alive, Begun, IntegrationOps
 <2>3. LeaveHolds(q)'
  <3>1. Loc(q)' = Loc(q) /\ UNCHANGED <<row, Does(q), TypesOf(q), Bot(q)>> BY <2>0, <2>1 DEF Loc, Does, TypesOf, Types, Bot
  <3>2. \A t : Handled(t) => Handled(t)' BY HandledStays
  <3>3. LeaveHolds(q) BY <1>0 DEF Place
  <3> QED BY <2>0, <2>1, <3>1, <3>2, <3>3 DEF LeaveHolds
 <2>4. Place(q)' BY <2>0, <2>1, <2>2, <2>3 DEF Place, UpsertHolds, ByRowHolds, TokenHolds, EndHolds, Does
 <2> QED BY <1>0, <2>0, <2>1, <2>4, KeptThere
<1>5. CASE DeleteRows(q)
 <2>0. /\ Does(q).op \in Leaves \cup {"deauthorize"} /\ UNCHANGED <<subscribed, client>> /\ Drops(Loc(q).rows)
       /\ Ended(q, "delete", "left") \/ Ended(q, "delete", "failed")
   BY <1>0, <1>5, DeleteRowsIs
 <2>1. call[q].pc = "delete" /\ call'[q].pc = "done" /\ call'[q].loc = Loc(q) /\ \A r \in Calls \ {q} : call'[r] = call[r]
   BY <2>0, EndedAt
 <2>2. RowsTyped' /\ RowsGrowOn BY <1>0, <2>0, TypedDrops
 <2>4. Place(q)' BY <2>1, PlaceDone
 <2> QED BY <1>0, <2>0, <2>1, <2>2, <2>4, KeptPut
<1> QED BY <1>2, <1>3, <1>4, <1>5

\* So do those on a row by its id, and those that tell the gateway.
LEMMA ByRowKept ==
  ASSUME CallsOK, IntegrationBase, NEW q \in Calls, Advances(q), plan' = plan, UNCHANGED code,
         FindById(q) \/ ApplyById(q) \/ ReadPayload(q) \/ PushPayload(q)
  PROVE  Kept(q)
<1>0. Formed /\ Place(q) /\ plan \in Plans /\ RowsTyped /\ subscribed \subseteq Pages2
  BY DEF CallsOK, IntegrationBase, IntegrationHolds, IntegrationTypes
<1> USE DEF Upserts, Leaves, ByRow, Over, Synced
<1>1. CASE FindById(q)
 <2>0. Does(q).op \in ByRow /\ UNCHANGED <<row, subscribed, client>> BY <1>0, <1>1, FindByIdIs DEF integrationVars
 <2>1. CASE Answered(q, "unknown") BY <1>0, <2>0, <2>1, AnsweredAt, PlaceDone, KeptThere
 <2>2. ASSUME NEW i \in Live, row[i].type = Head(Types(q)), Entered(q, "apply", [left |-> Types(q), row |-> i])
       PROVE  Kept(q)
  <3>1. /\ call'[q].pc = "apply" /\ call'[q].loc = [left |-> Types(q), row |-> i]
        /\ call'[q].end = None /\ \A r \in Calls \ {q} : call'[r] = call[r]
    BY <2>2, EnteredAt
  <3>2. Types(q) \in Seq(RowTypes) /\ i \in DOMAIN row /\ i \in Nat
   <4>1. row \in Seq(RowType) /\ DOMAIN row = 1..Len(row) /\ Len(row) \in Nat BY <1>0, LenProperties DEF RowsTyped
   <4> QED BY <1>0, <2>0, <4>1, CallTold DEF Live
  <3>3. ByRowHolds(q)'
   <4>1. Loc(q)' = [left |-> Types(q), row |-> i] /\ Types(q)' = Types(q) BY <3>1 DEF Loc, Types, Does
   <4> QED BY <2>0, <2>2, <3>2, <4>1 DEF ByRowHolds
  <3>4. Place(q)' BY <2>0, <3>1, <3>3 DEF Place, UpsertHolds, LeaveHolds, TokenHolds, EndHolds, Does
  <3> QED BY <1>0, <2>0, <3>1, <3>4, KeptThere
 <2> QED BY <1>0, <1>1, <2>1, <2>2, FindByIdIs
<1>2. CASE ApplyById(q)
 <2>0. Does(q).op \in ByRow /\ call[q].pc = "apply" /\ UNCHANGED <<subscribed, client>> BY <1>0, <1>2, ApplyByIdIs
 <2>1. CASE Ended(q, "apply", "failed") /\ UNCHANGED row BY <1>0, <2>0, <2>1, EndedAt, PlaceDone, KeptThere
 <2>2. ASSUME Went(q, "apply", "readAll", Loc(q)) \/ Ended(q, "apply", "applied"),
              NEW i \in Live, Changes(q, i)
       PROVE  Kept(q)
  <3>1. RowsTyped' /\ RowsGrowOn BY <1>0, <2>0, <2>2, ChangesGrows DEF Changes, Puts, Place, RowsTyped
  <3>2. call[q].end = None BY <1>0, <2>0 DEF Place, EndHolds, Alive, Begun, IntegrationOps
  <3>3. CASE Went(q, "apply", "readAll", Loc(q))
   <4>1. call'[q].pc = "readAll" /\ call'[q].end = None /\ \A r \in Calls \ {q} : call'[r] = call[r]
     BY <3>2, <3>3, WentAt
   <4>2. Place(q)' BY <2>0, <4>1 DEF Place, UpsertHolds, LeaveHolds, ByRowHolds, TokenHolds, EndHolds, Does
   <4> QED BY <2>0, <3>1, <4>1, <4>2, KeptPut
  <3>4. CASE Ended(q, "apply", "applied") BY <2>0, <3>1, <3>4, EndedAt, PlaceDone, KeptPut
  <3> QED BY <2>2, <3>3, <3>4
 <2> QED BY <1>0, <1>2, <2>1, <2>2, ApplyByIdIs
<1>3. CASE ReadPayload(q)
 <2>0. Does(q).op \in Synced /\ UNCHANGED <<row, subscribed, client>> BY <1>0, <1>3, ReadPayloadIs DEF integrationVars
 <2>1. call[q].pc = "readAll" /\ call'[q].pc = "push" /\ call'[q].end = call[q].end
       /\ \A r \in Calls \ {q} : call'[r] = call[r]
  <3>1. Went(q, "readAll", "push", [payload |-> Payload, row |-> Loc(q).row]) BY <1>0, <1>3, ReadPayloadIs
  <3> QED BY <3>1, WentAt
 <2>2. call[q].end = None BY <1>0, <2>0, <2>1 DEF Place, EndHolds, Alive, Begun, IntegrationOps
 <2>3. Place(q)' BY <2>0, <2>1, <2>2 DEF Place, UpsertHolds, LeaveHolds, ByRowHolds, TokenHolds, EndHolds, Does
 <2> QED BY <1>0, <2>0, <2>1, <2>3, KeptThere
<1>4. CASE PushPayload(q)
 <2>0. Does(q).op \in Synced /\ UNCHANGED <<row, subscribed, client>> BY <1>0, <1>4, PushPayloadIs
 <2>1. PICK end : Ended(q, "push", end) BY <1>0, <1>4, PushPayloadIs
 <2> QED BY <1>0, <2>0, <2>1, EndedAt, PlaceDone, KeptThere
<1> QED BY <1>1, <1>2, <1>3, <1>4

\* So do those of a token.
LEMMA TokensKept ==
  ASSUME CallsOK, IntegrationBase, NEW q \in Calls, Advances(q), plan' = plan, UNCHANGED code,
         ReadToken(q) \/ refreshAccessToken(q) \/ StoreToken(q) \/ MarkInvalid(q)
  PROVE  Kept(q)
<1>0. Formed /\ Place(q) /\ plan \in Plans /\ RowsTyped /\ subscribed \subseteq Pages2
  BY DEF CallsOK, IntegrationBase, IntegrationHolds, IntegrationTypes
<1> USE DEF Upserts, Leaves, ByRow, Over
<1>1. CASE ReadToken(q)
 <2>0. Does(q).op = "token" /\ UNCHANGED <<row, subscribed>> BY <1>0, <1>1, ReadTokenIs
 <2>1. ASSUME UNCHANGED client, NEW end, Answered(q, end)
       PROVE  Kept(q)
   BY <1>0, <2>0, <2>1, AnsweredAt, PlaceDone, KeptThere
 <2>2. ASSUME NEW i \in Live, Reads(q, i)
       PROVE  Kept(q)
  <3> DEFINE loc == [row |-> i, cfg |-> row[i].cfg]
  <3>1. /\ call'[q].pc \in {"refresh", "invalidate"} /\ call'[q].loc = loc
        /\ call'[q].end = None /\ (call'[q].pc = "refresh" => row[i].cfg.refresh # None /\ client' = row[i].cfg.refresh)
        /\ call'[q].pc = "invalidate" => UNCHANGED client
    BY <2>2, EnteredAt DEF Reads
  <3>2. i \in DOMAIN row /\ i \in Nat /\ row[i] \in RowType
   <4>1. row \in Seq(RowType) /\ DOMAIN row = 1..Len(row) /\ Len(row) \in Nat BY <1>0, LenProperties DEF RowsTyped
   <4> QED BY <1>0, <4>1, ElementOfSeq DEF Live, RowsTyped
  <3>3. row[i].cfg \in ConfigType /\ row[i].cfg.refresh \in Bots \cup Calls \cup {None} BY <3>2 DEF RowType, ConfigType
  <3>4. TokenHolds(q)'
   <4>1. Loc(q)' = loc /\ Bot(q)' = Bot(q) BY <3>1 DEF Loc, Bot, Does
   <4>2. loc \in [row : Nat, cfg : ConfigType] /\ loc.row = i /\ loc.cfg = row[i].cfg BY <3>2, <3>3
   <4> HIDE DEF loc
   <4> QED BY <2>0, <2>2, <3>1, <3>2, <3>3, <4>1, <4>2 DEF TokenHolds, Reads
  <3>5. Place(q)' BY <2>0, <3>1, <3>4 DEF Place, UpsertHolds, LeaveHolds, ByRowHolds, EndHolds, Does
  <3>6. client' \in Bots \cup Calls \/ client' = client BY <3>1, <3>3
  <3> QED BY <1>0, <2>0, <3>5, <3>6, KeptThere
 <2> QED BY <1>0, <1>1, <2>1, <2>2, ReadTokenIs
<1>2. CASE refreshAccessToken(q)
 <2>0. Does(q).op = "token" /\ UNCHANGED <<row, subscribed, client>> BY <1>0, <1>2, RefreshIs DEF integrationVars
 <2>1. call[q].pc = "refresh" /\ \A r \in Calls \ {q} : call'[r] = call[r] BY <1>0, <1>2, RefreshIs, WentAt
 <2>2. /\ Loc(q) \in [row : Nat, cfg : ConfigType] /\ Loc(q).row \in DOMAIN row /\ row[Loc(q).row].type = "calendar"
       /\ Loc(q).cfg.bot = Bot(q) /\ (row[Loc(q).row].cfg.bot = Bot(q) \/ Handled("calendar")) /\ ~Loc(q).cfg.invalid
       /\ client \in Bots \cup Calls
   BY <1>0, <2>0, <2>1 DEF Place, TokenHolds
 <2>3. call[q].end = None BY <1>0, <2>0, <2>1 DEF Place, EndHolds, Alive, Begun, IntegrationOps
 <2>4. ASSUME NEW to \in {"store", "invalidate"}, NEW c \in ConfigType, c.bot = Bot(q), ~c.invalid,
              call'[q].pc = to, call'[q].loc = [row |-> Loc(q).row, cfg |-> c], call'[q].end = None
       PROVE  Kept(q)
  <3>1. Loc(q)' = [row |-> Loc(q).row, cfg |-> c] /\ Bot(q)' = Bot(q) BY <2>4 DEF Loc, Bot, Does
  <3>2. TokenHolds(q)'
   <4>1. Handled("calendar") => Handled("calendar")' BY HandledStays
   <4> QED BY <2>0, <2>2, <2>4, <3>1, <4>1 DEF TokenHolds
  <3>3. Place(q)' BY <2>0, <2>4, <3>2 DEF Place, UpsertHolds, LeaveHolds, ByRowHolds, EndHolds, Does
  <3> QED BY <1>0, <2>0, <2>1, <3>3, KeptThere
 <2>5. CASE Went(q, "refresh", "invalidate", Loc(q))
  <3>1. Loc(q) = [row |-> Loc(q).row, cfg |-> Loc(q).cfg] /\ Loc(q).cfg \in ConfigType BY <2>2
  <3>2. call'[q].pc = "invalidate" /\ call'[q].loc = [row |-> Loc(q).row, cfg |-> Loc(q).cfg] /\ call'[q].end = None
    BY <2>3, <2>5, <3>1, WentAt
  <3> QED BY <2>2, <2>4, <3>1, <3>2
 <2>6. CASE Went(q, "refresh", "store", [Loc(q) EXCEPT !.cfg = [@ EXCEPT !.refresh = client, !.due = FALSE]])
  <3> DEFINE c == [Loc(q).cfg EXCEPT !.refresh = client, !.due = FALSE]
  <3>1. c \in ConfigType /\ c.bot = Bot(q) /\ ~c.invalid BY <2>2 DEF ConfigType
  <3>2. [Loc(q) EXCEPT !.cfg = [@ EXCEPT !.refresh = client, !.due = FALSE]] = [row |-> Loc(q).row, cfg |-> c]
    BY <2>2 DEF ConfigType
  <3>3. call'[q].pc = "store" /\ call'[q].loc = [row |-> Loc(q).row, cfg |-> c] /\ call'[q].end = None
    BY <2>3, <2>6, <3>2, WentAt
  <3> HIDE DEF c
  <3> QED BY <2>4, <3>1, <3>3
 <2> QED BY <1>0, <1>2, <2>5, <2>6, RefreshIs
<1>3. ASSUME NEW end, NEW pc, Does(q).op = "token", Ended(q, pc, end), NEW i \in Live, NEW c, Stores(q, i, c),
             pc \in {"store", "invalidate"}, UNCHANGED <<subscribed, client>>
      PROVE  Kept(q)
 <2>1. call[q].pc = pc /\ \A r \in Calls \ {q} : call'[r] = call[r] BY <1>3, EndedAt
 <2>2. RowsTyped' /\ RowsGrowOn BY <1>0, <1>3, <2>1, StoresGrows DEF Stores, Puts, Place, RowsTyped
 <2> QED BY <1>0, <1>3, <2>1, <2>2, EndedAt, PlaceDone, KeptPut
<1>4. CASE StoreToken(q)
 <2>0. Does(q).op = "token" /\ call[q].pc = "store" /\ UNCHANGED <<subscribed, client>> BY <1>0, <1>4, StoreTokenIs
 <2>1. CASE Went(q, "store", "invalidate", Loc(q)) /\ UNCHANGED row
  <3>1. call[q].end = None BY <1>0, <2>0 DEF Place, EndHolds, Alive, Begun, IntegrationOps
  <3>2. call'[q].pc = "invalidate" /\ call'[q].loc = Loc(q) /\ call'[q].end = None /\ \A r \in Calls \ {q} : call'[r] = call[r]
    BY <2>1, <3>1, WentAt
  <3>3. TokenHolds(q)'
   <4>1. Handled("calendar") => Handled("calendar")' BY HandledStays
   <4> QED BY <1>0, <2>0, <2>1, <3>2, <4>1 DEF Place, TokenHolds, Loc, Bot, Does
  <3>4. Place(q)' BY <2>0, <3>2, <3>3 DEF Place, UpsertHolds, LeaveHolds, ByRowHolds, EndHolds, Does
  <3> QED BY <1>0, <2>0, <2>1, <3>2, <3>4, KeptThere
 <2> QED BY <1>0, <1>3, <1>4, <2>0, <2>1, StoreTokenIs
<1>5. CASE MarkInvalid(q)
 <2>0. Does(q).op = "token" /\ UNCHANGED <<subscribed, client>> BY <1>0, <1>5, MarkInvalidIs
 <2>1. CASE Ended(q, "invalidate", "failed") /\ UNCHANGED row BY <1>0, <2>0, <2>1, EndedAt, PlaceDone, KeptThere
 <2> QED BY <1>0, <1>3, <1>5, <2>0, <2>1, MarkInvalidIs
<1> QED BY <1>1, <1>2, <1>4, <1>5

\* So do those of a shop.
LEMMA ShopsKept ==
  ASSUME CallsOK, IntegrationBase, NEW q \in Calls, Advances(q), plan' = plan,
         \/ (createAuthorizationCode(q) \/ FindCode(q) \/ UseCode(q)) /\ UNCHANGED <<row, subscribed, client>>
         \/ disconnectShop(q) /\ UNCHANGED <<subscribed, client, code>>
         \/ Does(q).op \in IntegrationOps /\ Dies(q) /\ UNCHANGED <<row, subscribed, client, code>>
  PROVE  Kept(q)
<1>0. Formed /\ Place(q) /\ plan \in Plans /\ RowsTyped /\ subscribed \subseteq Pages2
  BY DEF CallsOK, IntegrationBase, IntegrationHolds, IntegrationTypes
<1> USE DEF Upserts, Leaves, ByRow, Over
<1>1. ASSUME row' = row, UNCHANGED <<subscribed, client>>, code' \in [Calls -> {None, "fresh", "used", "expired"}], Place(q)'
      PROVE  Kept(q)
 <2>1. RowsGrowOn BY <1>1 DEF RowsGrowOn
 <2>2. IntegrationTypes' BY <1>1 DEF IntegrationBase, IntegrationTypes, RowsTyped
 <2> QED BY <1>1, <2>1, <2>2, IntegrationOthers DEF Kept
<1>2. code \in [Calls -> {None, "fresh", "used", "expired"}] BY DEF IntegrationBase, IntegrationTypes
<1>3. CASE createAuthorizationCode(q) /\ UNCHANGED <<row, subscribed, client>>
 <2>1. Does(q).op = "consent" /\ code' \in [Calls -> {None, "fresh", "used", "expired"}]
   BY <1>0, <1>2, <1>3, ConsentIs
 <2>2. PICK end : Answered(q, end) BY <1>0, <1>3, ConsentIs
 <2> QED BY <1>1, <1>3, <2>1, <2>2, AnsweredAt, PlaceDone
<1>4. CASE FindCode(q) /\ UNCHANGED <<row, subscribed, client>>
 <2>1. Does(q).op = "redeem" /\ UNCHANGED code BY <1>0, <1>4, FindCodeIs
 <2>2. CASE Answered(q, "refused") BY <1>1, <1>2, <1>4, <2>1, <2>2, AnsweredAt, PlaceDone
 <2>3. CASE Entered(q, "use", None)
  <3>1. call'[q].end = None /\ \A r \in Calls \ {q} : call'[r] = call[r] BY <2>3, EnteredAt
  <3>2. Place(q)' BY <2>1, <3>1 DEF Connects, Place, UpsertHolds, LeaveHolds, ByRowHolds, TokenHolds, EndHolds, Does
  <3> QED BY <1>1, <1>2, <1>4, <2>1, <3>1, <3>2
 <2> QED BY <1>0, <1>4, <2>2, <2>3, FindCodeIs
<1>5. CASE UseCode(q) /\ UNCHANGED <<row, subscribed, client>>
 <2>1. Does(q).op = "redeem" /\ code' \in [Calls -> {None, "fresh", "used", "expired"}] /\ Ended(q, "use", "token")
   BY <1>0, <1>2, <1>5, UseCodeIs
 <2> QED BY <1>1, <1>5, <2>1, EndedAt, PlaceDone
<1>6. CASE disconnectShop(q) /\ UNCHANGED <<subscribed, client, code>>
 <2>1. Does(q).op = "unlinkShop" /\ Answered(q, "left") /\ Drops(ShopRows) BY <1>0, <1>6, DisconnectShopIs
 <2>2. RowsTyped' /\ RowsGrowOn BY <1>0, <2>1, TypedDrops
 <2>3. Place(q)' BY <2>1, AnsweredAt, PlaceDone
 <2> QED BY <1>0, <1>6, <2>1, <2>2, <2>3, AnsweredAt, KeptPut
<1>7. CASE Does(q).op \in IntegrationOps /\ Dies(q) /\ UNCHANGED <<row, subscribed, client, code>>
 <2>1. Becomes(q, "dead", Loc(q), call[q].end, call[q].since) /\ Alive(q) BY <1>0, <1>7, DiesBecomes
 <2>2. call'[q].pc = "dead" /\ call'[q].end = call[q].end /\ \A r \in Calls \ {q} : call'[r] = call[r]
   BY <2>1 DEF Becomes
 <2>3. call[q].end = None BY <1>0, <1>7, <2>1 DEF Place, EndHolds
 <2>4. Place(q)' BY <2>2, <2>3, PlaceDone, NoneIsNoConnection
 <2> QED BY <1>1, <1>2, <1>7, <2>2, <2>4
<1> QED BY <1>3, <1>4, <1>5, <1>6, <1>7

\* What the calls of the connections have read stays true, and the rows grow on.
LEMMA IntegrationKept ==
  ASSUME CallsOK, IntegrationBase, NEW q \in Calls, IntegrationStep(q), Advances(q)
  PROVE  Kept(q)
<1> USE IntegrationActs
<1>1. CASE (SubscribePage(q) \/ ExchangeCode(q) \/ FindRow(q) \/ WriteRow(q)) /\ UNCHANGED code BY <1>1, ConnectsKept
<1>2. CASE (FindLeaving(q) \/ FindDeauthorized(q) \/ Release(q) \/ DeleteRows(q)) /\ UNCHANGED code
  BY <1>2, LeavesKept
<1>3. CASE (FindById(q) \/ ApplyById(q) \/ ReadPayload(q) \/ PushPayload(q)) /\ UNCHANGED code BY <1>3, ByRowKept
<1>4. CASE (ReadToken(q) \/ refreshAccessToken(q) \/ StoreToken(q) \/ MarkInvalid(q)) /\ UNCHANGED code
  BY <1>4, TokensKept
<1>5. CASE \/ (createAuthorizationCode(q) \/ FindCode(q) \/ UseCode(q)) /\ UNCHANGED <<row, subscribed, client, gateway>>
           \/ disconnectShop(q) /\ UNCHANGED <<subscribed, client, gateway, code>>
           \/ Does(q).op \in IntegrationOps /\ Dies(q) /\ UNCHANGED integrationVars
  BY <1>5, ShopsKept DEF integrationVars
<1> QED BY <1>1, <1>2, <1>3, <1>4, <1>5

\* A token that runs out changes nothing but that.
Expired(i) == /\ Puts(i, row'[i]) /\ i \in Live /\ row[i].type = "calendar" /\ row'[i].type = row[i].type /\ row'[i].live
              /\ row'[i].bot = row[i].bot
              /\ row'[i].cfg = [row[i].cfg EXCEPT !.due = TRUE]

\* A token that runs out, as what it writes.
LEMMA TokenExpiresIs ==
  ASSUME RowsTyped, TokenExpires
  PROVE  /\ UNCHANGED <<subscribed, client, gateway, code>>
         /\ \E i \in Live : Expired(i) /\ row'[i].cfg.bot = row[i].cfg.bot
<1>1. PICK i \in Live : row[i].type = "calendar" /\ row' = [row EXCEPT ![i].cfg.due = TRUE] BY DEF TokenExpires
<1>2. row[i] \in RowType /\ i \in DOMAIN row /\ row \in Seq(RowType)
  BY <1>1, ElementOfSeq DEF RowsTyped, Live
<1> DEFINE c == [row[i].cfg EXCEPT !.due = TRUE]
           x == [row[i] EXCEPT !.cfg = c]
<1>3. c \in ConfigType /\ c.bot = row[i].cfg.bot BY <1>2 DEF RowType, ConfigType
<1>4. x \in RowType /\ x.type = row[i].type /\ x.bot = row[i].bot /\ x.live = row[i].live /\ x.cfg = c BY <1>2, <1>3 DEF RowType
<1>5. row' = [row EXCEPT ![i] = x] BY <1>1
<1> HIDE DEF x
<1>7. Puts(i, x) /\ row'[i] = x BY <1>2, <1>4, <1>5, PutsThere DEF Puts
<1>8. row[i].live BY <1>1 DEF Live
<1> QED BY <1>1, <1>3, <1>4, <1>7, <1>8 DEF Expired, TokenExpires

\* Time keeps it.
LEMMA ClockKept ==
  ASSUME CallsOK, IntegrationBase, IntegrationClock
  PROVE  IntegrationBase' /\ RowsGrowOn /\ DOMAIN row' = DOMAIN row /\ UNCHANGED <<plan, call>>
<1>0. UNCHANGED <<plan, call>> /\ RowsTyped /\ plan \in Plans
  BY DEF IntegrationClock, TokenExpires, IntegrationBase, IntegrationTypes
<1>1. CASE TokenExpires
 <2>1. UNCHANGED <<subscribed, client, gateway, code>> BY <1>0, <1>1, TokenExpiresIs
 <2>2. PICK i \in Live : Expired(i) /\ row'[i].cfg.bot = row[i].cfg.bot
   BY <1>0, <1>1, TokenExpiresIs
 <2>3. RowsGrowOn /\ RowsTyped' /\ DOMAIN row' = DOMAIN row
   BY <1>0, <2>2 DEF RowsGrowOn, Expired, Puts, Live, RowsTyped
 <2>4. IntegrationTypes' BY <2>1, <2>3 DEF IntegrationBase, IntegrationTypes
 <2>5. \A r \in Calls : Place(r)' BY <1>0, <2>1, <2>3, PlaceStays DEF IntegrationBase, IntegrationHolds, Times
 <2> QED BY <1>0, <2>3, <2>4, <2>5 DEF IntegrationBase, IntegrationHolds
<1>2. CASE CodeExpires /\ UNCHANGED <<row, subscribed, client, gateway>>
 <2>1. RowsGrowOn BY <1>2 DEF RowsGrowOn
 <2>2. code' \in [Calls -> {None, "fresh", "used", "expired"}]
   BY <1>2 DEF CodeExpires, IntegrationBase, IntegrationTypes
 <2>3. IntegrationTypes' BY <1>2, <2>2 DEF IntegrationBase, IntegrationTypes, RowsTyped
 <2>4. \A r \in Calls : Place(r)' BY <1>0, <1>2, <2>1, PlaceStays DEF IntegrationBase, IntegrationHolds, Times
 <2> QED BY <1>0, <1>2, <2>1, <2>3, <2>4 DEF IntegrationBase, IntegrationHolds
<1> QED BY <1>1, <1>2 DEF IntegrationClock

\* Another service's step, or none.
Elsewhere == /\ IntegrationStays
             /\ Times \/ \E q \in Calls : Advances(q) /\ Does(q).op \notin IntegrationOps

\* What another service leaves.
LEMMA ElsewhereIs ==
  ASSUME CallsOK, Elsewhere
  PROVE  /\ UNCHANGED <<row, subscribed, client, gateway, code>> /\ plan' = plan
         /\ \A r \in Calls : Does(r).op \in IntegrationOps => call'[r] = call[r]
<1>1. UNCHANGED <<row, subscribed, client, gateway, code>> BY DEF Elsewhere, IntegrationStays, integrationVars
<1>2. CASE Times BY <1>1, <1>2 DEF Times
<1>3. CASE \E q \in Calls : Advances(q) /\ Does(q).op \notin IntegrationOps BY <1>1, <1>3 DEF Advances
<1> QED BY <1>2, <1>3 DEF Elsewhere

\* Another service keeps it.
LEMMA ElsewhereKept ==
  ASSUME CallsOK, IntegrationBase, Elsewhere
  PROVE  IntegrationBase'
<1>0. UNCHANGED <<row, subscribed, client, gateway, code>> /\ plan' = plan /\ plan \in Plans
  BY ElsewhereIs DEF IntegrationBase
<1>1. RowsGrowOn BY <1>0 DEF RowsGrowOn
<1>2. ASSUME NEW r \in Calls  PROVE Place(r)'
 <2>1. CASE Does(r).op \in IntegrationOps
   BY <1>0, <1>1, <2>1, ElsewhereIs, PlaceStays DEF IntegrationBase, IntegrationHolds, Elsewhere
 <2>2. CASE Does(r).op \notin IntegrationOps
   BY <1>0, <2>2 DEF Place, UpsertHolds, LeaveHolds, ByRowHolds, TokenHolds, EndHolds, Does, IntegrationOps
 <2> QED BY <2>1, <2>2
<1>3. IntegrationTypes' BY <1>0 DEF IntegrationBase, IntegrationTypes, RowsTyped
<1> QED BY <1>0, <1>2, <1>3 DEF IntegrationBase, IntegrationHolds

\* A step of the system, seen from the connections.
LEMMA IntegrationSystem ==
  ASSUME CallsOK, [ServicesNext]_servicesVars
  PROVE  (IntegrationClock /\ Times) \/ Elsewhere \/ \E q \in Calls : IntegrationStep(q) /\ Advances(q)
<1>1. CASE IntegrationsNext BY <1>1, IntegrationsIs DEF ByCall
<1>2. CASE IntegrationStays /\ (InboundNext \/ VisitorsNext \/ LegalNext \/ BootstrapNext \/ Times)
 <2>1. Times \/ \E q \in Calls : Advances(q) /\ Does(q).op \notin IntegrationOps
   BY <1>2, InboundIs, VisitorsIs, LegalIs, BootstrapIs, OpsApart DEF ByCall
 <2> QED BY <1>2, <2>1 DEF Elsewhere
<1> QED BY <1>1, <1>2, SystemStep

\* Two calls that overlap do so for good, whoever moves.
LEMMA OverlapStays ==
  ASSUME Times \/ \E q \in Calls : Advances(q), NEW a \in Calls, NEW b \in Calls, Overlap(a, b)
  PROVE  Overlap(a, b)'
<1>1. CASE Times BY <1>1 DEF Times, Overlap, Begun
<1> QED BY <1>1, TurnOverlap

\* What the plan says stays.
LEMMA PlanStays ==
  ASSUME Times \/ \E q \in Calls : Advances(q)
  PROVE  plan' = plan /\ \A r : Does(r)' = Does(r) /\ Bot(r)' = Bot(r) /\ TypesOf(r)' = TypesOf(r)
  BY DEF Times, Advances, Does, Bot, TypesOf, Types

(* One row of a connection. *)
\* Types of which no row can be told from another: one was written by hand.
Free(t) == t \notin HandMade /\ Handled(t)
\* The rows that a new one of the type would be a second of.
SameKind(t, bot) == {i \in Live : row[i].type = t /\ (t = "shopify" \/ Key(i) = bot)}
RowRival(q) ==
  Does(q).op \in Upserts /\ call[q].pc = "write" /\ Loc(q).row = 0 =>
    \/ Free(Head(Loc(q).left)) \/ SameKind(Head(Loc(q).left), Bot(q)) = {}
    \/ \E r \in Calls : Rivals(q, r, Head(Loc(q).left), Bot(q))
OneInv == OneRowUnlessRacing /\ \A q \in Calls : RowRival(q)
RowsFewer == RowsGrowOn /\ DOMAIN row' = DOMAIN row

\* What a call finds is what its row would be a second of.
LEMMA FoundSame ==
  ASSUME plan \in Plans, NEW q \in Calls, Does(q).op \in Upserts, Begun(q), NEW t \in TypesOf(q)
  PROVE  Free(t) \/ Found(t, q) = SameKind(t, Bot(q))
<1>1. CASE Does(q).op = "create"
 <2>1. Handled(t) BY <1>1 DEF Handled, ByHand
 <2>2. t \in HandMade => Found(t, q) = SameKind(t, Bot(q)) BY <1>1 DEF Found, SameKind, Key, HandMade, OldTypes
 <2> QED BY <2>1, <2>2 DEF Free
<1>2. CASE Does(q).op = "linkShop"
 <2>1. t = "shopify" BY <1>2, CallTold
 <2> QED BY <1>2, <2>1 DEF Found, ShopRows, SameKind
<1>3. CASE Does(q).op \in Connects \ {"linkShop"}
 <2>1. t \notin HandMade /\ t # "shopify" BY <1>3, ConnectedTypes
 <2>2. Found(t, q) = RowsOn(t, Bot(q)) BY <1>3 DEF Found, Connects
 <2> QED BY <2>1, <2>2 DEF RowsOn, SameKind, Key
<1> QED BY <1>1, <1>2, <1>3 DEF Upserts

\* With fewer rows, one that stays is looked for as before.
LEMMA KeyStays ==
  ASSUME RowsFewer, NEW i \in Live', ~Free(row'[i].type)
  PROVE  i \in Live /\ row'[i].type = row[i].type /\ Key(i)' = Key(i)
<1>1. i \in Live /\ row'[i].type = row[i].type BY DEF Live, RowsFewer, RowsGrowOn
<1>2. CASE row[i].type \in HandMade BY <1>1, <1>2 DEF Key, Live, RowsFewer, RowsGrowOn
<1>3. CASE row[i].type \notin HandMade BY <1>1, <1>3 DEF Key, Live, RowsFewer, RowsGrowOn, Free
<1> QED BY <1>1, <1>2, <1>3

\* And there are no more of them.
LEMMA SameFewer ==
  ASSUME RowsFewer, NEW t, ~Free(t), NEW bot
  PROVE  SameKind(t, bot)' \subseteq SameKind(t, bot)
<1> SUFFICES ASSUME NEW i \in Live', row'[i].type = t, t = "shopify" \/ Key(i)' = bot
             PROVE  i \in SameKind(t, bot)
  BY DEF SameKind
<1> QED BY KeyStays DEF SameKind

\* A type stays free.
LEMMA FreeStays ==
  ASSUME Times \/ \E q \in Calls : Advances(q), NEW t, Free(t)
  PROVE  Free(t)'
<1>1. Handled(t)' BY HandledStays DEF Free
<1> QED BY <1>1 DEF Free

\* Rivals stay so.
LEMMA RivalsStay ==
  ASSUME Times \/ \E q \in Calls : Advances(q), NEW x \in Calls, NEW y \in Calls, NEW t, NEW bot, Rivals(x, y, t, bot)
  PROVE  Rivals(x, y, t, bot)'
<1>1. Overlap(x, y)' BY OverlapStays DEF Rivals
<1> QED BY <1>1, PlanStays DEF Rivals

\* Fewer rows are no second ones.
LEMMA OneOfFewer ==
  ASSUME OneRowUnlessRacing, RowsFewer, Times \/ \E q \in Calls : Advances(q)
  PROVE  OneRowUnlessRacing'
<1>1. ASSUME NEW i \in Live', NEW k \in Live', i # k, row'[i].type = row'[k].type, Key(i)' = Key(k)', ~Free(row[i].type)'
      PROVE  \E q, r \in Calls : Rivals(q, r, row[i].type, Key(i))'
 <2> DEFINE t == row'[i].type
            b == Key(i)'
 <2>1. ~Free(t)
  <3>1. ASSUME Free(t)  PROVE FALSE
   <4>1. PICK c : c = t OBVIOUS
   <4>2. Free(c)' BY <3>1, <4>1, FreeStays
   <4> QED BY <1>1, <4>1, <4>2 DEF Free, Handled
  <3> QED BY <3>1
 <2>2. i \in Live /\ k \in Live /\ row[i].type = t /\ row[k].type = t /\ Key(i) = b /\ Key(k) = b BY <1>1, <2>1, KeyStays
 <2>3. PICK q \in Calls, r \in Calls : Rivals(q, r, row[i].type, Key(i)) BY <1>1, <2>1, <2>2 DEF OneRowUnlessRacing, Free
 <2>4. PICK c, d : c = t /\ d = b OBVIOUS
 <2>5. Rivals(q, r, c, d)' BY <2>2, <2>3, <2>4, RivalsStay
 <2> QED BY <2>4, <2>5 DEF Rivals
<1> QED BY <1>1 DEF OneRowUnlessRacing, Free

\* Who is about to write a new row has found none, or has a rival.
LEMMA RivalStays ==
  ASSUME NEW r \in Calls, RowRival(r), RowsFewer, call'[r] = call[r], Times \/ \E q \in Calls : Advances(q)
  PROVE  RowRival(r)'
<1>1. PICK t, b : t = Head(Loc(r).left) /\ b = Bot(r) OBVIOUS
<1>2. Head(Loc(r)'.left) = t /\ Bot(r)' = b /\ Loc(r)' = Loc(r) /\ Does(r)' = Does(r) BY <1>1, PlanStays DEF Loc
<1>3. Free(t) => Free(t)' BY FreeStays
<1>4. ~Free(t) => SameKind(t, b)' \subseteq SameKind(t, b) BY SameFewer
<1>5. \A s \in Calls : Rivals(r, s, t, b) => Rivals(r, s, t, b)' BY RivalsStay
<1> QED BY <1>1, <1>2, <1>3, <1>4, <1>5 DEF RowRival

\* What is written where nothing was found: another row, that of a rival.
LEMMA OneAdded ==
  ASSUME CallsOK, IntegrationBase, OneInv, NEW q \in Calls, Advances(q), Does(q).op \in Upserts, call[q].pc = "write",
         Loc(q).row = 0, NEW i, i = Len(row) + 1, Wrote(q, i), call'[q].pc # "write"
  PROVE  OneInv'
<1>0. /\ Alive(q) /\ RowsTyped /\ UpsertHolds(q) /\ plan' = plan /\ plan \in Plans
      /\ row \in Seq(RowType) /\ DOMAIN row = 1..Len(row) /\ Len(row) \in Nat /\ i \notin DOMAIN row
 <2>1. RowsTyped /\ UpsertHolds(q) /\ plan \in Plans BY DEF IntegrationBase, IntegrationTypes, IntegrationHolds, Place
 <2>2. row \in Seq(RowType) /\ DOMAIN row = 1..Len(row) /\ Len(row) \in Nat BY <2>1, LenProperties DEF RowsTyped
 <2> QED BY <2>1, <2>2 DEF Alive, Begun, Over, Advances
<1>a. PICK t, bot : t = Head(Loc(q).left) /\ bot = Bot(q) OBVIOUS
<1>1. t \in TypesOf(q) BY <1>0, <1>a, LeftIs DEF UpsertHolds
<1>2. /\ DOMAIN row' = DOMAIN row \cup {i} /\ \A k \in DOMAIN row : row'[k] = row[k]
      /\ row'[i].type = t /\ row'[i].live /\ row'[i].bot = bot /\ row'[i].cfg = NewConfig(q)
  BY <1>0, <1>a DEF Wrote, Puts
<1>3. Live' = Live \cup {i} /\ i \notin Live /\ \A k \in Live : row'[k] = row[k] /\ Key(k)' = Key(k)
  BY <1>2, <1>0 DEF Live, Key
<1>4. Free(t) \/ t = "shopify" \/ Key(i)' = bot
 <2>1. CASE t \in HandMade BY <1>2, <2>1 DEF Key
 <2>2. CASE t \notin HandMade /\ Does(q).op = "create"
  <3>1. Handled(t) BY <1>0, <1>1, <2>2 DEF Handled, ByHand, Alive
  <3> QED BY <2>2, <3>1 DEF Free
 <2>3. CASE Does(q).op = "linkShop" BY <1>0, <1>1, <2>3, CallTold
 <2>4. CASE t \notin HandMade /\ t # "shopify" /\ Does(q).op \in Connects \ {"linkShop"}
   BY <1>0, <1>2, <1>a, <2>4, NewConfigIs DEF Key
 <2> QED BY <2>1, <2>2, <2>3, <2>4 DEF Upserts
<1>5. ASSUME NEW k \in Live, row[k].type = t, Key(k) = bot \/ t = "shopify", ~Free(t)
      PROVE  \E r \in Calls : Rivals(q, r, t, bot)
  BY <1>a, <1>5 DEF OneInv, RowRival, SameKind
<1>6. ASSUME NEW a \in Live', NEW b \in Live', a # b, row'[a].type = row'[b].type, Key(a)' = Key(b)', ~Free(row[a].type)'
      PROVE  \E x, y \in Calls : Rivals(x, y, row[a].type, Key(a))'
 <2>0. PICK u, key : u = row'[a].type /\ key = Key(a)' OBVIOUS
 <2>1. ~Free(u)
  <3>1. ASSUME Free(u)  PROVE FALSE
   <4>1. Free(u)' BY <3>1, FreeStays
   <4> QED BY <1>6, <2>0, <4>1 DEF Free, Handled
  <3> QED BY <3>1
 <2>2. ASSUME NEW x \in Calls, NEW y \in Calls, Rivals(x, y, u, key)
       PROVE  Rivals(x, y, row[a].type, Key(a))'
  <3>1. Rivals(x, y, u, key)' BY <2>2, RivalsStay
  <3> QED BY <2>0, <3>1 DEF Rivals
 <2>3. CASE a # i /\ b # i
  <3>1. a \in Live /\ b \in Live /\ row[a].type = u /\ row[b].type = u /\ Key(a) = key /\ Key(b) = key
    BY <1>3, <1>6, <2>0, <2>3
  <3>2. PICK x \in Calls, y \in Calls : Rivals(x, y, row[a].type, Key(a))
    BY <1>6, <2>1, <3>1 DEF OneInv, OneRowUnlessRacing, Free
  <3> QED BY <2>2, <3>1, <3>2
 <2>4. CASE a = i \/ b = i
  <3>1. PICK k \in {a, b} : k # i BY <1>6
  <3>2. k \in Live /\ row[k].type = t /\ u = t /\ Key(k) = key BY <1>2, <1>3, <1>6, <2>0, <2>4, <3>1
  <3>3. key = Key(i)' BY <1>6, <2>0, <2>4
  <3>4. key = bot \/ t = "shopify" BY <1>4, <2>1, <3>2, <3>3
  <3>5. PICK r \in Calls : Rivals(q, r, t, bot) BY <1>5, <2>1, <3>2, <3>4
  <3>6. Rivals(q, r, u, key) BY <3>2, <3>4, <3>5 DEF Rivals
  <3> QED BY <2>2, <3>6
 <2> QED BY <2>3, <2>4
<1>7. OneRowUnlessRacing' BY <1>6 DEF OneRowUnlessRacing, Free
<1>8. ASSUME NEW r \in Calls, r # q  PROVE RowRival(r)'
 <2>0. PICK u, b : u = Head(Loc(r).left) /\ b = Bot(r) OBVIOUS
 <2>1. call'[r] = call[r] /\ Loc(r)' = Loc(r) /\ Does(r)' = Does(r) /\ Head(Loc(r)'.left) = u /\ Bot(r)' = b
   BY <1>8, <2>0, PlanStays DEF Advances, Loc
 <2> SUFFICES ASSUME Does(r).op \in Upserts, call[r].pc = "write", Loc(r).row = 0, ~Free(u)'
              PROVE  SameKind(u, b)' = {} \/ \E s \in Calls : Rivals(r, s, u, b)'
   BY <2>1 DEF RowRival
 <2>2. ~Free(u) BY FreeStays
 <2>3. CASE u = t /\ (b = bot \/ t = "shopify")
  <3>1. Alive(r) /\ u \in TypesOf(r)
   <4>1. UpsertHolds(r) BY DEF IntegrationBase, IntegrationHolds, Place
   <4> QED BY <2>0, <4>1, LeftIs DEF UpsertHolds, Alive, Begun, Over
  <3>2. Overlap(r, q) BY <1>0, <1>8, <3>1, BothOverlap
  <3>3. Rivals(r, q, u, b) BY <1>1, <1>a, <2>0, <2>3, <3>1, <3>2 DEF Rivals
  <3> QED BY <3>3, RivalsStay
 <2>4. CASE ~(u = t /\ (b = bot \/ t = "shopify"))
  <3>1. SameKind(u, b)' = SameKind(u, b) BY <1>2, <1>3, <1>4, <2>2, <2>4 DEF SameKind
  <3>2. \A s \in Calls : Rivals(r, s, u, b) => Rivals(r, s, u, b)' BY RivalsStay
  <3> QED BY <2>0, <2>2, <3>1, <3>2 DEF OneInv, RowRival
 <2> QED BY <2>3, <2>4
<1>9. RowRival(q)' BY DEF RowRival
<1> QED BY <1>7, <1>8, <1>9 DEF OneInv

\* Where rows only get fewer, and who starts to write a new one has found none.
LEMMA OneFewer ==
  ASSUME OneInv, RowsFewer, NEW q \in Calls, Advances(q), NEW t,
         Does(q).op \in Upserts /\ call'[q].pc = "write" /\ call'[q].loc.row = 0
           => t = Head(call'[q].loc.left) /\ (Free(t) \/ SameKind(t, Bot(q)) = {})
  PROVE  OneInv'
<1>1. OneRowUnlessRacing' BY OneOfFewer DEF OneInv
<1>2. ASSUME NEW r \in Calls, r # q  PROVE RowRival(r)' BY <1>2, RivalStays DEF OneInv, Advances
<1>3. RowRival(q)'
 <2>0. PICK b : b = Bot(q) OBVIOUS
 <2>1. ~Free(t) => SameKind(t, b)' \subseteq SameKind(t, b) BY SameFewer
 <2>2. Does(q)' = Does(q) /\ Bot(q)' = b BY <2>0, PlanStays
 <2>3. Free(t) => Free(t)' BY FreeStays
 <2> QED BY <2>0, <2>1, <2>2, <2>3 DEF RowRival, Loc
<1> QED BY <1>1, <1>2, <1>3 DEF OneInv

\* Nothing happens to the calls.
LEMMA OneStill ==
  ASSUME OneInv, RowsFewer, Times
  PROVE  OneInv'
  BY OneOfFewer, RivalStays DEF OneInv, Times

\* A new row comes from a connect that found none; any other step has fewer rows.
Adds(q) ==
  /\ WriteRow(q) /\ Proceeds(q) /\ Does(q).op \in Upserts /\ call[q].pc = "write" /\ Loc(q).row = 0
  /\ Wrote(q, Len(row) + 1) /\ UNCHANGED <<subscribed, client, gateway, code>>

\* Every step of the connections is one of the two.
LEMMA StepFewer ==
  ASSUME CallsOK, IntegrationBase, NEW q \in Calls, IntegrationStep(q), Advances(q)
  PROVE  RowsFewer \/ Adds(q)
<1>0. RowsGrowOn /\ RowsTyped /\ Formed /\ UpsertHolds(q)
  BY IntegrationKept DEF Kept, CallsOK, IntegrationBase, IntegrationTypes, IntegrationHolds, Place
<1>1. CASE row' = row BY <1>0, <1>1 DEF RowsFewer
<1>2. ASSUME NEW i \in DOMAIN row, Puts(i, row'[i])
      PROVE  RowsFewer
  BY <1>0, <1>2 DEF RowsFewer, Puts
<1>3. ASSUME NEW gone, Drops(gone)
      PROVE  RowsFewer
  BY <1>0, <1>3 DEF RowsFewer, Drops
<1>4. CASE WriteRow(q) /\ UNCHANGED code
 <2>1. ASSUME Proceeds(q), NEW i \in 1..(Len(row) + 1), Wrote(q, i), Does(q).op \in Upserts, call[q].pc = "write",
              UNCHANGED <<subscribed, client, gateway>>
       PROVE  RowsFewer \/ Adds(q)
  <3>1. CASE Loc(q).row = 0 /\ i = Len(row) + 1 BY <1>4, <2>1, <3>1 DEF Adds
  <3>2. CASE Loc(q).row = i /\ i \in Live BY <1>2, <2>1, <3>2 DEF Wrote, Live
  <3> QED BY <2>1, <3>1, <3>2 DEF Wrote
 <2> QED BY <1>0, <1>1, <1>4, <2>1, WriteRowIs
<1>5. CASE DeleteRows(q) \/ disconnectShop(q) BY <1>0, <1>3, <1>5, DeleteRowsIs, DisconnectShopIs
<1>6. CASE ApplyById(q)
 <2>1. CASE UNCHANGED row BY <1>1, <2>1
 <2>2. ASSUME NEW i \in Live, Changes(q, i)  PROVE RowsFewer BY <1>2, <2>2 DEF Changes, Live
 <2> QED BY <1>0, <1>6, <2>1, <2>2, ApplyByIdIs
<1>7. CASE StoreToken(q) \/ MarkInvalid(q)
 <2>1. CASE UNCHANGED row BY <1>1, <2>1
 <2>2. ASSUME NEW i \in Live, NEW c, Stores(q, i, c)  PROVE RowsFewer BY <1>2, <2>2 DEF Stores, Live
 <2>3. UNCHANGED row \/ \E i \in Live : \E c : Stores(q, i, c) BY <1>0, <1>7, StoreTokenIs, MarkInvalidIs
 <2> QED BY <2>1, <2>2, <2>3
<1>8. CASE SubscribePage(q) \/ Release(q) \/ ReadToken(q) \/ PushPayload(q)
  BY <1>0, <1>1, <1>8, SubscribePageIs, ReleaseIs, ReadTokenIs, PushPayloadIs
<1>9. CASE ExchangeCode(q) \/ FindRow(q) \/ FindLeaving(q) \/ FindDeauthorized(q) \/ FindById(q) \/ ReadPayload(q)
           \/ refreshAccessToken(q)
 <2>1. UNCHANGED integrationVars
   BY <1>9 DEF ExchangeCode, FindRow, FindLeaving, FindDeauthorized, FindById, ReadPayload, refreshAccessToken
 <2> QED BY <1>1, <2>1 DEF integrationVars
<1>10. CASE UNCHANGED <<row, subscribed, client, gateway>> \/ UNCHANGED integrationVars
  BY <1>1, <1>10 DEF integrationVars
<1> QED BY <1>4, <1>5, <1>6, <1>7, <1>8, <1>9, <1>10, IntegrationActs

\* Only who looks for a row is about to write one afterwards.
LEMMA StepWrites ==
  ASSUME CallsOK, IntegrationBase, NEW q \in Calls, IntegrationStep(q), Does(q).op \in Upserts, call'[q].pc = "write"
  PROVE  FindRow(q)
<1>0. Formed BY DEF CallsOK
<1> USE DEF Upserts, Connects, Leaves, ByRow
<1>1. ~SubscribePage(q) /\ ~ExchangeCode(q)
 <2>1. ASSUME SubscribePage(q) \/ ExchangeCode(q)
       PROVE  Entered(q, "find", [left |-> Types(q), row |-> 0]) \/ Answered(q, "failed")
   BY <1>0, <2>1, SubscribePageIs, ExchangeCodeIs
 <2>2. ~Entered(q, "find", [left |-> Types(q), row |-> 0]) BY EnteredAt
 <2>3. ~Answered(q, "failed") BY AnsweredAt
 <2> QED BY <2>1, <2>2, <2>3
<1>2. ~WriteRow(q)
 <2>1. ASSUME WriteRow(q)
       PROVE  Ended(q, "write", "failed") \/ Proceeds(q)
   BY <1>0, <2>1, WriteRowIs
 <2>2. ~Ended(q, "write", "failed") /\ ~Ended(q, "write", "connected") BY EndedAt
 <2>3. ~Went(q, "write", "find", [Loc(q) EXCEPT !.left = Tail(Loc(q).left)]) BY WentAt
 <2>4. ~Went(q, "write", "readAll", Loc(q)) BY WentAt
 <2> QED BY <2>1, <2>2, <2>3, <2>4 DEF Proceeds
<1>3. ~FindLeaving(q) /\ ~FindDeauthorized(q) /\ ~Release(q) /\ ~DeleteRows(q) /\ ~FindById(q) /\ ~ApplyById(q)
  BY <1>0, FindLeavingIs, FindDeauthorizedIs, ReleaseIs, DeleteRowsIs, FindByIdIs, ApplyByIdIs
<1>4. ~ReadPayload(q)
 <2>1. ASSUME ReadPayload(q)  PROVE FALSE
  <3>1. Went(q, "readAll", "push", [payload |-> Payload, row |-> Loc(q).row]) BY <1>0, <2>1, ReadPayloadIs
  <3> QED BY <3>1, WentAt
 <2> QED BY <2>1
<1>5. ~PushPayload(q) BY <1>0, PushPayloadIs, EndedAt
<1>6. ~ReadToken(q) /\ ~refreshAccessToken(q) /\ ~StoreToken(q) /\ ~MarkInvalid(q)
  BY <1>0, ReadTokenIs, RefreshIs, StoreTokenIs, MarkInvalidIs
<1>7. ~createAuthorizationCode(q) /\ ~FindCode(q) /\ ~UseCode(q) BY <1>0, ConsentIs, FindCodeIs, UseCodeIs
<1>8. ~disconnectShop(q) /\ ~Dies(q)
  BY <1>0, DisconnectShopIs, DiesBecomes DEF Becomes, IntegrationBase, IntegrationTypes
<1> QED BY <1>1, <1>2, <1>3, <1>4, <1>5, <1>6, <1>7, <1>8, IntegrationActs

\* One row, after a step of the connections.
LEMMA OneStep ==
  ASSUME CallsOK, IntegrationBase, OneInv, NEW q \in Calls, IntegrationStep(q), Advances(q)
  PROVE  OneInv'
<1>0. Formed BY DEF CallsOK
<1>1. CASE Adds(q)
 <2>1. call'[q].pc # "write" BY <1>1, WentAt, EndedAt DEF Adds, Proceeds
 <2> QED BY <1>1, <2>1, OneAdded DEF Adds
<1>2. CASE RowsFewer
 <2>0. PICK t : t = Head(call'[q].loc.left) OBVIOUS
 <2>1. ASSUME Does(q).op \in Upserts, call'[q].pc = "write", call'[q].loc.row = 0
       PROVE  Free(t) \/ SameKind(t, Bot(q)) = {}
  <3>1. FindRow(q) BY <2>1, StepWrites
  <3>2. ASSUME NEW i, Went(q, "find", "write", [Loc(q) EXCEPT !.row = i])
        PROVE  i = 0 /\ t = Head(Loc(q).left) /\ t \in TypesOf(q) /\ Begun(q)
   <4>1. call[q].pc = "find" /\ call'[q].loc = [Loc(q) EXCEPT !.row = i] BY <3>2, WentAt
   <4>2. UpsertHolds(q) BY DEF IntegrationBase, IntegrationHolds, Place
   <4>3. /\ Loc(q) \in [left : Seq(RowTypes), row : Nat] /\ Loc(q).left # <<>>
         /\ \A k \in DOMAIN Loc(q).left : Loc(q).left[k] \in TypesOf(q)
     BY <2>1, <4>1, <4>2 DEF UpsertHolds
   <4>4. Head(Loc(q).left) \in TypesOf(q) BY <4>3, LeftIs
   <4> QED BY <2>0, <2>1, <4>1, <4>3, <4>4 DEF Begun
  <3>3. \A i \in Found(Head(Loc(q).left), q) : i # 0
   <4>1. row \in Seq(RowType) /\ DOMAIN row = 1..Len(row) /\ Len(row) \in Nat
     BY LenProperties DEF RowsTyped, IntegrationBase, IntegrationTypes
   <4>2. Found(Head(Loc(q).left), q) \subseteq DOMAIN row BY DEF Found, ShopRows, RowsOn, Live
   <4> QED BY <4>1, <4>2
  <3>4. Found(t, q) = {} /\ t \in TypesOf(q) /\ Begun(q) BY <1>0, <3>1, <3>2, <3>3, FindRowIs
  <3>5. plan \in Plans BY DEF IntegrationBase
  <3> QED BY <2>1, <3>4, <3>5, FoundSame
 <2> QED BY <1>2, <2>0, <2>1, OneFewer
<1> QED BY <1>1, <1>2, StepFewer

\* One row, after a step of another service.
LEMMA OneElsewhere ==
  ASSUME CallsOK, OneInv, Elsewhere
  PROVE  OneInv'
<1>1. RowsFewer BY ElsewhereIs DEF RowsFewer, RowsGrowOn
<1>2. CASE Times BY <1>1, <1>2, OneStill
<1>3. ASSUME NEW q \in Calls, Advances(q), Does(q).op \notin IntegrationOps
      PROVE  OneInv'
  BY <1>1, <1>3, OneFewer DEF IntegrationOps, Upserts
<1> QED BY <1>2, <1>3 DEF Elsewhere

\* A row after a step: as it was but for its life, or as a connect or a client
\* writes it, or with the tokens a call brings.
Like(k, q) == k \in DOMAIN row /\ row'[k].type = row[k].type /\ (row'[k].live => row[k].live) /\ row'[k].cfg = row[k].cfg
Written(k, q) ==
  /\ Does(q).op \in Upserts /\ call[q].pc = "write" /\ row'[k].type = Head(Loc(q).left) /\ row'[k].live
  /\ \/ k = Len(row) + 1 /\ row'[k].cfg = NewConfig(q)
     \/ k \in Live /\ row[k].type = row'[k].type /\ Loc(q).row = k /\ row'[k].cfg = Rewritten(row[k].cfg, q)
Sent(k, q) ==
  /\ Does(q).op = "update" /\ call[q].pc = "apply" /\ k \in Live /\ Loc(q).row = k
  /\ row'[k].type = row[k].type /\ row'[k].live /\ row'[k].cfg = Sends(q, row[k].cfg)
Renewed(k, q) ==
  /\ Does(q).op = "token" /\ call[q].pc \in {"store", "invalidate"} /\ k \in Live /\ Loc(q).row = k
  /\ row'[k].type = row[k].type /\ row[k].type = "calendar" /\ row'[k].live
  /\ row'[k].cfg.refresh = Loc(q).cfg.refresh /\ row'[k].cfg.bot = Loc(q).cfg.bot
  /\ call[q].pc = "store" => row'[k].cfg = Loc(q).cfg
RowAfter(k, q) == Like(k, q) \/ Written(k, q) \/ Sent(k, q) \/ Renewed(k, q)

\* Where one row is put.
LEMMA PutsAfterwards ==
  ASSUME NEW q, NEW i, Puts(i, row'[i]), RowAfter(i, q), NEW k \in DOMAIN row'
  PROVE  RowAfter(k, q)
  BY DEF Puts, RowAfter, Like

\* Where no row changes.
LEMMA SameAfterwards ==
  ASSUME NEW q, row' = row, NEW k \in DOMAIN row'
  PROVE  RowAfter(k, q)
  BY DEF RowAfter, Like

\* Where rows are deleted.
LEMMA DropsAfterwards ==
  ASSUME RowsTyped, NEW q, NEW gone, Drops(gone), NEW k \in DOMAIN row'
  PROVE  RowAfter(k, q)
<1>1. k \in DOMAIN row /\ row[k] \in RowType BY ElementOfSeq DEF RowsTyped, Drops
<1> QED BY <1>1 DEF RowAfter, Like, Drops, RowType

\* Every step leaves every row as one of the four.
LEMMA StepRows ==
  ASSUME CallsOK, IntegrationBase, NEW q \in Calls, IntegrationStep(q), NEW k \in DOMAIN row'
  PROVE  RowAfter(k, q)
<1>0. RowsTyped /\ Formed /\ UpsertHolds(q) /\ TokenHolds(q)
  BY DEF CallsOK, IntegrationBase, IntegrationTypes, IntegrationHolds, Place
<1>1. CASE row' = row BY <1>1, SameAfterwards
<1>4. CASE WriteRow(q)
 <2>1. ASSUME NEW i \in 1..(Len(row) + 1), Wrote(q, i), Does(q).op \in Upserts, call[q].pc = "write"
       PROVE  RowAfter(k, q)
  <3>1. CASE Loc(q).row = 0 /\ i = Len(row) + 1 BY <2>1, <3>1, PutsAfterwards DEF Wrote, RowAfter, Written
  <3>2. CASE Loc(q).row = i /\ i \in Live
   <4>1. i # 0 BY <2>1
   <4>2. Written(i, q) BY <1>0, <2>1, <3>2, <4>1 DEF Wrote, Written, UpsertHolds
   <4> QED BY <2>1, <4>2, PutsAfterwards DEF Wrote, RowAfter
  <3> QED BY <2>1, <3>1, <3>2 DEF Wrote
 <2> QED BY <1>0, <1>1, <1>4, <2>1, WriteRowIs
<1>5. CASE DeleteRows(q) \/ disconnectShop(q) BY <1>0, <1>5, DeleteRowsIs, DisconnectShopIs, DropsAfterwards
<1>6. CASE ApplyById(q)
 <2>1. CASE UNCHANGED row BY <1>1, <2>1
 <2>2. ASSUME NEW i \in Live, Changes(q, i), call[q].pc = "apply"  PROVE RowAfter(k, q)
  <3>1. RowAfter(i, q) BY <2>2 DEF Changes, RowAfter, Like, Sent, Live
  <3> QED BY <2>2, <3>1, PutsAfterwards DEF Changes
 <2> QED BY <1>0, <1>6, <2>1, <2>2, ApplyByIdIs
<1>7. CASE StoreToken(q) \/ MarkInvalid(q)
 <2>1. CASE UNCHANGED row BY <1>1, <2>1
 <2>2. ASSUME NEW i \in Live, NEW c, Stores(q, i, c), Does(q).op = "token", call[q].pc \in {"store", "invalidate"},
              call[q].pc = "store" => c = Loc(q).cfg
       PROVE  RowAfter(k, q)
  <3>1. Renewed(i, q) BY <1>0, <2>2 DEF Stores, Renewed, TokenHolds
  <3> QED BY <2>2, <3>1, PutsAfterwards DEF Stores, RowAfter
 <2>3. CASE StoreToken(q) BY <1>0, <2>1, <2>2, <2>3, StoreTokenIs
 <2>4. CASE MarkInvalid(q) BY <1>0, <2>1, <2>2, <2>4, MarkInvalidIs
 <2> QED BY <1>7, <2>3, <2>4
<1>8. CASE SubscribePage(q) \/ Release(q) \/ ReadToken(q) \/ PushPayload(q)
  BY <1>0, <1>1, <1>8, SubscribePageIs, ReleaseIs, ReadTokenIs, PushPayloadIs
<1>9. CASE ExchangeCode(q) \/ FindRow(q) \/ FindLeaving(q) \/ FindDeauthorized(q) \/ FindById(q) \/ ReadPayload(q)
           \/ refreshAccessToken(q)
 <2>1. UNCHANGED integrationVars
   BY <1>9 DEF ExchangeCode, FindRow, FindLeaving, FindDeauthorized, FindById, ReadPayload, refreshAccessToken
 <2> QED BY <1>1, <2>1 DEF integrationVars
<1>10. CASE UNCHANGED <<row, subscribed, client, gateway>> \/ UNCHANGED integrationVars
  BY <1>1, <1>10 DEF integrationVars
<1> QED BY <1>4, <1>5, <1>6, <1>7, <1>8, <1>9, <1>10, IntegrationActs

(* A code is good for one token. *)
Redeems(q) == Does(q).op = "redeem"
CodeInv ==
  /\ \A c \in Calls : code[c] # None => Begun(c)
  /\ \A q \in Calls : Redeems(q) /\ call[q].pc = "use" => code[Does(q).of] # None
  /\ \A r \in Calls : Redeems(r) /\ call[r].end = "token" => code[Does(r).of] \in {"used", "expired"}
  /\ \A q, r \in Calls : q # r /\ Redeems(q) /\ Redeems(r) /\ Does(q).of = Does(r).of /\ call[q].pc = "use" /\ call[r].end = "token"
       => Overlap(q, r)
  /\ CodeOnceUnlessRacing

\* Where no token is got for a code.
LEMMA CodeGoesOn ==
  ASSUME CodeInv, IntegrationBase, NEW q \in Calls, Advances(q), code' = code,
         Redeems(q) => (call'[q].end = "token" => call[q].end = "token"),
         Redeems(q) /\ call'[q].pc = "use" => /\ code[Does(q).of] = "fresh"
  PROVE  CodeInv'
<1>0. plan' = plan /\ (\A r \in Calls \ {q} : call'[r] = call[r]) /\ \A r : Does(r)' = Does(r)
  BY PlanStays DEF Advances
<1>1. \A r \in Calls : Redeems(r) => Does(r).of \in Calls BY CallTold DEF IntegrationBase, Redeems
<1>2. \A r \in Calls : Redeems(r) /\ call'[r].end = "token" => call[r].end = "token" BY <1>0
<1>3. \A r \in Calls : Begun(r) => Begun(r)' BY TurnSince
<1>4. ASSUME NEW a \in Calls, NEW b \in Calls, a # b, Redeems(a), Redeems(b), Does(a).of = Does(b).of,
             call'[a].pc = "use", call'[b].end = "token"
      PROVE  Overlap(a, b)'
 <2>1. call[b].end = "token" /\ code[Does(b).of] # "fresh" BY <1>2, <1>4 DEF CodeInv
 <2>2. a # q BY <1>4, <2>1
 <2>3. call[a].pc = "use" BY <1>0, <1>4, <2>2
 <2> QED BY <1>4, <2>1, <2>3, OverlapStays DEF CodeInv
<1>5. ASSUME NEW a \in Calls, NEW b \in Calls, a # b, Redeems(a), Redeems(b), Does(a).of = Does(b).of,
             call'[a].end = "token", call'[b].end = "token"
      PROVE  Overlap(a, b)'
  BY <1>2, <1>5, OverlapStays DEF CodeInv, CodeOnceUnlessRacing, Redeems
<1>6. CodeOnceUnlessRacing' BY <1>0, <1>5 DEF CodeOnceUnlessRacing, Redeems
<1>7. \A r \in Calls : Redeems(r)' <=> Redeems(r) BY <1>0 DEF Redeems
<1>8. \A r \in Calls : Redeems(r) /\ call'[r].pc = "use" => code[Does(r).of] # None
  BY <1>0, NoneIsNoConnection DEF CodeInv
<1> QED BY <1>0, <1>2, <1>3, <1>4, <1>6, <1>7, <1>8 DEF CodeInv

\* Where a code is made.
LEMMA CodeMade ==
  ASSUME CodeInv, CallsOK, IntegrationBase, NEW q \in Calls, Advances(q), ~Begun(q), Does(q).op = "consent",
         code' = [code EXCEPT ![q] = "fresh"]
  PROVE  CodeInv'
<1>0. plan' = plan /\ (\A r \in Calls \ {q} : call'[r] = call[r]) /\ (\A r : Does(r)' = Does(r)) /\ ~Redeems(q)
  BY PlanStays DEF Advances, Redeems
<1>1. code \in [Calls -> {None, "fresh", "used", "expired"}] /\ code[q] = None
  BY DEF CodeInv, IntegrationBase, IntegrationTypes
<1>2. \A r \in Calls : code'[r] = IF r = q THEN "fresh" ELSE code[r] BY <1>1
<1>3. \A r \in Calls : Redeems(r) => Does(r).of \in Calls /\ (call[r].pc = "use" \/ call[r].end = "token" => Does(r).of # q)
  BY <1>1, CallTold, NoneIsNoConnection DEF IntegrationBase, Redeems, CodeInv
<1>4. \A r \in Calls : (Redeems(r)' <=> Redeems(r)) /\ (Redeems(r) => call'[r] = call[r]) BY <1>0 DEF Redeems
<1>5. \A r \in Calls : Begun(r) => Begun(r)' BY TurnSince
<1>6. Begun(q)' BY DEF Advances
<1>7. CodeOnceUnlessRacing' BY <1>0, <1>4, OverlapStays DEF CodeOnceUnlessRacing, Redeems, CodeInv
<1>8. \A c \in Calls : code'[c] # None => Begun(c)' BY <1>2, <1>5, <1>6 DEF CodeInv
<1>9. \A r \in Calls : Redeems(r) /\ call[r].pc = "use" => code'[Does(r).of] # None BY <1>2, <1>3 DEF CodeInv
<1>10. \A r \in Calls : Redeems(r) /\ call[r].end = "token" => code'[Does(r).of] \in {"used", "expired"}
  BY <1>2, <1>3 DEF CodeInv
<1>11. \A a, b \in Calls : a # b /\ Redeems(a) /\ Redeems(b) /\ Does(a).of = Does(b).of /\ call[a].pc = "use" /\ call[b].end = "token"
         => Overlap(a, b)'
  BY OverlapStays DEF CodeInv
<1> QED BY <1>0, <1>4, <1>7, <1>8, <1>9, <1>10, <1>11 DEF CodeInv

\* Where a token is got for a code.
LEMMA CodeUsed ==
  ASSUME CodeInv, CallsOK, IntegrationBase, NEW q \in Calls, Advances(q), Redeems(q), Ended(q, "use", "token"),
         code' = [code EXCEPT ![Does(q).of] = "used"]
  PROVE  CodeInv'
<1>0. plan' = plan /\ (\A r \in Calls \ {q} : call'[r] = call[r]) /\ (\A r : Does(r)' = Does(r))
  BY PlanStays DEF Advances
<1>1. call[q].pc = "use" /\ call'[q].pc = "done" /\ call'[q].end = "token" BY EndedAt
<1>2. Alive(q) /\ Does(q).of \in Calls /\ code \in [Calls -> {None, "fresh", "used", "expired"}]
  BY <1>1, CallTold DEF Alive, Begun, Over, Redeems, IntegrationBase, IntegrationTypes
<1>3. \A c \in Calls : code'[c] = IF c = Does(q).of THEN "used" ELSE code[c] BY <1>2
<1>4. \A r \in Calls : (Redeems(r)' <=> Redeems(r)) /\ (Redeems(r) => Does(r).of \in Calls)
  BY <1>0, CallTold DEF Redeems, IntegrationBase
<1>5. \A r \in Calls : Begun(r) => Begun(r)' BY TurnSince
<1>6. \A c \in Calls : code'[c] # None => Begun(c)' BY <1>1, <1>2, <1>3, <1>5 DEF CodeInv
<1>7. \A r \in Calls : Redeems(r) /\ call'[r].pc = "use" => code'[Does(r).of] # None
  BY <1>0, <1>1, <1>3, <1>4, NoneIsNoConnection DEF CodeInv
<1>8. \A r \in Calls : Redeems(r) /\ call'[r].end = "token" => code'[Does(r).of] \in {"used", "expired"}
  BY <1>0, <1>3, <1>4 DEF CodeInv
<1>9. ASSUME NEW a \in Calls, NEW b \in Calls, a # b, Redeems(a), Redeems(b), Does(a).of = Does(b).of,
             call'[a].pc = "use" \/ call'[a].end = "token", call'[b].end = "token",
             call'[a].end = "token" => call'[a].pc # "use"
      PROVE  Overlap(a, b)'
 <2>1. CASE a = q
  <3>1. call[b].end = "token" /\ call[q].pc = "use" BY <1>0, <1>1, <1>9, <2>1
  <3> QED BY <1>9, <2>1, <3>1, OverlapStays DEF CodeInv
 <2>2. CASE b = q
  <3>1. call'[a] = call[a] BY <1>0, <1>9, <2>2
  <3>2. CASE call[a].pc = "use"
   <4>1. Alive(a) BY <3>2 DEF Alive, Begun, Over
   <4> QED BY <1>2, <1>9, <2>2, <4>1, BothOverlap, OverlapStays
  <3>3. CASE call[a].end = "token"
   <4>1. Overlap(q, a) BY <1>1, <1>9, <2>2, <3>3 DEF CodeInv
   <4> QED BY <2>2, <4>1, OverlapTurned, OverlapStays
  <3> QED BY <1>9, <3>1, <3>2, <3>3
 <2>3. CASE a # q /\ b # q
  <3>1. call'[a] = call[a] /\ call'[b] = call[b] BY <1>0, <2>3
  <3>2. CASE call[a].pc = "use" BY <1>9, <3>1, <3>2, OverlapStays DEF CodeInv
  <3>3. CASE call[a].end = "token" BY <1>9, <3>1, <3>3, OverlapStays DEF CodeInv, CodeOnceUnlessRacing, Redeems
  <3> QED BY <1>9, <3>1, <3>2, <3>3
 <2> QED BY <2>1, <2>2, <2>3
<1>10. \A a \in Calls : Redeems(a) /\ call'[a].end = "token" => call'[a].pc # "use"
 <2> SUFFICES ASSUME NEW a \in Calls, Redeems(a), call'[a].end = "token"  PROVE call'[a].pc # "use" OBVIOUS
 <2>1. CASE a = q BY <1>1, <2>1
 <2>2. CASE a # q
  <3>1. call[a].end = "token" /\ EndHolds(a) /\ call'[a] = call[a]
    BY <1>0, <2>2 DEF IntegrationBase, IntegrationHolds, Place
  <3> QED BY <3>1, NoneIsNoConnection DEF EndHolds, Alive, Begun, Over, Redeems, IntegrationOps
 <2> QED BY <2>1, <2>2
<1>11. CodeOnceUnlessRacing' BY <1>0, <1>9, <1>10 DEF CodeOnceUnlessRacing, Redeems
<1>12. \A a, b \in Calls : a # b /\ Redeems(a) /\ Redeems(b) /\ Does(a).of = Does(b).of /\ call'[a].pc = "use" /\ call'[b].end = "token"
         => Overlap(a, b)'
  BY <1>9, <1>10
<1> QED BY <1>0, <1>4, <1>6, <1>7, <1>8, <1>11, <1>12 DEF CodeInv

\* Only the steps of a code touch it, and only they are at its use.
LEMMA CodeTouched ==
  ASSUME CallsOK, IntegrationBase, NEW q \in Calls, IntegrationStep(q)
  PROVE  \/ code' = code /\ (Redeems(q) => call'[q].pc # "use" /\ (call'[q].end = "token" => call[q].end = "token"))
         \/ code' = code /\ code[Does(q).of] = "fresh" /\ Entered(q, "use", None) /\ Redeems(q)
         \/ Does(q).op = "consent" /\ ~Begun(q) /\ code' = [code EXCEPT ![q] = "fresh"]
         \/ Redeems(q) /\ Ended(q, "use", "token") /\ code' = [code EXCEPT ![Does(q).of] = "used"]
<1>0. Formed /\ RowsTyped BY DEF CallsOK, IntegrationBase, IntegrationTypes
<1> USE DEF Upserts, Connects, Leaves, ByRow, Synced
<1>1. CASE /\ \/ SubscribePage(q) \/ ExchangeCode(q) \/ FindRow(q) \/ WriteRow(q)
              \/ FindLeaving(q) \/ FindDeauthorized(q) \/ Release(q) \/ DeleteRows(q)
              \/ FindById(q) \/ ApplyById(q) \/ ReadPayload(q) \/ PushPayload(q)
              \/ ReadToken(q) \/ refreshAccessToken(q) \/ StoreToken(q) \/ MarkInvalid(q)
           /\ UNCHANGED code
 <2>1. CASE SubscribePage(q) \/ ExchangeCode(q) \/ FindRow(q) \/ WriteRow(q)
   BY <1>0, <1>1, <2>1, SubscribePageIs, ExchangeCodeIs, FindRowIs, WriteRowIs DEF Redeems
 <2>2. CASE FindLeaving(q) \/ FindDeauthorized(q) \/ Release(q) \/ DeleteRows(q)
   BY <1>0, <1>1, <2>2, FindLeavingIs, FindDeauthorizedIs, ReleaseIs, DeleteRowsIs DEF Redeems
 <2>3. CASE FindById(q) \/ ApplyById(q) \/ ReadPayload(q) \/ PushPayload(q)
   BY <1>0, <1>1, <2>3, FindByIdIs, ApplyByIdIs, ReadPayloadIs, PushPayloadIs DEF Redeems
 <2>4. CASE ReadToken(q) \/ refreshAccessToken(q) \/ StoreToken(q) \/ MarkInvalid(q)
   BY <1>0, <1>1, <2>4, ReadTokenIs, RefreshIs, StoreTokenIs, MarkInvalidIs DEF Redeems
 <2> QED BY <1>1, <2>1, <2>2, <2>3, <2>4
<1>2. CASE createAuthorizationCode(q)
 <2>1. Does(q).op = "consent" /\ ((Answered(q, "code") /\ code' = [code EXCEPT ![q] = "fresh"]) \/ UNCHANGED code)
   BY <1>0, <1>2, ConsentIs
 <2>2. Answered(q, "code") => ~Begun(q) BY AnsweredAt
 <2> QED BY <2>1, <2>2 DEF Redeems
<1>3. CASE FindCode(q)
 <2>1. Answered(q, "refused") => call'[q].pc # "use" /\ call'[q].end # "token" BY AnsweredAt
 <2> QED BY <1>0, <1>3, <2>1, FindCodeIs DEF Redeems
<1>4. CASE UseCode(q) BY <1>0, <1>4, UseCodeIs DEF Redeems
<1>5. CASE disconnectShop(q) /\ UNCHANGED code BY <1>0, <1>5, DisconnectShopIs DEF Redeems
<1>6. CASE Dies(q) /\ UNCHANGED integrationVars
 <2>1. call'[q].pc = "dead" /\ call'[q].end = call[q].end BY <1>0, <1>6, DiesBecomes DEF Becomes
 <2> QED BY <1>6, <2>1 DEF integrationVars
<1> QED BY <1>1, <1>2, <1>3, <1>4, <1>5, <1>6, IntegrationActs

\* A code stays one token, after a step of the connections.
LEMMA CodeStep ==
  ASSUME CallsOK, IntegrationBase, CodeInv, NEW q \in Calls, IntegrationStep(q), Advances(q)
  PROVE  CodeInv'
<1>1. CASE code' = code /\ (Redeems(q) => call'[q].pc # "use" /\ (call'[q].end = "token" => call[q].end = "token"))
  BY <1>1, CodeGoesOn
<1>2. CASE code' = code /\ code[Does(q).of] = "fresh" /\ Entered(q, "use", None) /\ Redeems(q)
 <2>1. call'[q].end # "token" BY <1>2, EnteredAt, NoneIsNoConnection
 <2> QED BY <1>2, <2>1, CodeGoesOn
<1>3. CASE Does(q).op = "consent" /\ ~Begun(q) /\ code' = [code EXCEPT ![q] = "fresh"] BY <1>3, CodeMade
<1>4. CASE Redeems(q) /\ Ended(q, "use", "token") /\ code' = [code EXCEPT ![Does(q).of] = "used"] BY <1>4, CodeUsed
<1> QED BY <1>1, <1>2, <1>3, <1>4, CodeTouched

\* Where no code changes.
LEMMA CodeStays ==
  ASSUME CallsOK, CodeInv, plan' = plan, UNCHANGED code,
         Times \/ \E q \in Calls : Advances(q),
         \A r \in Calls : Redeems(r) => call'[r] = call[r]
  PROVE  CodeInv'
<1>1. \A r \in Calls : (Redeems(r)' <=> Redeems(r)) /\ Does(r)' = Does(r) BY PlanStays DEF Redeems
<1>2. \A r \in Calls : Begun(r) => Begun(r)' BY TurnSince DEF Times, Begun
<1>3. \A a, b \in Calls : Overlap(a, b) => Overlap(a, b)' BY OverlapStays
<1>4. CodeOnceUnlessRacing' BY <1>1, <1>3 DEF CodeInv, CodeOnceUnlessRacing, Redeems
<1> QED BY <1>1, <1>2, <1>3, <1>4 DEF CodeInv

\* After a step of another service.
LEMMA CodeElsewhere ==
  ASSUME CallsOK, CodeInv, Elsewhere
  PROVE  CodeInv'
<1>1. \A r \in Calls : Redeems(r) => Does(r).op \in IntegrationOps BY DEF Redeems, IntegrationOps
<1>2. \A r \in Calls : Redeems(r) => call'[r] = call[r] BY <1>1, ElsewhereIs
<1> QED BY <1>2, CodeStays, ElsewhereIs DEF Elsewhere

\* After time has passed.
LEMMA CodeClock ==
  ASSUME CallsOK, IntegrationBase, CodeInv, IntegrationClock, Times
  PROVE  CodeInv'
<1>1. CASE TokenExpires BY <1>1, CodeStays DEF TokenExpires, Times
<1>2. CASE CodeExpires
 <2>1. PICK c \in Calls : code[c] = "fresh" /\ code' = [code EXCEPT ![c] = "expired"] BY <1>2 DEF CodeExpires
 <2>2. code \in [Calls -> {None, "fresh", "used", "expired"}] BY DEF IntegrationBase, IntegrationTypes
 <2>3. \A d \in Calls : code'[d] = IF d = c THEN "expired" ELSE code[d] BY <2>1, <2>2
 <2>4. \A r \in Calls : (Redeems(r)' <=> Redeems(r)) /\ Does(r)' = Does(r) /\ call'[r] = call[r] /\ (Begun(r)' <=> Begun(r))
   BY DEF Times, Redeems, Does, Begun
 <2>5. \A r \in Calls : Redeems(r) => Does(r).of \in Calls BY CallTold DEF Redeems, IntegrationBase
 <2>6. \A a, b \in Calls : Overlap(a, b) => Overlap(a, b)' BY OverlapStays
 <2>7. CodeOnceUnlessRacing' BY <2>4, <2>6 DEF CodeInv, CodeOnceUnlessRacing, Redeems
 <2>8. \A d \in Calls : code'[d] # None => Begun(d)' BY <2>1, <2>3, <2>4, NoneIsNoConnection DEF CodeInv
 <2>9. \A r \in Calls : Redeems(r) /\ call[r].pc = "use" => code'[Does(r).of] # None
   BY <2>3, <2>5, NoneIsNoConnection DEF CodeInv
 <2>10. \A r \in Calls : Redeems(r) /\ call[r].end = "token" => code'[Does(r).of] \in {"used", "expired"}
   BY <2>1, <2>3, <2>5 DEF CodeInv
 <2> QED BY <2>4, <2>6, <2>7, <2>8, <2>9, <2>10 DEF CodeInv
<1> QED BY <1>1, <1>2 DEF IntegrationClock

(* The tokens of a calendar are its bot's. *)
Refreshes(q) == Does(q).op = "token" /\ call[q].pc \in {"refresh", "store", "invalidate"}

\* How a call comes to hold a token.
LEMMA TokenMoves ==
  ASSUME CallsOK, IntegrationBase, NEW q \in Calls, IntegrationStep(q)
  PROVE  \/ client' = client /\ ~Refreshes(q)'
         \/ Does(q).op = "token" /\ row' = row /\ \E i \in Live : Reads(q, i)
         \/ /\ Does(q).op = "token" /\ UNCHANGED <<row, client>>
            /\ Went(q, "refresh", "store", [Loc(q) EXCEPT !.cfg = [@ EXCEPT !.refresh = client, !.due = FALSE]])
         \/ /\ Does(q).op = "token" /\ UNCHANGED <<row, client>>
            /\ (plan.failures /\ Went(q, "refresh", "invalidate", Loc(q)))
               \/ (~row[Loc(q).row].live /\ Went(q, "store", "invalidate", Loc(q)))
<1>0. Formed /\ RowsTyped /\ plan' = plan BY IntegrationActs DEF CallsOK, IntegrationBase, IntegrationTypes
<1> USE DEF Upserts, Connects, Leaves, ByRow, Synced
<1>1. ASSUME Does(q).op # "token"  PROVE ~Refreshes(q)' BY <1>0, <1>1 DEF Refreshes, Does
<1>2. ASSUME NEW end, Answered(q, end)  PROVE ~Refreshes(q)' BY <1>2, AnsweredAt DEF Refreshes
<1>3. ASSUME NEW from, NEW end, Ended(q, from, end)  PROVE ~Refreshes(q)' BY <1>3, EndedAt DEF Refreshes
<1>4. CASE SubscribePage(q) \/ ExchangeCode(q) \/ FindRow(q) \/ WriteRow(q)
  BY <1>0, <1>1, <1>4, SubscribePageIs, ExchangeCodeIs, FindRowIs, WriteRowIs DEF integrationVars
<1>5. CASE FindLeaving(q) \/ FindDeauthorized(q) \/ Release(q) \/ DeleteRows(q)
  BY <1>0, <1>1, <1>5, FindLeavingIs, FindDeauthorizedIs, ReleaseIs, DeleteRowsIs DEF integrationVars
<1>6. CASE FindById(q) \/ ApplyById(q) \/ ReadPayload(q) \/ PushPayload(q)
  BY <1>0, <1>1, <1>6, FindByIdIs, ApplyByIdIs, ReadPayloadIs, PushPayloadIs DEF integrationVars
<1>7. CASE ReadToken(q) BY <1>0, <1>2, <1>7, ReadTokenIs
<1>8. CASE refreshAccessToken(q) BY <1>0, <1>8, RefreshIs DEF integrationVars
<1>9. CASE StoreToken(q) BY <1>0, <1>3, <1>9, StoreTokenIs
<1>10. CASE MarkInvalid(q) BY <1>0, <1>3, <1>10, MarkInvalidIs
<1>11. CASE (createAuthorizationCode(q) \/ FindCode(q) \/ UseCode(q)) /\ UNCHANGED client
  BY <1>0, <1>1, <1>11, ConsentIs, FindCodeIs, UseCodeIs
<1>12. CASE disconnectShop(q) /\ UNCHANGED client BY <1>0, <1>1, <1>12, DisconnectShopIs
<1>13. CASE Dies(q) /\ UNCHANGED integrationVars BY <1>0, <1>13, DiesBecomes DEF Becomes, integrationVars, Refreshes
<1> QED BY <1>4, <1>5, <1>6, <1>7, <1>8, <1>9, <1>10, <1>11, <1>12, <1>13, IntegrationActs

Own(bot, refresh) == refresh \in Grants(bot)
ForeignRaced ==
  \E q, r \in Calls : Does(q).op = "token" /\ Does(r).op = "token" /\ Overlap(q, r) /\ Bot(q) # Bot(r)
OwnRows == \A i \in DOMAIN row : row[i].type = "calendar" => Own(row[i].cfg.bot, row[i].cfg.refresh)
OwnTokens(q) ==
  Refreshes(q) => Own(Bot(q), Loc(q).cfg.refresh) /\ (call[q].pc = "refresh" => Own(Bot(q), client))
ForeignInv == ForeignRaced \/ (OwnRows /\ \A q \in Calls : OwnTokens(q))

\* A foreign token is only there where two calls raced.
LEMMA ForeignThen ==
  ASSUME ForeignInv
  PROVE  ForeignTokenOnlyRacing
  BY DEF ForeignInv, ForeignRaced, OwnRows, Own, ForeignTokenOnlyRacing, Live

\* What a bot was given it was given for good.
LEMMA OwnStays ==
  ASSUME Times \/ \E q \in Calls : Advances(q), NEW bot, NEW refresh
  PROVE  Own(bot, refresh)' <=> Own(bot, refresh)
<1>1. plan' = plan BY PlanStays
<1> QED BY <1>1 DEF Own, Grants, Does, Bot

\* Who raced has raced for good.
LEMMA RacedStays ==
  ASSUME ForeignRaced, Times \/ \E q \in Calls : Advances(q)
  PROVE  ForeignRaced'
<1>1. \A a, b \in Calls : Overlap(a, b) => Overlap(a, b)' BY OverlapStays
<1> QED BY <1>1, PlanStays DEF ForeignRaced

\* Rows keep their own tokens, but for calls that raced.
LEMMA ForeignRows ==
  ASSUME CallsOK, IntegrationBase, OwnRows, NEW q \in Calls, OwnTokens(q), IntegrationStep(q), Advances(q)
  PROVE  OwnRows'
<1>00. ASSUME NEW bot, NEW refresh  PROVE Own(bot, refresh)' <=> Own(bot, refresh) BY OwnStays
<1> SUFFICES ASSUME NEW k \in DOMAIN row', row'[k].type = "calendar"
             PROVE  Own(row'[k].cfg.bot, row'[k].cfg.refresh)
  BY <1>00 DEF OwnRows
<1>0. (\A r : Bot(r)' = Bot(r)) /\ plan \in Plans /\ RowsTyped BY PlanStays DEF IntegrationBase, IntegrationTypes
<1>01. ASSUME NEW i \in DOMAIN row  PROVE row[i].cfg \in ConfigType
 <2>1. row[i] \in RowType BY <1>0, ElementOfSeq DEF RowsTyped
 <2> QED BY <2>1 DEF RowType
<1>02. ASSUME Does(q).op \in ByHand, Does(q).config # None, NEW bot, NEW refresh, bot = Does(q).config.bot,
              refresh = Does(q).config.refresh
       PROVE  Own(bot, refresh)
  BY <1>02 DEF Own, Grants
<1>1. CASE Like(k, q) BY <1>1 DEF Like, OwnRows
<1>2. CASE Written(k, q)
 <2>0. Does(q).op \in Upserts BY <1>2 DEF Written
 <2>1. ASSUME row'[k].cfg = NewConfig(q)  PROVE Own(row'[k].cfg.bot, row'[k].cfg.refresh)
  <3>1. CASE NewConfig(q).refresh = None BY <2>1, <3>1 DEF Own, Grants
  <3>2. CASE Does(q).op \in Connects \ {"linkShop"} BY <2>0, <1>0, <2>1, <3>2, NewConfigIs DEF Own, Grants
  <3>3. CASE Does(q).op = "create" /\ NewConfig(q).refresh # None
    BY <1>0, <1>02, <2>0, <2>1, <3>3, NewConfigIs DEF ByHand
  <3> QED BY <1>0, <2>0, <3>1, <3>2, <3>3, NewConfigIs DEF Upserts
 <2>2. ASSUME k \in Live, row[k].type = "calendar", row'[k].cfg = Rewritten(row[k].cfg, q)
       PROVE  Own(row'[k].cfg.bot, row'[k].cfg.refresh)
  <3>1. CASE Does(q).op \in Connects BY <1>0, <1>01, <2>0, <2>1, <2>2, <3>1, RewrittenIs DEF Live
  <3>2. CASE Does(q).op = "create"
   <4>1. row'[k].cfg = Sends(q, row[k].cfg) BY <1>0, <1>01, <2>0, <2>2, <3>2, RewrittenIs DEF Live
   <4>2. CASE Does(q).config = None BY <2>2, <4>1, <4>2 DEF Sends, OwnRows, Live
   <4>3. CASE Does(q).config # None BY <1>0, <1>01, <1>02, <2>2, <3>2, <4>1, <4>3, SendsIs DEF ByHand, Live
   <4> QED BY <4>2, <4>3
  <3> QED BY <2>0, <3>1, <3>2 DEF Upserts
 <2> QED BY <1>2, <2>1, <2>2 DEF Written
<1>4. CASE Sent(k, q)
 <2>1. CASE Does(q).config = None BY <1>4, <2>1 DEF Sent, Sends, OwnRows, Live
 <2>2. CASE Does(q).config # None BY <1>0, <1>01, <1>02, <1>4, <2>2, SendsIs DEF Sent, ByHand, Live
 <2> QED BY <2>1, <2>2
<1>3. CASE Renewed(k, q)
 <2>1. Own(Bot(q), Loc(q).cfg.refresh) /\ TokenHolds(q)
   BY <1>3 DEF Renewed, OwnTokens, Refreshes, IntegrationBase, IntegrationHolds, Place
 <2>2. row'[k].cfg.bot = Bot(q) BY <1>3, <2>1 DEF Renewed, TokenHolds
 <2> QED BY <1>3, <2>1, <2>2 DEF Renewed
<1> QED BY <1>1, <1>2, <1>3, <1>4, StepRows DEF RowAfter

\* So do the calls that hold one.
LEMMA ForeignTokens ==
  ASSUME CallsOK, IntegrationBase, OwnRows, NEW q \in Calls, OwnTokens(q), IntegrationStep(q), Advances(q)
  PROVE  OwnTokens(q)'
<1>00. ASSUME NEW bot, NEW refresh  PROVE Own(bot, refresh)' <=> Own(bot, refresh) BY OwnStays
<1>0. \A r : Bot(r)' = Bot(r) BY PlanStays
<1>1. ASSUME Does(q).op = "token", NEW i \in Live, Reads(q, i)
      PROVE  OwnTokens(q)'
 <2>1. /\ Loc(q)' = [row |-> i, cfg |-> row[i].cfg] /\ row[i].type = "calendar" /\ row[i].cfg.bot = Bot(q)
       /\ (call'[q].pc = "refresh" /\ client' = row[i].cfg.refresh) \/ call'[q].pc = "invalidate"
   BY <1>1, EnteredAt DEF Loc, Reads
 <2>2. Own(Bot(q), row[i].cfg.refresh) BY <2>1 DEF OwnRows, Live
 <2>3. Own(Bot(q), Loc(q)'.cfg.refresh) /\ (call'[q].pc = "refresh" => Own(Bot(q), client')) BY <2>1, <2>2
 <2> QED BY <1>0, <1>00, <2>3 DEF OwnTokens
<1>2. ASSUME Does(q).op = "token", UNCHANGED client,
             Went(q, "refresh", "store", [Loc(q) EXCEPT !.cfg = [@ EXCEPT !.refresh = client, !.due = FALSE]])
      PROVE  OwnTokens(q)'
 <2>1. /\ call[q].pc = "refresh" /\ call'[q].pc = "store"
       /\ Loc(q)' = [Loc(q) EXCEPT !.cfg = [@ EXCEPT !.refresh = client, !.due = FALSE]]
   BY <1>2, WentAt DEF Loc
 <2>2. TokenHolds(q) BY DEF IntegrationBase, IntegrationHolds, Place
 <2>3. Loc(q) \in [row : Nat, cfg : ConfigType] BY <1>2, <2>1, <2>2 DEF TokenHolds
 <2>4. Loc(q)'.cfg.refresh = client BY <2>1, <2>3 DEF ConfigType
 <2>5. Own(Bot(q), client) BY <1>2, <2>1 DEF OwnTokens, Refreshes
 <2> QED BY <1>0, <1>00, <2>1, <2>4, <2>5 DEF OwnTokens
<1>3. ASSUME Does(q).op = "token", UNCHANGED client, NEW from \in {"refresh", "store"}, Went(q, from, "invalidate", Loc(q))
      PROVE  OwnTokens(q)'
 <2>1. call[q].pc = from /\ call'[q].pc = "invalidate" /\ Loc(q)' = Loc(q) BY <1>3, WentAt DEF Loc
 <2>2. Own(Bot(q), Loc(q).cfg.refresh) BY <1>3, <2>1 DEF OwnTokens, Refreshes
 <2> QED BY <1>0, <1>00, <2>1, <2>2 DEF OwnTokens
<1>4. CASE ~Refreshes(q)' BY <1>4 DEF OwnTokens
<1> QED BY <1>1, <1>2, <1>3, <1>4, TokenMoves

\* Both, after a step of the connections.
LEMMA ForeignStep ==
  ASSUME CallsOK, IntegrationBase, ForeignInv, NEW q \in Calls, IntegrationStep(q), Advances(q)
  PROVE  ForeignInv'
<1>1. CASE ForeignRaced BY <1>1, RacedStays DEF ForeignInv
<1>00. ASSUME NEW bot, NEW refresh  PROVE Own(bot, refresh)' <=> Own(bot, refresh) BY OwnStays
<1>2. CASE OwnRows /\ (\A r \in Calls : OwnTokens(r)) /\ ~ForeignRaced'
 <2>0. plan' = plan /\ \A r : Bot(r)' = Bot(r) /\ Does(r)' = Does(r) BY PlanStays
 <2>1. OwnRows' /\ OwnTokens(q)' BY <1>2, ForeignRows, ForeignTokens
 <2>2. ASSUME NEW r \in Calls, r # q  PROVE OwnTokens(r)'
  <3>0. call'[r] = call[r] /\ Loc(r)' = Loc(r) BY <2>2 DEF Advances, Loc
  <3>1. CASE client' = client BY <1>2, <1>00, <2>0, <3>0, <3>1 DEF OwnTokens, Refreshes
  <3>2. CASE client' # client
   <4>1. PICK i \in Live : /\ row[i].type = "calendar" /\ row[i].cfg.bot = Bot(q) /\ Does(q).op = "token"
                           /\ Entered(q, "refresh", [row |-> i, cfg |-> row[i].cfg]) /\ client' = row[i].cfg.refresh
     BY <3>2, TokenMoves DEF Reads
   <4>2. Own(Bot(q), client') BY <1>2, <4>1 DEF OwnRows, Live
   <4>3. ASSUME Refreshes(r)  PROVE Bot(r) = Bot(q)
    <5>1. ~Begun(q) /\ Alive(r) BY <4>1, <4>3, EnteredAt DEF Alive, Begun, Over, Refreshes
    <5>2. Overlap(r, q)' BY <5>1, NewOverlaps
    <5> QED BY <1>2, <2>0, <4>1, <4>3, <5>2 DEF ForeignRaced, Refreshes
   <4> QED BY <1>2, <1>00, <2>0, <3>0, <4>2, <4>3 DEF OwnTokens, Refreshes
  <3> QED BY <3>1, <3>2
 <2> QED BY <2>1, <2>2 DEF ForeignInv
<1> QED BY <1>1, <1>2 DEF ForeignInv

\* Where neither rows nor tokens change.
LEMMA ForeignStays ==
  ASSUME ForeignInv, Times \/ \E q \in Calls : Advances(q), client' = client,
         \A r \in Calls : Does(r).op = "token" => call'[r] = call[r],
         \A i \in DOMAIN row' : /\ i \in DOMAIN row /\ row'[i].type = row[i].type
                                /\ row'[i].cfg.bot = row[i].cfg.bot /\ row'[i].cfg.refresh = row[i].cfg.refresh
  PROVE  ForeignInv'
<1>1. CASE ForeignRaced BY <1>1, RacedStays DEF ForeignInv
<1>2. CASE OwnRows /\ \A r \in Calls : OwnTokens(r)
 <2>0. plan' = plan /\ \A r : Bot(r)' = Bot(r) /\ Does(r)' = Does(r) BY PlanStays
 <2>00. ASSUME NEW bot, NEW refresh  PROVE Own(bot, refresh)' <=> Own(bot, refresh) BY OwnStays
 <2>1. OwnRows' BY <1>2, <2>0, <2>00 DEF OwnRows
 <2>2. \A r \in Calls : OwnTokens(r)' BY <1>2, <2>0, <2>00 DEF OwnTokens, Refreshes, Loc
 <2> QED BY <2>1, <2>2 DEF ForeignInv
<1> QED BY <1>1, <1>2 DEF ForeignInv

\* After a step of another service.
LEMMA ForeignElsewhere ==
  ASSUME CallsOK, ForeignInv, Elsewhere
  PROVE  ForeignInv'
  BY ElsewhereIs, ForeignStays DEF Elsewhere, IntegrationOps

\* After time has passed.
LEMMA ForeignClock ==
  ASSUME CallsOK, IntegrationBase, ForeignInv, IntegrationClock, Times
  PROVE  ForeignInv'
<1>0. RowsTyped BY DEF IntegrationBase, IntegrationTypes
<1>1. CASE TokenExpires
 <2>1. PICK i \in Live : Expired(i) BY <1>0, <1>1, TokenExpiresIs
 <2>2. row[i] \in RowType /\ i \in DOMAIN row BY <1>0, ElementOfSeq DEF RowsTyped, Live
 <2>3. row'[i].cfg.bot = row[i].cfg.bot /\ row'[i].cfg.refresh = row[i].cfg.refresh
   BY <2>1, <2>2 DEF Expired, RowType, ConfigType
 <2> QED BY <1>1, <2>1, <2>2, <2>3, ForeignStays DEF Expired, Puts, TokenExpires, Times
<1>2. CASE UNCHANGED <<row, client>> BY <1>2, ForeignStays DEF Times
<1> QED BY <1>1, <1>2 DEF IntegrationClock

(* A calendar that is connected again keeps its tokens. *)
\* Who takes a row away has named its type, and its bot where it looks for one.
TakesAway(q, r) ==
  \/ Does(q).op \in Leaves /\ r.type \in TypesOf(q) /\ (r.cfg.bot = Bot(q) \/ Handled(r.type))
  \/ Does(q).op = "deauthorize" /\ r.type \in PageTypes
  \/ Does(q).op = "delete" /\ r.type \in TypesOf(q)
  \/ Does(q).op = "unlinkShop" /\ r.type = "shopify"

\* A row that goes is taken by one of them.
LEMMA StepDrops ==
  ASSUME CallsOK, IntegrationBase, NEW q \in Calls, IntegrationStep(q), Advances(q), NEW k \in Live, ~row'[k].live
  PROVE  TakesAway(q, row[k])
<1>0. Formed /\ RowsTyped /\ plan \in Plans /\ LeaveHolds(q) /\ ByRowHolds(q) /\ k \in DOMAIN row /\ row[k].live /\ row[k] \in RowType
  BY ElementOfSeq DEF CallsOK, IntegrationBase, IntegrationTypes, IntegrationHolds, Place, RowsTyped, Live
<1>1. row' # row BY <1>0
<1>2. CASE DeleteRows(q)
 <2>1. /\ Does(q).op \in Leaves \cup {"deauthorize"} /\ call[q].pc = "delete" /\ Drops(Loc(q).rows)
   BY <1>0, <1>2, DeleteRowsIs, EndedAt
 <2>2. k \in Loc(q).rows BY <1>0, <2>1 DEF Drops
 <2> QED BY <1>0, <2>1, <2>2 DEF LeaveHolds, TakesAway
<1>3. CASE disconnectShop(q)
 <2>1. Does(q).op = "unlinkShop" /\ Drops(ShopRows) BY <1>0, <1>3, DisconnectShopIs
 <2>2. k \in ShopRows BY <1>0, <2>1 DEF Drops
 <2> QED BY <2>1, <2>2 DEF ShopRows, TakesAway
<1>4. CASE ApplyById(q)
 <2>1. PICK i \in Live : Changes(q, i) BY <1>0, <1>1, <1>4, ApplyByIdIs
 <2>2. k = i BY <1>0, <2>1 DEF Changes, Puts
 <2>3. Does(q).op = "delete" /\ call[q].pc = "apply" /\ Loc(q).row = k
   BY <1>0, <1>4, <2>1, <2>2, ApplyByIdIs DEF Changes
 <2>4. row[k].type = Head(Types(q)) BY <1>0, <2>3 DEF ByRowHolds, ByRow
 <2>5. Types(q) \in Seq(RowTypes) /\ Types(q) # <<>> BY <1>0, <2>3, CallTold DEF ByRow
 <2>6. Head(Types(q)) \in TypesOf(q) BY <2>5, LeftIs DEF TypesOf
 <2> QED BY <2>3, <2>4, <2>6 DEF TakesAway
<1>5. CASE ~DeleteRows(q) /\ ~disconnectShop(q) /\ ~ApplyById(q)
 <2>1. RowAfter(k, q)
  <3>1. k \in DOMAIN row' BY <1>0, IntegrationKept DEF Kept, RowsGrowOn
  <3> QED BY <3>1, StepRows
 <2>2. ~Written(k, q) /\ ~Sent(k, q) /\ ~Renewed(k, q) BY <1>0 DEF Written, Sent, Renewed
 <2>3. ASSUME WriteRow(q)  PROVE FALSE
  <3>1. PICK i \in 1..(Len(row) + 1) : Wrote(q, i) BY <1>0, <1>1, <2>3, WriteRowIs
  <3> QED BY <1>0, <3>1 DEF Wrote, Puts
 <2>4. ASSUME StoreToken(q) \/ MarkInvalid(q)  PROVE FALSE
  <3>1. \E i \in Live : \E c : Stores(q, i, c) BY <1>0, <1>1, <2>4, StoreTokenIs, MarkInvalidIs
  <3> QED BY <1>0, <3>1 DEF Stores, Puts
 <2>5. ~(SubscribePage(q) \/ Release(q) \/ ReadToken(q) \/ PushPayload(q))
   BY <1>0, <1>1, SubscribePageIs, ReleaseIs, ReadTokenIs, PushPayloadIs
 <2>6. ~(ExchangeCode(q) \/ FindRow(q) \/ FindLeaving(q) \/ FindDeauthorized(q) \/ FindById(q) \/ ReadPayload(q)
          \/ refreshAccessToken(q))
   BY <1>1 DEF ExchangeCode, FindRow, FindLeaving, FindDeauthorized, FindById, ReadPayload, refreshAccessToken, integrationVars
 <2> QED BY <1>1, <1>5, <2>3, <2>4, <2>5, <2>6, IntegrationActs DEF integrationVars
<1> QED BY <1>2, <1>3, <1>4, <1>5

\* Nothing that is about the bot's calendar is on its way, or came after.
Quiet(q) ==
  /\ ~Racing(q, {"token"})
  /\ \A x \in Calls \ {q} : Reconnects(x, Bot(q)) /\ Begun(x) => x \in call[q].since
  /\ ~\E x, y \in Calls : Does(x).op = "token" /\ Does(y).op = "token" /\ Overlap(x, y)
Reconnected(q) == Does(q).op = "connectCalendar" /\ call[q].end = "connected"
HoldsOwn(q, i) ==
  /\ i \in RowsOn("calendar", Bot(q)) /\ row[i].cfg.refresh = q /\ ~row[i].cfg.invalid
  /\ \A r \in Calls : Refreshes(r) /\ Loc(r).row = i =>
       /\ call[r].pc # "invalidate" /\ Loc(r).cfg.refresh = q /\ Bot(r) = Bot(q)
       /\ call[r].pc = "refresh" => client = q
KeptInv ==
  ~plan.failures => \A q \in Calls : Reconnected(q) /\ Quiet(q) => \E i \in DOMAIN row : HoldsOwn(q, i)

\* The calendar that was connected again is kept.
LEMMA KeptThen ==
  ASSUME KeptInv
  PROVE  ReconnectKept
<1> SUFFICES ASSUME ~plan.failures, NEW q \in Calls, Reconnected(q), Quiet(q)
             PROVE  \E i \in RowsOn("calendar", Bot(q)) : row[i].cfg.refresh = q /\ ~row[i].cfg.invalid
  BY DEF ReconnectKept, Reconnected, Quiet
<1> QED BY DEF KeptInv, HoldsOwn

\* Who is quiet after a step was so before.
LEMMA QuietWas ==
  ASSUME CallsOK, Times \/ \E r \in Calls : Advances(r), NEW q \in Calls, Begun(q), Quiet(q)'
  PROVE  Quiet(q)
<1>0. plan' = plan /\ \A r : Does(r)' = Does(r) /\ Bot(r)' = Bot(r) /\ TypesOf(r)' = TypesOf(r) BY PlanStays
<1>1. \A a, b \in Calls : Overlap(a, b) => Overlap(a, b)' BY OverlapStays
<1>2. call'[q].since = call[q].since /\ \A x \in Calls : Begun(x) => Begun(x)' BY TurnSince DEF Times, Begun
<1>3. \A x : Reconnects(x, Bot(q)) => Reconnects(x, Bot(q))' BY <1>0, HandledStays DEF Reconnects
<1> QED BY <1>0, <1>1, <1>2, <1>3 DEF Quiet, Racing

\* Who may not be on the way while a call is quiet.
LEMMA QuietApart ==
  ASSUME CallsOK, NEW q \in Calls, call[q].pc \in Over, NEW r \in Calls, Advances(r), Quiet(q)'
  PROVE  r # q /\ ~Reconnects(r, Bot(q))
<1>0. plan' = plan /\ \A x : Does(x)' = Does(x) /\ Bot(x)' = Bot(x) /\ TypesOf(x)' = TypesOf(x) BY PlanStays
<1>1. r # q BY DEF Advances, Begun, Alive, Over
<1>2. ASSUME Reconnects(r, Bot(q))  PROVE FALSE
 <2>1. Reconnects(r, Bot(q))' BY <1>0, <1>2, HandledStays DEF Reconnects
 <2>2. r \in call'[q].since BY <1>1, <2>1 DEF Quiet, Advances
 <2>3. call'[q] = call[q] BY <1>1 DEF Advances
 <2> QED BY <2>2, <2>3, TurnNew DEF Advances, CallsOK, OverNow, Alive
<1> QED BY <1>1, <1>2

\* What is held stays so while the call is quiet.
LEMMA HeldOn ==
  ASSUME CallsOK, IntegrationBase, KeptInv, ~plan.failures, NEW r \in Calls, IntegrationStep(r), Advances(r),
         NEW q \in Calls, Reconnected(q), call[q].pc \in Over, Quiet(q)', NEW i \in DOMAIN row, HoldsOwn(q, i)
  PROVE  HoldsOwn(q, i)'
<1>0. /\ plan' = plan /\ (\A x : Does(x)' = Does(x) /\ Bot(x)' = Bot(x) /\ TypesOf(x)' = TypesOf(x))
      /\ r # q /\ ~Reconnects(r, Bot(q)) /\ plan \in Plans
  BY PlanStays, QuietApart DEF IntegrationBase
<1>1. i \in Live /\ row[i].type = "calendar" /\ row[i].cfg.bot = Bot(q) /\ row[i].live BY DEF HoldsOwn, RowsOn, Live
<1>2. i \in DOMAIN row' /\ RowAfter(i, r) BY <1>1, StepRows, IntegrationKept DEF Kept, RowsGrowOn, Live
<1>3. row'[i].live
 <2>1. "calendar" \notin PageTypes BY DEF PageTypes
 <2>2. ~TakesAway(r, row[i]) BY <1>0, <1>1, <2>1 DEF TakesAway, Reconnects, Leaves
 <2> QED BY <1>1, <2>2, StepDrops
<1>4. /\ row'[i].type = "calendar" /\ row'[i].cfg.bot = Bot(q)
      /\ row'[i].cfg.refresh = q /\ ~row'[i].cfg.invalid
 <2>1. CASE Like(i, r) BY <1>1, <2>1 DEF Like, HoldsOwn
 <2>2. CASE Written(i, r)
  <3>1. i # Len(row) + 1
   <4>1. row \in Seq(RowType) /\ DOMAIN row = 1..Len(row) /\ Len(row) \in Nat
     BY LenProperties DEF IntegrationBase, IntegrationTypes, RowsTyped
   <4> QED BY <4>1
  <3>2. UpsertHolds(r) /\ Loc(r).row = i /\ i # 0 /\ Does(r).op \in Upserts /\ call[r].pc = "write"
   <4>1. row \in Seq(RowType) /\ DOMAIN row = 1..Len(row) /\ Len(row) \in Nat
     BY LenProperties DEF IntegrationBase, IntegrationTypes, RowsTyped
   <4> QED BY <2>2, <3>1, <4>1 DEF Written, IntegrationBase, IntegrationHolds, Place
  <3>3. Head(Loc(r).left) = "calendar" /\ "calendar" \in TypesOf(r) /\ (Does(r).op \in Connects => Bot(r) = Bot(q) \/ Handled("calendar"))
    BY <1>1, <3>2, LeftIs DEF UpsertHolds
  <3> QED BY <1>0, <3>2, <3>3 DEF Reconnects, Upserts, ByHand
 <2>4. CASE Sent(i, r)
  <3>1. ByRowHolds(r) /\ Does(r).op = "update" /\ call[r].pc = "apply" /\ Loc(r).row = i
    BY <2>4 DEF Sent, IntegrationBase, IntegrationHolds, Place
  <3>2. Types(r) \in Seq(RowTypes) /\ Types(r) # <<>> /\ Head(Types(r)) = "calendar"
    BY <1>0, <1>1, <3>1, CallTold DEF ByRowHolds, ByRow
  <3>3. "calendar" \in TypesOf(r) BY <3>2, LeftIs DEF TypesOf
  <3> QED BY <1>0, <3>1, <3>3 DEF Reconnects, ByHand
 <2>3. CASE Renewed(i, r)
  <3>1. Refreshes(r) /\ Loc(r).row = i /\ TokenHolds(r)
    BY <2>3 DEF Renewed, Refreshes, IntegrationBase, IntegrationHolds, Place
  <3>2. call[r].pc = "store" /\ row'[i].cfg = Loc(r).cfg /\ Loc(r).cfg.refresh = q /\ Bot(r) = Bot(q)
    BY <2>3, <3>1 DEF HoldsOwn, Renewed
  <3> QED BY <1>1, <2>3, <3>1, <3>2 DEF TokenHolds, Renewed, Refreshes
 <2> QED BY <1>2, <2>1, <2>2, <2>3, <2>4 DEF RowAfter
<1>5. i \in RowsOn("calendar", Bot(q))' BY <1>0, <1>2, <1>3, <1>4 DEF RowsOn, Live
<1> DEFINE Holds(s) == /\ call'[s].pc # "invalidate" /\ Loc(s)'.cfg.refresh = q /\ Bot(s) = Bot(q)
                       /\ call'[s].pc = "refresh" => client' = q
<1>6. ASSUME Refreshes(r)', Loc(r)'.row = i
      PROVE  Holds(r)
 <2>1. ASSUME NEW k \in Live, Reads(r, k)  PROVE Holds(r)
  <3>1. Loc(r)' = [row |-> k, cfg |-> row[k].cfg] BY <2>1, EnteredAt DEF Loc, Reads
  <3>2. k = i /\ row[i].cfg.refresh = q /\ q # None BY <1>6, <3>1, NoneIsApart DEF HoldsOwn
  <3>3. call'[r].pc = "refresh" /\ client' = q /\ Bot(r) = Bot(q) BY <1>1, <2>1, <3>2, EnteredAt DEF Reads
  <3> QED BY <3>1, <3>2, <3>3
 <2>2. ASSUME Does(r).op = "token", Went(r, "refresh", "store", [Loc(r) EXCEPT !.cfg = [@ EXCEPT !.refresh = client, !.due = FALSE]])
       PROVE  Holds(r)
  <3>1. /\ call[r].pc = "refresh" /\ call'[r].pc = "store"
        /\ Loc(r)' = [Loc(r) EXCEPT !.cfg = [@ EXCEPT !.refresh = client, !.due = FALSE]]
    BY <2>2, WentAt DEF Loc
  <3>2. TokenHolds(r) BY DEF IntegrationBase, IntegrationHolds, Place
  <3>3. Loc(r) \in [row : Nat, cfg : ConfigType] BY <2>2, <3>1, <3>2 DEF TokenHolds
  <3>4. Loc(r)'.cfg.refresh = client /\ Loc(r)'.row = Loc(r).row BY <3>1, <3>3 DEF ConfigType
  <3>5. client = q /\ Bot(r) = Bot(q) BY <1>6, <2>2, <3>1, <3>4 DEF HoldsOwn, Refreshes
  <3> QED BY <3>1, <3>4, <3>5
 <2>3. ASSUME ~row[Loc(r).row].live, Went(r, "store", "invalidate", Loc(r))
       PROVE  Holds(r)
  <3>1. Loc(r)' = Loc(r) BY <2>3, WentAt DEF Loc
  <3> QED BY <1>1, <1>6, <2>3, <3>1
 <2> QED BY <1>6, <2>1, <2>2, <2>3, TokenMoves
<1>7. ASSUME NEW s \in Calls, s # r, Refreshes(s)', Loc(s)'.row = i
      PROVE  Holds(s)
 <2>1. call'[s] = call[s] /\ Loc(s)' = Loc(s) /\ Refreshes(s) BY <1>0, <1>7 DEF Advances, Loc, Refreshes
 <2>2. call[s].pc # "invalidate" /\ Loc(s).cfg.refresh = q /\ Bot(s) = Bot(q) /\ (call[s].pc = "refresh" => client = q)
   BY <1>7, <2>1 DEF HoldsOwn
 <2>3. client' = client
  <3> SUFFICES ASSUME client' # client  PROVE FALSE OBVIOUS
  <3>1. PICK k \in Live : Does(r).op = "token" /\ Entered(r, "refresh", [row |-> k, cfg |-> row[k].cfg])
    BY TokenMoves DEF Reads
  <3>2. ~Begun(r) /\ Alive(s) BY <2>1, <3>1, EnteredAt DEF Refreshes, Alive, Begun, Over
  <3>3. Overlap(s, r)' BY <3>2, NewOverlaps
  <3> QED BY <1>0, <2>1, <3>1, <3>3 DEF Quiet, Refreshes
 <2> QED BY <2>1, <2>2, <2>3
<1> QED BY <1>0, <1>4, <1>5, <1>6, <1>7 DEF HoldsOwn

\* A call that has connected holds its own.
LEMMA HeldFirst ==
  ASSUME CallsOK, IntegrationBase, NEW q \in Calls, IntegrationStep(q), Advances(q), Does(q).op = "connectCalendar",
         call'[q].end = "connected", Alive(q) => call[q].end = None, Quiet(q)'
  PROVE  \E i \in DOMAIN row' : HoldsOwn(q, i)'
<1>0. Formed /\ plan' = plan /\ (\A x : Does(x)' = Does(x) /\ Bot(x)' = Bot(x)) /\ plan \in Plans
  BY PlanStays DEF CallsOK, IntegrationBase
<1> USE DEF Upserts, Connects, Leaves, ByRow, Synced
<1>1. WriteRow(q) /\ Ended(q, "write", "connected")
 <2>0. Alive(q) \/ ~Begun(q) BY DEF Advances
 <2>1. ASSUME NEW from, NEW to, NEW loc, Went(q, from, to, loc)  PROVE FALSE
  <3>1. call'[q].end = call[q].end /\ (~Begun(q) => call[q].end = None) BY <2>1, WentAt DEF CallsOK, Idle
  <3> QED BY <2>0, <3>1, NoneIsNoConnection
 <2>2. ASSUME NEW pc, NEW loc, Entered(q, pc, loc)  PROVE FALSE BY <2>2, EnteredAt, NoneIsNoConnection
 <2>3. ASSUME NEW end, Answered(q, end), end # "connected"  PROVE FALSE BY <2>3, AnsweredAt
 <2>4. ASSUME NEW from, NEW end, Ended(q, from, end), end # "connected"  PROVE FALSE BY <2>4, EndedAt
 <2>5. ~SubscribePage(q) /\ ~ExchangeCode(q) BY <1>0, <2>2, <2>3, SubscribePageIs, ExchangeCodeIs
 <2>6. ~FindRow(q) BY <1>0, <2>1, FindRowIs
 <2>7. ~FindLeaving(q) /\ ~FindDeauthorized(q) /\ ~Release(q) /\ ~DeleteRows(q) /\ ~FindById(q) /\ ~ApplyById(q)
       /\ ~ReadPayload(q) /\ ~PushPayload(q) /\ ~ReadToken(q) /\ ~refreshAccessToken(q) /\ ~StoreToken(q) /\ ~MarkInvalid(q)
   BY <1>0, FindLeavingIs, FindDeauthorizedIs, ReleaseIs, DeleteRowsIs, FindByIdIs, ApplyByIdIs, ReadPayloadIs, PushPayloadIs,
      ReadTokenIs, RefreshIs, StoreTokenIs, MarkInvalidIs
 <2>8. ~createAuthorizationCode(q) /\ ~FindCode(q) /\ ~UseCode(q) /\ ~disconnectShop(q)
   BY <1>0, ConsentIs, FindCodeIs, UseCodeIs, DisconnectShopIs DEF IntegrationBase, IntegrationTypes
 <2>9. ~Dies(q)
  <3>1. Dies(q) => Alive(q) /\ call'[q].end = call[q].end BY <1>0, DiesBecomes DEF Becomes
  <3> QED BY <3>1, NoneIsNoConnection
 <2>10. WriteRow(q) BY <2>5, <2>6, <2>7, <2>8, <2>9, IntegrationActs
 <2> QED BY <1>0, <2>1, <2>4, <2>10, WriteRowIs DEF Proceeds
<1>2. PICK i \in 1..(Len(row) + 1) : Wrote(q, i)
 <2>1. ~Ended(q, "write", "failed") BY <1>1, EndedAt
 <2> QED BY <1>0, <1>1, <2>1, WriteRowIs
<1>3. Alive(q) /\ call[q].pc = "write" /\ UpsertHolds(q)
  BY <1>1, EndedAt DEF Ended, Alive, Begun, Over, IntegrationBase, IntegrationHolds, Place
<1>4. Head(Loc(q).left) = "calendar"
 <2>1. Head(Loc(q).left) \in TypesOf(q) BY <1>3, LeftIs DEF UpsertHolds
 <2> QED BY <1>0, <2>1, CallTold
<1>5. /\ i \in DOMAIN row' /\ row'[i].live /\ row'[i].type = "calendar" /\ row'[i].cfg.bot = Bot(q)
      /\ row'[i].cfg.refresh = q /\ ~row'[i].cfg.invalid
 <2>1. row'[i].cfg = NewConfig(q) BY <1>2 DEF Wrote, Rewritten
 <2> QED BY <1>0, <1>2, <1>4, <2>1, NewConfigIs DEF Wrote, Puts
<1>6. ASSUME NEW r \in Calls, Refreshes(r)'  PROVE FALSE
 <2>1. r # q /\ call'[r] = call[r] /\ Refreshes(r) BY <1>0, <1>6 DEF Refreshes, Advances
 <2>2. Alive(r) BY <2>1 DEF Refreshes, Alive, Begun, Over
 <2>3. Overlap(q, r)' BY <1>3, <2>1, <2>2, BothOverlap, OverlapStays
 <2> QED BY <1>0, <2>1, <2>3 DEF Quiet, Racing, Refreshes
<1> QED BY <1>0, <1>5, <1>6 DEF HoldsOwn, RowsOn, Live

\* The calendar is kept by a step of the connections.
LEMMA KeptStep ==
  ASSUME CallsOK, IntegrationBase, KeptInv, NEW r \in Calls, IntegrationStep(r), Advances(r)
  PROVE  KeptInv'
<1>0. plan' = plan /\ \A x : Does(x)' = Does(x) /\ Bot(x)' = Bot(x) BY PlanStays
<1> SUFFICES ASSUME ~plan.failures
             PROVE  \A q \in Calls : Reconnected(q)' /\ Quiet(q)' => \E i \in DOMAIN row' : HoldsOwn(q, i)'
  BY <1>0 DEF KeptInv
<1>1. RowsGrowOn BY IntegrationKept DEF Kept
<1>3. ASSUME NEW q \in Calls, Reconnected(q)', Quiet(q)'
      PROVE  \E i \in DOMAIN row' : HoldsOwn(q, i)'
 <2>0. EndHolds(q) /\ Does(q).op \in IntegrationOps
   BY <1>0, <1>3 DEF IntegrationBase, IntegrationHolds, Place, Reconnected, IntegrationOps, Upserts, Connects
 <2>1. CASE q = r
  <3>1. Alive(q) => call[q].end = None BY <2>0 DEF EndHolds
  <3> QED BY <1>0, <1>3, <2>1, <3>1, HeldFirst DEF Reconnected
 <2>2. CASE q # r
  <3>1. Reconnected(q) /\ call'[q] = call[q] BY <1>0, <1>3, <2>2 DEF Reconnected, Advances
  <3>2. Begun(q) /\ call[q].pc \in Over
    BY <2>0, <3>1, NoneIsNoConnection DEF Reconnected, EndHolds, Alive, CallsOK, Idle
  <3>3. PICK i \in DOMAIN row : HoldsOwn(q, i) BY <1>3, <3>1, <3>2, QuietWas DEF KeptInv
  <3>4. HoldsOwn(q, i)' BY <1>3, <3>1, <3>2, <3>3, HeldOn
  <3> QED BY <1>1, <3>4 DEF RowsGrowOn
 <2> QED BY <2>1, <2>2
<1> QED BY <1>3

\* Where rows keep what matters of them.
LEMMA KeptStays ==
  ASSUME CallsOK, IntegrationBase, KeptInv, Times \/ \E q \in Calls : Advances(q), client' = client,
         \A r \in Calls : Does(r).op \in IntegrationOps => call'[r] = call[r], DOMAIN row' = DOMAIN row,
         \A i \in DOMAIN row : /\ row'[i].type = row[i].type /\ row'[i].live = row[i].live
                               /\ row'[i].cfg.bot = row[i].cfg.bot /\ row'[i].cfg.refresh = row[i].cfg.refresh
                               /\ row'[i].cfg.invalid = row[i].cfg.invalid
  PROVE  KeptInv'
<1>0. plan' = plan /\ \A r : Bot(r)' = Bot(r) /\ Does(r)' = Does(r) BY PlanStays
<1>1. ASSUME NEW r \in Calls, Does(r).op = "token"
      PROVE  call'[r] = call[r] /\ Loc(r)' = Loc(r) /\ (Refreshes(r)' <=> Refreshes(r))
             /\ (Refreshes(r) => Loc(r).row \in DOMAIN row)
 <2>1. TokenHolds(r) BY DEF IntegrationBase, IntegrationHolds, Place
 <2> QED BY <1>0, <1>1, <2>1 DEF IntegrationOps, Loc, Refreshes, TokenHolds
<1>3. ASSUME ~plan.failures, NEW q \in Calls, Reconnected(q)', Quiet(q)'
      PROVE  \E i \in DOMAIN row' : HoldsOwn(q, i)'
 <2>1. call'[q] = call[q] /\ Reconnected(q) BY <1>0, <1>3 DEF Reconnected, IntegrationOps, Upserts, Connects
 <2>2. Begun(q) BY <2>1, NoneIsNoConnection DEF Reconnected, CallsOK, Idle
 <2>3. PICK i \in DOMAIN row : HoldsOwn(q, i) BY <1>3, <2>1, <2>2, QuietWas DEF KeptInv
 <2>4. i \in RowsOn("calendar", Bot(q))' BY <1>0, <2>3 DEF HoldsOwn, RowsOn, Live
 <2>5. HoldsOwn(q, i)' BY <1>0, <1>1, <2>3, <2>4 DEF HoldsOwn, Refreshes
 <2> QED BY <2>5
<1> QED BY <1>0, <1>3 DEF KeptInv

\* After a step of another service.
LEMMA KeptElsewhere ==
  ASSUME CallsOK, IntegrationBase, KeptInv, Elsewhere
  PROVE  KeptInv'
  BY ElsewhereIs, KeptStays DEF Elsewhere

\* After time has passed.
LEMMA KeptClock ==
  ASSUME CallsOK, IntegrationBase, KeptInv, IntegrationClock, Times
  PROVE  KeptInv'
<1>0. RowsTyped BY DEF IntegrationBase, IntegrationTypes
<1>1. CASE TokenExpires
 <2>1. PICK i \in Live : Expired(i) BY <1>0, <1>1, TokenExpiresIs
 <2>2. row[i] \in RowType /\ i \in DOMAIN row /\ row[i].live BY <1>0, ElementOfSeq DEF RowsTyped, Live
 <2>3. row'[i].cfg.bot = row[i].cfg.bot /\ row'[i].cfg.refresh = row[i].cfg.refresh /\ row'[i].cfg.invalid = row[i].cfg.invalid
   BY <2>1, <2>2 DEF Expired, RowType, ConfigType
 <2> QED BY <1>1, <2>1, <2>2, <2>3, KeptStays DEF Expired, Puts, TokenExpires, Times
<1>2. CASE UNCHANGED <<row, client>> BY <1>2, KeptStays DEF Times
<1> QED BY <1>1, <1>2 DEF IntegrationClock

\* What is connected before.
LEMMA FirstRows ==
  ASSUME plan \in Plans, row = plan.rows
  PROVE  /\ RowsTyped
         /\ \A i \in DOMAIN row :
              /\ row[i].cfg.bot = row[i].bot /\ row[i].cfg.refresh = row[i].bot /\ row[i].cfg.by = None
              /\ row[i].type \in PageTypes => row[i].cfg.page \in Pages2
         /\ \A i, k \in DOMAIN row :
              row[i].type = row[k].type /\ (row[i].bot = row[k].bot \/ row[i].type \notin {"calendar", "database"}) => i = k
<1> DEFINE First == [type : RowTypes, bot : Bots, off : BOOLEAN, live : {TRUE}, cfg : Config]
<1>1. row \in Seq(First) BY RowsAreTold
<1>2. \A i \in DOMAIN row :
        /\ row[i].cfg.bot = row[i].bot /\ row[i].cfg.refresh = row[i].bot
        /\ row[i].type \in PageTypes => row[i].cfg.page # None
  BY RowsAreTold
<1>3. \A i, k \in DOMAIN row :
        row[i].type = row[k].type /\ (row[i].cfg.bot = row[k].cfg.bot \/ row[i].type \notin {"calendar", "database"}) => i = k
  BY RowsAreTold
<1>4. First \subseteq RowType BY DEF RowType, ConfigType, Config
<1> HIDE DEF First
<1>5. RowsTyped BY <1>1, <1>4, SeqOfPart DEF RowsTyped
<1>6. ASSUME NEW i \in DOMAIN row  PROVE row[i].cfg.by = None /\ row[i].cfg.page \in Pages2 \cup {None}
 <2>1. row[i] \in First BY <1>1, ElementOfSeq
 <2> QED BY <2>1 DEF First, Config
<1> QED BY <1>2, <1>3, <1>5, <1>6

\* Where the connections start.
LEMMA IntegrationInit ==
  ASSUME CallsInit, IntegrationsInit
  PROVE  CallsOK /\ IntegrationBase /\ OneInv /\ CodeInv /\ ForeignInv /\ KeptInv
<1>0. plan \in Plans /\ row = plan.rows /\ call = [q \in Calls |-> Idle] /\ client = None /\ code = [q \in Calls |-> None]
  BY DEF CallsInit, IntegrationsInit
<1>1. \A q \in Calls : call[q] = Idle /\ call[q].pc = "new" /\ call[q].end = None /\ call[q].since = {} /\ ~Begun(q)
  BY <1>0 DEF Idle, Begun
<1>2. CallsOK BY <1>0, <1>1 DEF CallsOK, Formed, OverNow, Idle, Begun
<1>3. /\ RowsTyped
      /\ \A i \in DOMAIN row :
           /\ row[i].cfg.bot = row[i].bot /\ row[i].cfg.refresh = row[i].bot
           /\ row[i].type \in PageTypes => row[i].cfg.page \in Pages2
  BY <1>0, FirstRows
<1>4. \A i, k \in DOMAIN row :
        row[i].type = row[k].type /\ (row[i].bot = row[k].bot \/ row[i].type \notin {"calendar", "database"}) => i = k
  BY <1>0, FirstRows
<1>7. IntegrationTypes
 <2>1. subscribed \subseteq Pages2 BY <1>0, <1>3 DEF IntegrationsInit
 <2> QED BY <1>0, <1>3, <2>1 DEF IntegrationTypes
<1>8. IntegrationBase
  BY <1>0, <1>1, <1>7, NoneIsNoConnection DEF IntegrationBase, IntegrationHolds, Place, UpsertHolds, LeaveHolds, ByRowHolds, TokenHolds, EndHolds
<1>9. OneInv
 <2>1. ASSUME NEW i \in DOMAIN row, NEW k \in DOMAIN row, row[i].type = row[k].type, Key(i) = Key(k)
       PROVE  i = k
  <3>1. row[i].bot = row[k].bot \/ row[i].type = "shopify" BY <1>3, <2>1 DEF Key
  <3> QED BY <1>4, <2>1, <3>1
 <2>2. OneRowUnlessRacing BY <2>1 DEF OneRowUnlessRacing, Live
 <2> QED BY <1>1, <2>2 DEF OneInv, RowRival
<1>10. CodeInv BY <1>0, <1>1, NoneIsNoConnection DEF CodeInv, CodeOnceUnlessRacing
<1>11. ForeignInv BY <1>1, <1>3 DEF ForeignInv, OwnRows, OwnTokens, Refreshes, Own, Grants
<1>12. KeptInv BY <1>1, NoneIsNoConnection DEF KeptInv, Reconnected
<1> QED BY <1>2, <1>8, <1>9, <1>10, <1>11, <1>12

\* What holds of the connections, by any step of the system.
ConnectionInv == IntegrationBase /\ OneInv /\ CodeInv /\ ForeignInv /\ KeptInv

\* Every step of the system keeps all five.
LEMMA ConnectionSystem ==
  ASSUME CallsOK, ConnectionInv, [ServicesNext]_servicesVars
  PROVE  ConnectionInv'
<1>1. CASE IntegrationClock /\ Times
 <2>1. OneInv' BY <1>1, ClockKept, OneStill DEF ConnectionInv, RowsFewer
 <2> QED BY <1>1, <2>1, ClockKept, CodeClock, ForeignClock, KeptClock DEF ConnectionInv
<1>2. CASE Elsewhere
  BY <1>2, ElsewhereKept, OneElsewhere, CodeElsewhere, ForeignElsewhere, KeptElsewhere DEF ConnectionInv
<1>3. ASSUME NEW q \in Calls, IntegrationStep(q), Advances(q)
      PROVE  ConnectionInv'
  BY <1>3, IntegrationKept, OneStep, CodeStep, ForeignStep, KeptStep DEF ConnectionInv, Kept
<1> QED BY <1>1, <1>2, <1>3, IntegrationSystem

\* A connection is one row with its own grant, and a shop's code one token:
\* whatever the teams, the pods and the other services do meanwhile.
THEOREM ServicesOneConnection == ServicesSpec => []OneConnection
<1>1. ServicesInit => CallsOK /\ ConnectionInv BY IntegrationInit DEF ServicesInit, ConnectionInv
<1>2. CallsOK /\ ConnectionInv /\ [ServicesNext]_servicesVars => (CallsOK /\ ConnectionInv)'
  BY SystemCalls, ConnectionSystem
<1>3. CallsOK /\ ConnectionInv => OneConnection
  BY ForeignThen, KeptThen DEF ConnectionInv, OneConnection, OneInv, CodeInv
<1> QED BY <1>1, <1>2, <1>3, PTL DEF ServicesSpec

(* What is outside agrees with the rows. *)
\* Who moves is known to be over by nobody.
LEMMA ActorUnknown ==
  ASSUME CallsOK, NEW q \in Calls, Advances(q), NEW x \in Calls
  PROVE  q \notin call[x].since /\ q \notin call'[x].since
<1>1. q \notin OverNow BY DEF Advances, OverNow, Alive, Begun, Over
<1> QED BY <1>1 DEF CallsOK, Advances

\* Time, and the other services, leave a row's owner, type and life.
LEMMA ClockRows ==
  ASSUME IntegrationBase, IntegrationClock, Times
  PROVE  /\ DOMAIN row' = DOMAIN row /\ UNCHANGED <<subscribed, gateway, plan, call>>
         /\ \A i \in DOMAIN row : /\ row'[i].type = row[i].type /\ row'[i].live = row[i].live
                                  /\ row'[i].cfg.fb = row[i].cfg.fb /\ row'[i].cfg.by = row[i].cfg.by
<1>0. RowsTyped /\ UNCHANGED <<plan, call>> BY DEF IntegrationBase, IntegrationTypes, Times
<1>1. CASE TokenExpires
 <2>1. PICK i \in Live : Expired(i) BY <1>0, <1>1, TokenExpiresIs
 <2>2. row[i] \in RowType /\ i \in DOMAIN row /\ row[i].live BY <1>0, ElementOfSeq DEF RowsTyped, Live
 <2>3. row'[i].cfg.fb = row[i].cfg.fb /\ row'[i].cfg.by = row[i].cfg.by
   BY <2>1, <2>2 DEF Expired, RowType, ConfigType
 <2> QED BY <1>0, <1>1, <2>1, <2>2, <2>3 DEF Expired, Puts, TokenExpires
<1>2. CASE UNCHANGED <<row, client, subscribed, gateway>> BY <1>0, <1>2
<1> QED BY <1>1, <1>2 DEF IntegrationClock

\* A configuration after a step: as it was, or of the call that made it, or with new tokens.
LEMMA StepWriters ==
  ASSUME CallsOK, IntegrationBase, NEW q \in Calls, IntegrationStep(q), NEW k \in DOMAIN row'
  PROVE  Like(k, q) \/ row'[k].cfg.by = q \/ Renewed(k, q)
<1>0. plan \in Plans /\ RowsTyped BY DEF IntegrationBase, IntegrationTypes
<1>1. ASSUME k \in Live  PROVE k \in DOMAIN row /\ row[k].live /\ row[k].cfg \in ConfigType
 <2>1. k \in DOMAIN row /\ row[k].live BY <1>1 DEF Live
 <2>2. row[k] \in RowType BY <1>0, <2>1, ElementOfSeq DEF RowsTyped
 <2> QED BY <2>1, <2>2 DEF RowType
<1>2. ASSUME k \in Live, Does(q).op \in ByHand, row'[k].type = row[k].type, row'[k].cfg = Sends(q, row[k].cfg)
      PROVE  Like(k, q) \/ row'[k].cfg.by = q
  BY <1>0, <1>1, <1>2, SendsIs DEF Like
<1>3. CASE Written(k, q)
 <2>1. CASE row'[k].cfg = NewConfig(q) BY <1>0, <1>3, <2>1, NewConfigIs DEF Written
 <2>2. CASE k \in Live /\ row'[k].type = row[k].type /\ row'[k].cfg = Rewritten(row[k].cfg, q)
  <3>1. CASE Does(q).op = "create" BY <1>0, <1>1, <1>2, <1>3, <2>2, <3>1, RewrittenIs DEF Written, ByHand
  <3>2. CASE Does(q).op \in Connects BY <1>0, <1>1, <1>3, <2>2, <3>2, RewrittenIs, NewConfigIs DEF Written
  <3> QED BY <1>3, <3>1, <3>2 DEF Written, Upserts
 <2> QED BY <1>3, <2>1, <2>2 DEF Written
<1>4. CASE Sent(k, q) BY <1>2, <1>4 DEF Sent, ByHand
<1> QED BY <1>3, <1>4, StepRows DEF RowAfter

(* A shop that is gone. *)
LEMMA ShopStep ==
  ASSUME CallsOK, IntegrationBase, ShopGone, NEW q \in Calls, IntegrationStep(q), Advances(q)
  PROVE  ShopGone'
<1>0. Formed /\ RowsTyped /\ plan' = plan /\ (\A x : Does(x)' = Does(x)) /\ \A x \in Calls : Begun(x) => call'[x].since = call[x].since
  BY PlanStays, TurnSince DEF CallsOK, IntegrationBase, IntegrationTypes
<1> SUFFICES ASSUME NEW x \in Calls, Does(x).op = "unlinkShop", call'[x].pc = "done", NEW i \in ShopRows'
             PROVE  row'[i].cfg.by # None /\ row'[i].cfg.by \notin call'[x].since
  BY <1>0 DEF ShopGone
<1>1. i \in DOMAIN row' /\ row'[i].live /\ row'[i].type = "shopify" BY DEF ShopRows, Live
<1>2. CASE x # q
 <2>1. call'[x] = call[x] BY <1>2 DEF Advances
 <2>2. q # None /\ q \notin call'[x].since BY ActorUnknown, NoneIsApart
 <2>3. CASE Like(i, q)
  <3>1. i \in ShopRows BY <1>1, <2>3 DEF Like, ShopRows, Live
  <3> QED BY <2>1, <2>2, <2>3, <3>1 DEF Like, ShopGone
 <2>4. CASE row'[i].cfg.by = q BY <2>2, <2>4
 <2>5. ~Renewed(i, q) BY <1>1 DEF Renewed
 <2> QED BY <1>1, <2>3, <2>4, <2>5, StepWriters
<1>3. CASE x = q
 <2>1. disconnectShop(q)
  <3>1. ~Dies(q) BY <1>0, <1>3, DiesBecomes DEF Becomes
  <3>2. ~SubscribePage(q) /\ ~ExchangeCode(q) /\ ~FindRow(q) /\ ~WriteRow(q) /\ ~FindLeaving(q) /\ ~FindDeauthorized(q)
        /\ ~Release(q) /\ ~DeleteRows(q)
    BY <1>0, <1>3, SubscribePageIs, ExchangeCodeIs, FindRowIs, WriteRowIs, FindLeavingIs, FindDeauthorizedIs, ReleaseIs, DeleteRowsIs
    DEF Upserts, Connects, Leaves
  <3>3. ~FindById(q) /\ ~ApplyById(q) /\ ~ReadPayload(q) /\ ~PushPayload(q)
    BY <1>0, <1>3, FindByIdIs, ApplyByIdIs, ReadPayloadIs, PushPayloadIs DEF ByRow, Synced
  <3>4. ~ReadToken(q) /\ ~refreshAccessToken(q) /\ ~StoreToken(q) /\ ~MarkInvalid(q)
        /\ ~createAuthorizationCode(q) /\ ~FindCode(q) /\ ~UseCode(q)
    BY <1>0, <1>3, ReadTokenIs, RefreshIs, StoreTokenIs, MarkInvalidIs, ConsentIs, FindCodeIs, UseCodeIs
  <3> QED BY <3>1, <3>2, <3>3, <3>4, IntegrationActs
 <2>2. Drops(ShopRows) BY <1>0, <2>1, DisconnectShopIs
 <2>3. i \in DOMAIN row /\ row[i] \in RowType BY <1>0, <1>1, <2>2, ElementOfSeq DEF Drops, RowsTyped
 <2>4. i \notin ShopRows BY <1>1, <2>2, <2>3 DEF Drops, RowType
 <2>5. row'[i] = row[i] BY <2>2, <2>3, <2>4 DEF Drops
 <2> QED BY <1>1, <2>3, <2>4, <2>5 DEF ShopRows, Live
<1> QED BY <1>2, <1>3

\* And where rows keep who wrote them.
LEMMA ShopStays ==
  ASSUME CallsOK, ShopGone, Times \/ \E q \in Calls : Advances(q),
         \A r \in Calls : Does(r).op \in IntegrationOps => call'[r] = call[r], DOMAIN row' = DOMAIN row,
         \A i \in DOMAIN row : row'[i].type = row[i].type /\ row'[i].live = row[i].live /\ row'[i].cfg.by = row[i].cfg.by
  PROVE  ShopGone'
<1>0. \A x : Does(x)' = Does(x) BY PlanStays
<1>1. ShopRows' \subseteq ShopRows BY DEF ShopRows, Live
<1>2. \A i \in ShopRows' : i \in DOMAIN row BY DEF ShopRows, Live
<1> QED BY <1>0, <1>1, <1>2 DEF ShopGone, IntegrationOps

(* A person who left. *)
DeauthInv ==
  \A x \in Calls : Does(x).op = "deauthorize" /\ Begun(x) /\ call[x].pc # "dead" =>
    \A i \in Live : row[i].type \in PageTypes /\ row[i].cfg.fb =>
      \/ row[i].cfg.by # None /\ row[i].cfg.by \notin call[x].since
      \/ call[x].pc \in {"release", "delete"} /\ i \in Loc(x).rows

\* Who told the app to go has no row left.
LEMMA DeauthThen ==
  ASSUME DeauthInv
  PROVE  DeauthorizedGone
  BY DEF DeauthInv, DeauthorizedGone, Begun

\* The way of a call that tells a person left.
LEMMA DeauthMoves ==
  ASSUME CallsOK, IntegrationBase, NEW q \in Calls, IntegrationStep(q), Does(q).op = "deauthorize"
  PROVE  \/ row' = row /\ Loc(q)'.rows = CreatedBy /\ call'[q].pc = "release"
         \/ row' = row /\ call[q].pc = "release" /\ call'[q].pc = "delete" /\ Loc(q)' = Loc(q)
         \/ call[q].pc = "delete" /\ Drops(Loc(q).rows)
         \/ call'[q].pc = "dead"
<1>0. Formed BY DEF CallsOK
<1>1. CASE FindDeauthorized(q)
 <2>1. Entered(q, "release", [rows |-> CreatedBy, pages |-> Left(CreatedBy)]) /\ row' = row
   BY <1>0, <1>1, FindDeauthorizedIs DEF integrationVars
 <2>2. call'[q].pc = "release" /\ call'[q].loc = [rows |-> CreatedBy, pages |-> Left(CreatedBy)]
   BY <2>1, EnteredAt
 <2> QED BY <2>1, <2>2 DEF Loc
<1>2. CASE Release(q) BY <1>0, <1>2, ReleaseIs, WentAt DEF Loc
<1>3. CASE DeleteRows(q) BY <1>0, <1>3, DeleteRowsIs, EndedAt
<1>4. CASE Dies(q) BY <1>0, <1>4, DiesBecomes DEF Becomes
<1>5. ~SubscribePage(q) /\ ~ExchangeCode(q) /\ ~FindRow(q) /\ ~WriteRow(q) /\ ~FindLeaving(q) /\ ~disconnectShop(q)
  BY <1>0, SubscribePageIs, ExchangeCodeIs, FindRowIs, WriteRowIs, FindLeavingIs, DisconnectShopIs
  DEF Upserts, Connects, Leaves, IntegrationBase, IntegrationTypes
<1>6. ~FindById(q) /\ ~ApplyById(q) /\ ~ReadPayload(q) /\ ~PushPayload(q)
  BY <1>0, FindByIdIs, ApplyByIdIs, ReadPayloadIs, PushPayloadIs DEF ByRow, Synced
<1>7. ~ReadToken(q) /\ ~refreshAccessToken(q) /\ ~StoreToken(q) /\ ~MarkInvalid(q)
      /\ ~createAuthorizationCode(q) /\ ~FindCode(q) /\ ~UseCode(q)
  BY <1>0, ReadTokenIs, RefreshIs, StoreTokenIs, MarkInvalidIs, ConsentIs, FindCodeIs, UseCodeIs
<1> QED BY <1>1, <1>2, <1>3, <1>4, <1>5, <1>6, <1>7, IntegrationActs

\* That stays so by a step of the connections.
LEMMA DeauthStep ==
  ASSUME CallsOK, IntegrationBase, DeauthInv, NEW q \in Calls, IntegrationStep(q), Advances(q)
  PROVE  DeauthInv'
<1>0. Formed /\ RowsTyped /\ plan' = plan /\ (\A x : Does(x)' = Does(x)) /\ \A x \in Calls : Begun(x) => call'[x].since = call[x].since
  BY PlanStays, TurnSince DEF CallsOK, IntegrationBase, IntegrationTypes
<1> SUFFICES ASSUME NEW x \in Calls, Does(x).op = "deauthorize", Begun(x)', call'[x].pc # "dead",
                    NEW i \in Live', row'[i].type \in PageTypes, row'[i].cfg.fb
             PROVE  \/ row'[i].cfg.by # None /\ row'[i].cfg.by \notin call'[x].since
                    \/ call'[x].pc \in {"release", "delete"} /\ i \in Loc(x)'.rows
  BY <1>0 DEF DeauthInv
<1>1. i \in DOMAIN row' /\ row'[i].live /\ row'[i].type # "calendar" BY DEF Live, PageTypes
<1>2. CASE x # q
 <2>1. call'[x] = call[x] /\ Loc(x)' = Loc(x) /\ Begun(x) BY <1>2 DEF Advances, Begun, Loc
 <2>2. q # None /\ q \notin call'[x].since BY ActorUnknown, NoneIsApart
 <2>3. CASE Like(i, q)
  <3>1. i \in Live /\ row[i].type \in PageTypes /\ row[i].cfg.fb BY <1>1, <2>3 DEF Like, Live
  <3> QED BY <2>1, <2>2, <2>3, <3>1 DEF Like, DeauthInv
 <2>4. CASE row'[i].cfg.by = q BY <2>2, <2>4
 <2>5. ~Renewed(i, q) BY <1>1 DEF Renewed
 <2> QED BY <1>1, <2>3, <2>4, <2>5, StepWriters
<1>3. CASE x = q
 <2>1. CASE row' = row /\ Loc(q)'.rows = CreatedBy /\ call'[q].pc = "release"
   BY <1>1, <1>3, <2>1 DEF CreatedBy, Live
 <2>2. CASE row' = row /\ call[q].pc = "release" /\ call'[q].pc = "delete" /\ Loc(q)' = Loc(q)
  <3>1. Begun(q) /\ call'[q].since = call[q].since BY <1>0, <2>2 DEF Begun
  <3> QED BY <1>1, <1>3, <2>2, <3>1 DEF DeauthInv, Live
 <2>3. CASE call[q].pc = "delete" /\ Drops(Loc(q).rows)
  <3>1. Begun(q) /\ call'[q].since = call[q].since BY <1>0, <2>3 DEF Begun
  <3>2. i \in DOMAIN row /\ row[i] \in RowType BY <1>0, <1>1, <2>3, ElementOfSeq DEF Drops, RowsTyped
  <3>3. i \notin Loc(q).rows BY <1>1, <2>3, <3>2 DEF Drops, RowType
  <3>4. row'[i] = row[i] BY <2>3, <3>2, <3>3 DEF Drops
  <3> QED BY <1>1, <1>3, <2>3, <3>1, <3>2, <3>3, <3>4 DEF DeauthInv, Live
 <2> QED BY <1>3, <2>1, <2>2, <2>3, DeauthMoves
<1> QED BY <1>2, <1>3

\* And where rows keep who wrote them.
LEMMA DeauthStays ==
  ASSUME CallsOK, DeauthInv, Times \/ \E q \in Calls : Advances(q),
         \A r \in Calls : Does(r).op \in IntegrationOps => call'[r] = call[r], DOMAIN row' = DOMAIN row,
         \A i \in DOMAIN row : /\ row'[i].type = row[i].type /\ row'[i].live = row[i].live
                               /\ row'[i].cfg.fb = row[i].cfg.fb /\ row'[i].cfg.by = row[i].cfg.by
  PROVE  DeauthInv'
<1>0. \A x : Does(x)' = Does(x) BY PlanStays
<1>1. Live' = Live BY DEF Live
<1>2. \A i \in Live' : i \in DOMAIN row BY <1>1 DEF Live
<1> QED BY <1>0, <1>1, <1>2 DEF DeauthInv, IntegrationOps, Begun, Loc

\* Every step of the system keeps both.
LEMMA GoneSystem ==
  ASSUME CallsOK, IntegrationBase, ShopGone, DeauthInv, [ServicesNext]_servicesVars
  PROVE  ShopGone' /\ DeauthInv'
<1>1. CASE IntegrationClock /\ Times
 <2>1. \A r \in Calls : call'[r] = call[r] BY <1>1 DEF Times
 <2> QED BY <1>1, <2>1, ClockRows, ShopStays, DeauthStays
<1>2. CASE Elsewhere
 <2>1. row' = row /\ \A r \in Calls : Does(r).op \in IntegrationOps => call'[r] = call[r] BY <1>2, ElsewhereIs
 <2>2. Times \/ \E q \in Calls : Advances(q) BY <1>2 DEF Elsewhere
 <2> QED BY <2>1, <2>2, ShopStays, DeauthStays
<1>3. ASSUME NEW q \in Calls, IntegrationStep(q), Advances(q)
      PROVE  ShopGone' /\ DeauthInv'
  BY <1>3, ShopStep, DeauthStep
<1> QED BY <1>1, <1>2, <1>3, IntegrationSystem

\* What Meta or a shop took back is gone: no row that names the person who left,
\* and no link of the shop, from before is there, whatever comes in meanwhile.
THEOREM ServicesTakenBackIsGone == ServicesSpec => [](DeauthorizedGone /\ ShopGone)
<1>1. ServicesInit => CallsOK /\ ConnectionInv /\ ShopGone /\ DeauthInv
 <2> SUFFICES ASSUME ServicesInit  PROVE CallsOK /\ ConnectionInv /\ ShopGone /\ DeauthInv OBVIOUS
 <2>1. CallsOK /\ ConnectionInv BY IntegrationInit DEF ServicesInit, ConnectionInv
 <2>2. \A q \in Calls : call[q].pc = "new" /\ ~Begun(q) BY DEF ServicesInit, CallsInit, Idle, Begun
 <2> QED BY <2>1, <2>2 DEF ShopGone, DeauthInv
<1>2. CallsOK /\ ConnectionInv /\ ShopGone /\ DeauthInv /\ [ServicesNext]_servicesVars
      => (CallsOK /\ ConnectionInv /\ ShopGone /\ DeauthInv)'
  BY SystemCalls, ConnectionSystem, GoneSystem DEF ConnectionInv
<1>3. DeauthInv => DeauthorizedGone BY DeauthThen
<1> QED BY <1>1, <1>2, <1>3, PTL DEF ServicesSpec

(* The legal documents: versions, and what each step does to them. *)
TranslationType == [text : Texts \cup {None}, status : {"NEEDS_TRANSLATION", "TRANSLATED", "APPROVED"}, by : Calls \cup {None}]
VersionType == [doc : Docs, number : Nat, status : {"DRAFT", "PUBLISHED", "ARCHIVED", "GONE"}, source : Texts,
                reaccept : BOOLEAN, translation : TranslationType, by : Calls \cup {None}]
Asked(q) == Does(q).version
\* What the plan says of a call of the legal documents.
LEMMA EditTold ==
  ASSUME plan \in Plans, NEW q \in Calls, Does(q).op \in LegalOps
  PROVE  Slug(q) \in Docs /\ Does(q).text \in Texts /\ Does(q).reaccept \in BOOLEAN
  BY EditsAreTold DEF Does, Slug

\* One version is written, the others stay.
Rewrites(i, v) ==
  /\ i \in DOMAIN version /\ version' \in Seq(VersionType) /\ DOMAIN version' = DOMAIN version /\ version'[i] = v
  /\ \A k \in DOMAIN version \ {i} : version'[k] = version[k]

\* A version that is written where it is.
LEMMA RewritesThere ==
  ASSUME version \in Seq(VersionType), NEW i \in DOMAIN version, NEW v \in VersionType, version' = [version EXCEPT ![i] = v]
  PROVE  Rewrites(i, v)
  BY DEF Rewrites

\* What becomes of a version: nothing, or what the call at its place does.
Same(i) == i \in DOMAIN version /\ version'[i] = version[i]
Kin(i) == i \in DOMAIN version /\ version'[i].doc = version[i].doc /\ version'[i].number = version[i].number
Drafted(i, q) ==
  /\ Does(q).op = "draft" /\ call[q].pc = "create" /\ i = Len(version) + 1
  /\ NumberFree(Slug(q), Loc(q).number) /\ version'[i] = Draft(Slug(q), Loc(q).number, Does(q).text)
Writes(i, q) == Kin(i) /\ i = Asked(q) /\ i \in VersionsOf(Slug(q)) /\ call[q].pc = "write" /\ version'[i].status = version[i].status
                /\ version'[i].by = version[i].by /\ version'[i].reaccept = version[i].reaccept
Edited(i, q) ==
  /\ Does(q).op = "edit" /\ Writes(i, q)
  /\ version'[i].source = Does(q).text /\ version'[i].translation = version[i].translation
Retold(i, q) ==
  /\ Does(q).op = "translate" /\ Writes(i, q) /\ version'[i].source = version[i].source
  /\ version'[i].translation.text = Does(q).text /\ version'[i].translation.status = "TRANSLATED"
Seen(i, q) ==
  /\ Does(q).op = "approve" /\ Writes(i, q) /\ version'[i].source = version[i].source
  /\ version'[i].translation.text = version[i].translation.text /\ version'[i].translation.status = "APPROVED"
  /\ version'[i].translation.by = q
Turned(i, q) ==
  /\ Kin(i) /\ Does(q).op = "publish" /\ call[q].pc = "commit" /\ Asked(q) \in VersionsOf(Slug(q))
  /\ version'[Asked(q)].status = "PUBLISHED" /\ version'[Asked(q)].by = q
  /\ version'[i].source = version[i].source /\ version'[i].translation = version[i].translation
Released(i, q) == Turned(i, q) /\ i = Asked(q) /\ version'[i].status = "PUBLISHED" /\ version'[i].by = q
Replaced(i, q) ==
  /\ Turned(i, q) /\ i # Asked(q) /\ i \in Loc(q).archived /\ version'[i].status = "ARCHIVED"
  /\ version'[i].by = version[i].by /\ version'[i].reaccept = version[i].reaccept
Removed(i, q) ==
  /\ Kin(i) /\ Does(q).op = "deleteDoc" /\ version[i].doc = Slug(q) /\ version'[i].status = "GONE"
  /\ Unaccepted(Slug(q)) /\ \A k \in VersionsOf(Slug(q)) : version'[k].status = "GONE"
  /\ version'[i].source = version[i].source /\ version'[i].translation = version[i].translation /\ version'[i].by = version[i].by
VersionAfter(i, q) ==
  \/ Same(i) \/ Drafted(i, q) \/ Edited(i, q) \/ Retold(i, q) \/ Seen(i, q)
  \/ Released(i, q) \/ Replaced(i, q) \/ Removed(i, q)
VersionsAfter(q) ==
  /\ version' \in Seq(VersionType) /\ DOMAIN version \subseteq DOMAIN version'
  /\ \A i \in DOMAIN version' : VersionAfter(i, q)

\* Where no version changes.
LEMMA VersionsStay ==
  ASSUME version \in Seq(VersionType), version' = version, NEW q
  PROVE  VersionsAfter(q)
  BY DEF VersionsAfter, VersionAfter, Same

\* Where one does.
LEMMA VersionsRewritten ==
  ASSUME NEW q, NEW i, NEW v, Rewrites(i, v), VersionAfter(i, q)
  PROVE  VersionsAfter(q)
  BY DEF VersionsAfter, VersionAfter, Same, Rewrites

\* The fields of a version.
LEMMA VersionFields ==
  ASSUME version \in Seq(VersionType), NEW i \in DOMAIN version
  PROVE  /\ version[i] \in VersionType /\ version[i].doc \in Docs /\ version[i].number \in Nat
         /\ version[i].status \in {"DRAFT", "PUBLISHED", "ARCHIVED", "GONE"} /\ version[i].source \in Texts
         /\ version[i].translation \in TranslationType /\ version[i].by \in Calls \cup {None}
<1>1. version[i] \in VersionType BY ElementOfSeq
<1> QED BY <1>1 DEF VersionType

\* The state of one after a step.
LEMMA VersionFieldsThen ==
  ASSUME version' \in Seq(VersionType), NEW i \in DOMAIN version'
  PROVE  version'[i].status \in {"DRAFT", "PUBLISHED", "ARCHIVED", "GONE"}
<1>1. version'[i] \in VersionType BY ElementOfSeq
<1> QED BY <1>1 DEF VersionType

\* The steps of the administrators, as what they read and write.
LEMMA CreateDraftIs ==
  ASSUME Formed, plan \in Plans, version \in Seq(VersionType), NEW q \in Calls, CreateDraft(q), Loc(q).number \in Nat
  PROVE  /\ Does(q).op = "draft" /\ UNCHANGED <<doc, accepted>> /\ VersionsAfter(q)
         /\ \E end \in {"drafted", "failed"} : Ended(q, "create", end)
<1>0. Does(q).op = "draft" /\ call[q].pc = "create" BY DEF CreateDraft, At
<1> DEFINE v == Draft(Slug(q), Loc(q).number, Does(q).text)
<1>1. CASE NumberFree(Slug(q), Loc(q).number)
 <2>1. v \in VersionType
  <3>1. NoTranslation \in TranslationType BY DEF NoTranslation, TranslationType
  <3>2. Slug(q) \in Docs /\ Does(q).text \in Texts BY <1>0, EditTold DEF LegalOps, Admins
  <3> QED BY <3>1, <3>2 DEF Draft, VersionType
 <2>2. Ends(q, "drafted") /\ version' = Append(version, v) BY <1>1 DEF CreateDraft
 <2> HIDE DEF v
 <2>3. version' \in Seq(VersionType) /\ Len(version') = Len(version) + 1 /\ version'[Len(version) + 1] = v
       /\ (\A i \in 1..Len(version) : version'[i] = version[i])
   BY <2>1, <2>2, RowsGrow
 <2>4. DOMAIN version = 1..Len(version) /\ DOMAIN version' = 1..(Len(version) + 1) /\ Len(version) \in Nat BY <2>3
 <2>5. Drafted(Len(version) + 1, q) BY <1>0, <1>1, <2>3 DEF Drafted, v
 <2>6. VersionsAfter(q) BY <2>3, <2>4, <2>5 DEF VersionsAfter, VersionAfter, Same
 <2> QED BY <1>0, <2>2, <2>6, EndsEnded DEF CreateDraft
<1>2. CASE ~NumberFree(Slug(q), Loc(q).number) BY <1>0, <1>2, EndsEnded, VersionsStay DEF CreateDraft
<1> QED BY <1>1, <1>2

\* The step WriteContent, as what it reads and writes.
LEMMA WriteContentIs ==
  ASSUME Formed, plan \in Plans, version \in Seq(VersionType), NEW q \in Calls, WriteContent(q)
  PROVE  /\ Does(q).op \in {"edit", "translate"} /\ UNCHANGED <<doc, accepted>> /\ VersionsAfter(q)
         /\ \E end \in {"written", "failed"} : Ended(q, "write", end)
<1>0. Does(q).op \in {"edit", "translate"} /\ call[q].pc = "write" /\ Does(q).text \in Texts
  BY EditTold DEF WriteContent, At, LegalOps, Admins
<1>1. CASE Named(q) = {} BY <1>0, <1>1, EndsEnded, VersionsStay DEF WriteContent
<1>2. CASE Named(q) # {}
 <2> DEFINE i == Asked(q)
            r == IF Does(q).op = "edit" THEN [version[i] EXCEPT !.source = Does(q).text]
                 ELSE [version[i] EXCEPT !.translation = Translated(version[i].translation, Does(q).text)]
 <2>1. i \in VersionsOf(Slug(q)) /\ i \in DOMAIN version BY <1>2 DEF Named, Asked, VersionsOf
 <2>2. Ends(q, "written") /\ version' = [version EXCEPT ![i] = r]
  <3>1. CASE Does(q).op = "edit" BY <1>2, <2>1, <3>1 DEF WriteContent, Asked
  <3>2. CASE Does(q).op # "edit" BY <1>2, <2>1, <3>2 DEF WriteContent, Asked
  <3> QED BY <3>1, <3>2
 <2>3. version[i] \in VersionType /\ version[i].translation \in TranslationType BY <2>1, VersionFields
 <2>4. CASE Does(q).op = "edit"
  <3>1. r \in VersionType /\ r.source = Does(q).text /\ r.translation = version[i].translation
        /\ r.doc = version[i].doc /\ r.number = version[i].number /\ r.status = version[i].status /\ r.by = version[i].by
        /\ r.reaccept = version[i].reaccept
    BY <1>0, <2>3, <2>4 DEF VersionType
  <3> HIDE DEF r
  <3>2. Rewrites(i, r) BY <2>1, <2>2, <3>1, RewritesThere
  <3>3. Edited(i, q) BY <1>0, <2>1, <2>4, <3>1, <3>2 DEF Edited, Writes, Kin, Rewrites
  <3> QED BY <2>2, <3>2, <3>3, <1>0, VersionsRewritten, EndsEnded DEF VersionAfter, WriteContent
 <2>5. CASE Does(q).op = "translate"
  <3> DEFINE t == Translated(version[i].translation, Does(q).text)
  <3>1. t \in TranslationType /\ t.text = Does(q).text /\ t.status = "TRANSLATED"
    BY <1>0, <2>3 DEF Translated, TranslationType
  <3>2. r = [version[i] EXCEPT !.translation = t] BY <2>5
  <3> HIDE DEF t, r
  <3>3. r \in VersionType /\ r.source = version[i].source /\ r.translation = t
        /\ r.doc = version[i].doc /\ r.number = version[i].number /\ r.status = version[i].status /\ r.by = version[i].by
        /\ r.reaccept = version[i].reaccept
    BY <2>3, <3>1, <3>2 DEF VersionType
  <3>4. Rewrites(i, r) BY <2>1, <2>2, <3>3, RewritesThere
  <3>5. Retold(i, q) BY <1>0, <2>1, <2>5, <3>1, <3>3, <3>4 DEF Retold, Writes, Kin, Rewrites
  <3> QED BY <2>2, <3>4, <3>5, <1>0, VersionsRewritten, EndsEnded DEF VersionAfter, WriteContent
 <2> QED BY <1>0, <2>4, <2>5
<1> QED BY <1>1, <1>2

\* The step ApproveTranslation, as what it reads and writes.
LEMMA ApproveTranslationIs ==
  ASSUME Formed, plan \in Plans, version \in Seq(VersionType), NEW q \in Calls, ApproveTranslation(q)
  PROVE  /\ Does(q).op = "approve" /\ UNCHANGED <<doc, accepted>> /\ VersionsAfter(q)
         /\ \E end \in {"approved", "failed"} : Ended(q, "write", end)
<1>0. Does(q).op = "approve" /\ call[q].pc = "write" BY DEF ApproveTranslation, At
<1>1. CASE Named(q) = {} BY <1>0, <1>1, EndsEnded, VersionsStay DEF ApproveTranslation
<1>2. CASE Named(q) # {}
 <2> DEFINE i == Asked(q)
            t == Approved(version[i].translation, q)
            r == [version[i] EXCEPT !.translation = t]
 <2>1. i \in VersionsOf(Slug(q)) /\ i \in DOMAIN version BY <1>2 DEF Named, Asked, VersionsOf
 <2>2. Ends(q, "approved") /\ version' = [version EXCEPT ![i] = r] BY <1>2, <2>1 DEF ApproveTranslation, Asked
 <2>3. version[i] \in VersionType /\ version[i].translation \in TranslationType BY <2>1, VersionFields
 <2>4. t \in TranslationType /\ t.text = version[i].translation.text /\ t.status = "APPROVED" /\ t.by = q
   BY <2>3 DEF TranslationType, Approved
 <2> HIDE DEF t
 <2>5. r \in VersionType /\ r.source = version[i].source /\ r.translation = t
       /\ r.doc = version[i].doc /\ r.number = version[i].number /\ r.status = version[i].status /\ r.by = version[i].by
       /\ r.reaccept = version[i].reaccept
   BY <2>3, <2>4 DEF VersionType
 <2> HIDE DEF r
 <2>6. Rewrites(i, r) BY <2>1, <2>2, <2>5, RewritesThere
 <2>7. Seen(i, q) BY <1>0, <2>1, <2>4, <2>5, <2>6 DEF Seen, Writes, Kin, Rewrites
 <2> QED BY <1>0, <2>2, <2>6, <2>7, VersionsRewritten, EndsEnded DEF VersionAfter, ApproveTranslation
<1> QED BY <1>1, <1>2

\* The step PublishVersion, as what it reads and writes.
LEMMA PublishVersionIs ==
  ASSUME Formed, plan \in Plans, version \in Seq(VersionType), NEW q \in Calls, PublishVersion(q)
  PROVE  /\ Does(q).op = "publish" /\ UNCHANGED <<doc, accepted>> /\ VersionsAfter(q)
         /\ \/ Ended(q, "commit", "failed") /\ version' = version
            \/ /\ Ended(q, "commit", "published") /\ Asked(q) \in VersionsOf(Slug(q)) /\ DOMAIN version' = DOMAIN version
               /\ \A i \in DOMAIN version : \/ Released(i, q) \/ Replaced(i, q)
                                            \/ Same(i) /\ i # Asked(q) /\ i \notin Loc(q).archived
<1>0. Does(q).op = "publish" /\ call[q].pc = "commit" /\ Does(q).reaccept \in BOOLEAN
  BY EditTold DEF PublishVersion, At, LegalOps, Admins
<1>1. CASE Named(q) = {} BY <1>0, <1>1, EndsEnded, VersionsStay DEF PublishVersion
<1>2. CASE Named(q) # {}
 <2> DEFINE f(i) == IF i = Asked(q)
                    THEN [version[i] EXCEPT !.status = "PUBLISHED", !.reaccept = Does(q).reaccept, !.by = q]
                    ELSE IF i \in Loc(q).archived THEN [version[i] EXCEPT !.status = "ARCHIVED"] ELSE version[i]
 <2>1. Asked(q) \in VersionsOf(Slug(q)) /\ Asked(q) \in DOMAIN version BY <1>2 DEF Named, Asked, VersionsOf
 <2>2. Ends(q, "published") /\ version' = [i \in DOMAIN version |-> f(i)] /\ UNCHANGED <<doc, accepted>>
   BY <1>2 DEF PublishVersion, Asked, Archived
 <2>3. ASSUME NEW i \in DOMAIN version
       PROVE  /\ f(i) \in VersionType
              /\ f(i).doc = version[i].doc /\ f(i).number = version[i].number /\ f(i).source = version[i].source
              /\ f(i).translation = version[i].translation
              /\ i = Asked(q) => f(i).status = "PUBLISHED" /\ f(i).by = q
              /\ i # Asked(q) /\ i \in Loc(q).archived =>
                   f(i).status = "ARCHIVED" /\ f(i).by = version[i].by /\ f(i).reaccept = version[i].reaccept
              /\ i # Asked(q) /\ i \notin Loc(q).archived => f(i) = version[i]
  <3>1. version[i] \in VersionType BY VersionFields
  <3> QED BY <1>0, <3>1 DEF VersionType
 <2> HIDE DEF f
 <2>4. DOMAIN version' = DOMAIN version /\ \A i \in DOMAIN version : version'[i] = f(i) BY <2>2
 <2>5. DOMAIN version = 1..Len(version) /\ Len(version) \in Nat OBVIOUS
 <2>6. version' \in Seq(VersionType) BY <2>2, <2>3, <2>5
 <2>7. \A i \in DOMAIN version : \/ Released(i, q) \/ Replaced(i, q)
                                 \/ Same(i) /\ i # Asked(q) /\ i \notin Loc(q).archived
   BY <1>0, <2>1, <2>3, <2>4 DEF Released, Replaced, Turned, Kin, Same
 <2>8. VersionsAfter(q) BY <2>4, <2>6, <2>7 DEF VersionsAfter, VersionAfter
 <2> QED
  <3>1. At(q, {"publish"}, "commit") BY DEF PublishVersion
  <3>2. Ended(q, "commit", "published") BY <2>2, <3>1, EndsEnded
  <3> QED BY <1>0, <2>1, <2>2, <2>4, <2>7, <2>8, <3>2
<1> QED BY <1>1, <1>2

\* The step DeleteDocument, as what it reads and writes.
LEMMA DeleteDocumentIs ==
  ASSUME Formed, version \in Seq(VersionType), NEW q \in Calls, DeleteDocument(q)
  PROVE  /\ Does(q).op = "deleteDoc" /\ accepted' = accepted /\ doc' \subseteq doc /\ VersionsAfter(q)
         /\ \E end \in {"deleted", "failed"} : Ended(q, "delete", end)
<1>0. Does(q).op = "deleteDoc" /\ call[q].pc = "delete" BY DEF DeleteDocument, At
<1>1. CASE ~(Slug(q) \in doc /\ Unaccepted(Slug(q))) BY <1>0, <1>1, EndsEnded, VersionsStay DEF DeleteDocument
<1>2. CASE Slug(q) \in doc /\ Unaccepted(Slug(q))
 <2> DEFINE f(i) == IF version[i].doc = Slug(q) THEN [version[i] EXCEPT !.status = "GONE"] ELSE version[i]
 <2>2. Ends(q, "deleted") /\ version' = [i \in DOMAIN version |-> f(i)] /\ accepted' = accepted /\ doc' = doc \ {Slug(q)}
   BY <1>2 DEF DeleteDocument
 <2>3. ASSUME NEW i \in DOMAIN version
       PROVE  /\ f(i) \in VersionType
              /\ f(i).doc = version[i].doc /\ f(i).number = version[i].number /\ f(i).source = version[i].source
              /\ f(i).translation = version[i].translation /\ f(i).by = version[i].by
              /\ version[i].doc = Slug(q) => f(i).status = "GONE"
              /\ version[i].doc # Slug(q) => f(i) = version[i]
  <3>1. version[i] \in VersionType BY VersionFields
  <3> QED BY <3>1 DEF VersionType
 <2> HIDE DEF f
 <2>4. DOMAIN version' = DOMAIN version /\ \A i \in DOMAIN version : version'[i] = f(i) BY <2>2
 <2>5. DOMAIN version = 1..Len(version) /\ Len(version) \in Nat OBVIOUS
 <2>6. version' \in Seq(VersionType) BY <2>2, <2>3, <2>5
 <2>7. \A k \in VersionsOf(Slug(q)) : version'[k].status = "GONE" BY <2>3, <2>4 DEF VersionsOf
 <2>8. \A i \in DOMAIN version : Same(i) \/ Removed(i, q) BY <1>0, <1>2, <2>3, <2>4, <2>7 DEF Removed, Same, Kin
 <2>9. VersionsAfter(q) BY <2>4, <2>6, <2>8 DEF VersionsAfter, VersionAfter
 <2> QED
  <3>1. At(q, {"deleteDoc"}, "delete") BY DEF DeleteDocument
  <3>2. Ended(q, "delete", "deleted") BY <2>2, <3>1, EndsEnded
  <3> QED BY <1>0, <2>2, <2>9, <3>2
<1> QED BY <1>1, <1>2

\* What a call of the legal documents has seen by the place it is at.
NotOut(i) == version[i].status \in {"DRAFT", "GONE"}
EditReady(q) ==
  Does(q).op \in {"edit", "translate"} /\ call[q].pc = "write" =>
    /\ Acceptable(q)
    /\ Does(q).op = "edit" => Asked(q) \in DOMAIN version /\ (NotOut(Asked(q)) \/ Racing(q, {"publish"}))
ApproveReady(q) ==
  Does(q).op = "approve" /\ call[q].pc = "write" =>
    /\ Asked(q) \in DOMAIN version /\ version[Asked(q)].translation.text # None
    /\ version[Asked(q)].translation.text = Loc(q).text \/ Racing(q, {"translate"})
PublishReady(q) ==
  Does(q).op = "publish" /\ call[q].pc \in {"archive", "commit"} =>
    /\ Asked(q) \in DOMAIN version /\ version[Asked(q)].doc = Slug(q) /\ (NotOut(Asked(q)) \/ Racing(q, {"publish"}))
    /\ Slug(q) \in Notices => Parses(version[Asked(q)].source)
    /\ call[q].pc = "commit" => \A k \in Loc(q).archived :
         /\ k \in DOMAIN version /\ version[k].doc = Slug(q) /\ version[k].status # "DRAFT"
         /\ version[k].status = "GONE" => version[Asked(q)].status = "GONE"
AcceptReady(q) ==
  Does(q).op = "accept" /\ call[q].pc = "create" => Asked(q) \in DOMAIN version /\ version[Asked(q)].status # "DRAFT"
SignReady(q) ==
  Does(q).op = "signUp" /\ call[q].pc = "create" => Loc(q).row \in DOMAIN version /\ version[Loc(q).row].status # "DRAFT"
DraftReady(q) == Does(q).op = "draft" /\ call[q].pc = "create" => Loc(q).number \in Nat
LegalReady(q) == EditReady(q) /\ ApproveReady(q) /\ PublishReady(q) /\ AcceptReady(q) /\ SignReady(q) /\ DraftReady(q)
LegalRows ==
  /\ doc \subseteq Docs /\ version \in Seq(VersionType)
  /\ \A a \in accepted : a.version \in DOMAIN version /\ version[a.version].status \in {"PUBLISHED", "ARCHIVED"}
  /\ \A i, k \in DOMAIN version : /\ version[i].doc = version[k].doc /\ version[i].number = version[k].number
                                  /\ version[i].status # "GONE" /\ version[k].status # "GONE"
                                  => i = k
LegalBase == plan \in Plans /\ LegalRows /\ \A q \in Calls : LegalReady(q)

\* How a version goes on, whatever is done to it: what is gone stays so, together
\* with its document; what was a draft is published by a call on its way; and texts
\* are those of calls that were let through.
Develops(i, q) ==
  /\ i \in DOMAIN version' /\ version'[i].doc = version[i].doc /\ version'[i].number = version[i].number
  /\ version[i].status = "GONE" => version'[i].status = "GONE"
  /\ version[i].status # "DRAFT" => version'[i].status # "DRAFT"
  /\ NotOut(i) => version'[i].status \in {"DRAFT", "GONE"} \/ (Does(q).op = "publish" /\ Begun(q) /\ i = Asked(q))
  /\ version[i].status # "GONE" /\ version'[i].status = "GONE" =>
       /\ version[i].doc = Slug(q) /\ Unaccepted(Slug(q)) /\ \A k \in VersionsOf(Slug(q)) : version'[k].status = "GONE"
  /\ \/ version'[i].source = version[i].source
     \/ Does(q).op = "edit" /\ version'[i].source = Does(q).text /\ version[i].doc = Slug(q) /\ Acceptable(q)
        /\ (NotOut(i) \/ Racing(q, {"publish"})) /\ Begun(q) /\ call[q].pc = "write"
  /\ \/ version'[i].translation.text = version[i].translation.text
     \/ Does(q).op = "translate" /\ version'[i].translation.text = Does(q).text /\ version[i].doc = Slug(q) /\ Acceptable(q)
        /\ version'[i].translation.status = "TRANSLATED" /\ Begun(q)

\* Every version goes on like that.
LEMMA VersionDevelops ==
  ASSUME LegalRows, NEW q \in Calls, LegalReady(q), NEW i \in DOMAIN version, VersionsAfter(q)
  PROVE  Develops(i, q)
<1>0. i \in DOMAIN version' /\ i # Len(version) + 1 /\ VersionAfter(i, q)
 <2>1. DOMAIN version = 1..Len(version) /\ Len(version) \in Nat BY DEF LegalRows
 <2> QED BY <2>1 DEF VersionsAfter
<1>1. CASE Same(i) BY <1>0, <1>1 DEF Same, Develops, NotOut
<1>2. CASE Edited(i, q)
  BY <1>0, <1>2 DEF Edited, Writes, Kin, Develops, NotOut, VersionsOf, LegalReady, EditReady, Asked, Begun
<1>3. CASE Retold(i, q)
  BY <1>0, <1>3 DEF Retold, Writes, Kin, Develops, NotOut, VersionsOf, LegalReady, EditReady, Begun
<1>4. CASE Seen(i, q) BY <1>0, <1>4 DEF Seen, Writes, Kin, Develops, NotOut
<1>5. CASE Released(i, q) BY <1>0, <1>5 DEF Released, Turned, Kin, Develops, NotOut, VersionsOf, Begun
<1>6. CASE Replaced(i, q)
 <2>1. version[i].status \notin {"DRAFT", "GONE"} BY <1>6 DEF Replaced, Turned, LegalReady, PublishReady, VersionsOf
 <2> QED BY <1>0, <1>6, <2>1 DEF Replaced, Turned, Kin, Develops, NotOut
<1>7. CASE Removed(i, q) BY <1>0, <1>7 DEF Removed, Kin, Develops, NotOut
<1> QED BY <1>0, <1>1, <1>2, <1>3, <1>4, <1>5, <1>6, <1>7 DEF VersionAfter, Drafted

\* Two calls that race do so for good; who goes on races whoever is on the way.
LEMMA RacingStays ==
  ASSUME Times \/ \E q \in Calls : Advances(q), NEW r \in Calls, NEW ops, Racing(r, ops)
  PROVE  Racing(r, ops)'
<1>1. PICK x \in Calls : Does(x).op \in ops /\ Overlap(r, x) BY DEF Racing
<1>2. Overlap(r, x)' /\ Does(x)' = Does(x) BY <1>1, OverlapStays, PlanStays
<1> QED BY <1>1, <1>2 DEF Racing

\* Who is on its way races whoever takes a step.
LEMMA RacesActor ==
  ASSUME CallsOK, NEW q \in Calls, Advances(q), Begun(q), NEW r \in Calls, Alive(r), r # q, NEW ops, Does(q).op \in ops
  PROVE  Racing(r, ops)'
<1>1. Alive(q) BY DEF Advances
<1>2. Overlap(r, q) BY <1>1, BothOverlap
<1>3. Racing(r, ops) BY <1>2 DEF Racing
<1> QED BY <1>3, RacingStays

\* What a call has seen that does not move, while the versions develop.
LEMMA ReadyStays ==
  ASSUME CallsOK, LegalBase, NEW q \in Calls, Advances(q), VersionsAfter(q), NEW r \in Calls \ {q}
  PROVE  LegalReady(r)'
<1>0. /\ plan' = plan /\ call'[r] = call[r] /\ DOMAIN version \subseteq DOMAIN version' /\ LegalReady(r)
      /\ Does(r)' = Does(r) /\ Loc(r)' = Loc(r) /\ Asked(r)' = Asked(r) /\ Slug(r)' = Slug(r)
      /\ Acceptable(r)' <=> Acceptable(r)
  BY DEF Advances, LegalBase, VersionsAfter, Does, Loc, Asked, Slug, Acceptable, Parses
<1>1. \A i \in DOMAIN version : Develops(i, q) BY VersionDevelops DEF LegalBase
<1>2. \A ops : Racing(r, ops) => Racing(r, ops)' BY RacingStays
<1>3. ASSUME Alive(r), NEW i \in DOMAIN version, NotOut(i) \/ Racing(r, {"publish"})
      PROVE  version'[i].status \in {"DRAFT", "GONE"} \/ Racing(r, {"publish"})'
 <2>1. CASE Racing(r, {"publish"}) BY <1>2, <2>1
 <2>2. CASE NotOut(i) /\ Does(q).op = "publish" /\ Begun(q) BY <1>3, <2>2, RacesActor
 <2>3. CASE NotOut(i) /\ ~(Does(q).op = "publish" /\ Begun(q)) BY <1>1, <2>3 DEF Develops, NotOut
 <2> QED BY <1>3, <2>1, <2>2, <2>3
<1>4. EditReady(r)'
 <2>1. CASE Does(r).op \in {"edit", "translate"} /\ call[r].pc = "write"
   BY <1>0, <1>3, <2>1 DEF LegalReady, EditReady, Alive, Begun, Over, NotOut
 <2> QED BY <1>0, <2>1 DEF EditReady
<1>5. ApproveReady(r)'
 <2>1. CASE Does(r).op = "approve" /\ call[r].pc = "write"
  <3> DEFINE i == Asked(r)
  <3>1. i \in DOMAIN version /\ version[i].translation.text # None
        /\ (version[i].translation.text = Loc(r).text \/ Racing(r, {"translate"}))
    BY <1>0, <2>1 DEF LegalReady, ApproveReady
  <3>2. CASE version'[i].translation.text = version[i].translation.text BY <1>0, <1>2, <3>1, <3>2 DEF ApproveReady
  <3>3. CASE version'[i].translation.text # version[i].translation.text
   <4>1. Does(q).op = "translate" /\ version'[i].translation.text = Does(q).text /\ Begun(q)
     BY <1>1, <3>1, <3>3 DEF Develops
   <4>2. version'[i].translation.text # None BY <4>1, EditTold, NoneIsNoText DEF LegalBase, LegalOps, Admins
   <4>3. Racing(r, {"translate"})' BY <2>1, <4>1, RacesActor DEF Alive, Begun, Over
   <4> QED BY <1>0, <3>1, <4>2, <4>3 DEF ApproveReady
  <3> QED BY <3>2, <3>3
 <2> QED BY <1>0, <2>1 DEF ApproveReady
<1>6. PublishReady(r)'
 <2>1. CASE Does(r).op = "publish" /\ call[r].pc \in {"archive", "commit"}
  <3> DEFINE i == Asked(r)
  <3>0. Alive(r) /\ PublishReady(r) BY <1>0, <2>1 DEF Alive, Begun, Over, LegalReady
  <3>1. i \in DOMAIN version /\ version[i].doc = Slug(r) /\ (NotOut(i) \/ Racing(r, {"publish"}))
    BY <2>1, <3>0 DEF PublishReady
  <3>2. Develops(i, q) /\ (version'[i].status \in {"DRAFT", "GONE"} \/ Racing(r, {"publish"})')
    BY <1>1, <1>3, <3>0, <3>1
  <3>3. i \in DOMAIN version' /\ version'[i].doc = Slug(r) BY <3>1, <3>2 DEF Develops
  <3>4. Slug(r) \in Notices => Parses(version'[i].source)
    BY <2>1, <3>0, <3>1, <3>2 DEF PublishReady, Develops, Acceptable
  <3>6. ASSUME call[r].pc = "commit", NEW k \in Loc(r).archived
        PROVE  /\ k \in DOMAIN version' /\ version'[k].doc = Slug(r) /\ version'[k].status # "DRAFT"
               /\ version'[k].status = "GONE" => version'[i].status = "GONE"
   <4>1. /\ k \in DOMAIN version /\ version[k].doc = Slug(r) /\ version[k].status # "DRAFT"
         /\ version[k].status = "GONE" => version[i].status = "GONE"
     BY <2>1, <3>0, <3>6 DEF PublishReady
   <4>2. Develops(k, q) BY <1>1, <4>1
   <4>3. version[k].status # "GONE" /\ version'[k].status = "GONE" => version'[i].status = "GONE"
     BY <3>1, <3>2, <4>1, <4>2 DEF Develops, VersionsOf
   <4> QED BY <3>2, <4>1, <4>2, <4>3 DEF Develops
  <3> QED BY <1>0, <2>1, <3>2, <3>3, <3>4, <3>6 DEF PublishReady, Parses, NotOut
 <2> QED BY <1>0, <2>1 DEF PublishReady
<1>7. AcceptReady(r)' /\ SignReady(r)' /\ DraftReady(r)'
  BY <1>0, <1>1 DEF LegalReady, AcceptReady, SignReady, DraftReady, Develops
<1> QED BY <1>4, <1>5, <1>6, <1>7 DEF LegalReady

\* A call that is at none of those places.
LEMMA ReadyFree ==
  ASSUME NEW q \in Calls, call'[q].pc \notin {"write", "archive", "commit", "create"}
  PROVE  LegalReady(q)'
  BY DEF LegalReady, EditReady, ApproveReady, PublishReady, AcceptReady, SignReady, DraftReady

\* What is accepted is of versions that are out.
AcceptedAfter ==
  \A a \in accepted' : a \in accepted \/ (version' = version /\ a.version \in DOMAIN version
                                          /\ version[a.version].status \in {"PUBLISHED", "ARCHIVED"})

\* What a step must leave for the rows and the places to be kept.
LEMMA LegalKeeps ==
  ASSUME CallsOK, LegalBase, NEW q \in Calls, Advances(q), VersionsAfter(q), doc' \subseteq Docs, AcceptedAfter, LegalReady(q)'
  PROVE  LegalBase'
<1>0. plan' = plan /\ version' \in Seq(VersionType) /\ LegalRows BY DEF LegalBase, Advances, VersionsAfter
<1>1. \A i \in DOMAIN version : Develops(i, q) BY VersionDevelops DEF LegalBase
<1>2. ASSUME NEW a \in accepted'
      PROVE  a.version \in DOMAIN version' /\ version'[a.version].status \in {"PUBLISHED", "ARCHIVED"}
 <2>1. CASE a \notin accepted BY <1>2, <2>1 DEF AcceptedAfter
 <2>2. CASE a \in accepted
  <3>1. a.version \in DOMAIN version /\ version[a.version].status \in {"PUBLISHED", "ARCHIVED"}
    BY <1>0, <2>2 DEF LegalRows
  <3>2. a.version \in DOMAIN version' /\ version'[a.version].status # "DRAFT" BY <1>1, <3>1 DEF Develops
  <3>3. version'[a.version].status # "GONE" BY <1>1, <2>2, <3>1 DEF Develops, Unaccepted, VersionsOf
  <3> QED BY <1>0, <3>2, <3>3, VersionFieldsThen
 <2> QED BY <2>1, <2>2
<1>3. ASSUME NEW i \in DOMAIN version', NEW k \in DOMAIN version', version'[i].doc = version'[k].doc, version'[i].number = version'[k].number,
             version'[i].status # "GONE", version'[k].status # "GONE"
      PROVE  i = k
 <2>0. \A j \in DOMAIN version' : j \in DOMAIN version \/ Drafted(j, q)
   BY DEF VersionsAfter, VersionAfter, Same, Edited, Retold, Seen, Writes, Released, Replaced, Turned, Removed, Kin
 <2>1. ASSUME NEW a \in DOMAIN version, NEW b, Drafted(b, q), version'[a].doc = version'[b].doc,
              version'[a].number = version'[b].number, version'[a].status # "GONE"
       PROVE  FALSE
  <3>1. version[a].doc = Slug(q) /\ version[a].number = Loc(q).number /\ version[a].status # "GONE"
    BY <1>1, <2>1 DEF Develops, Drafted, Draft
  <3> QED BY <2>1, <3>1 DEF Drafted, NumberFree, VersionsOf
 <2>2. CASE i \in DOMAIN version /\ k \in DOMAIN version BY <1>0, <1>1, <1>3, <2>2 DEF LegalRows, Develops
 <2>3. CASE Drafted(i, q) /\ Drafted(k, q) BY <2>3 DEF Drafted
 <2> QED BY <1>3, <2>0, <2>1, <2>2, <2>3
<1>4. LegalRows' BY <1>0, <1>2, <1>3 DEF LegalRows
<1>5. \A r \in Calls : LegalReady(r)' BY ReadyStays
<1> QED BY <1>0, <1>4, <1>5 DEF LegalBase

\* What the administrators' calls read when they come in.
LEMMA CheckEditIs ==
  ASSUME Formed, NEW q \in Calls, CheckEdit(q)
  PROVE  /\ Does(q).op \in {"edit", "translate"} /\ UNCHANGED legalVars
         /\ \/ \E end : Answered(q, end)
            \/ Entered(q, "write", None) /\ Asked(q) \in VersionsOf(Slug(q)) /\ Editable(q, Asked(q)) /\ Acceptable(q)
<1>1. Does(q).op \in {"edit", "translate"} /\ UNCHANGED legalVars BY DEF CheckEdit, Answers, Starts, Starting
<1> QED BY <1>1, StartsEnters, AnswersAnswered DEF CheckEdit, Named, Asked

\* The step ReadTranslation, as what it reads and writes.
LEMMA ReadTranslationIs ==
  ASSUME Formed, NEW q \in Calls, ReadTranslation(q)
  PROVE  /\ Does(q).op = "approve" /\ UNCHANGED legalVars
         /\ \/ \E end : Answered(q, end)
            \/ /\ Entered(q, "write", [text |-> version[Asked(q)].translation.text]) /\ Asked(q) \in DOMAIN version
               /\ version[Asked(q)].translation.text # None
<1>1. Does(q).op = "approve" /\ UNCHANGED legalVars BY DEF ReadTranslation, Answers, Starts, Starting
<1> QED BY <1>1, StartsEnters, AnswersAnswered DEF ReadTranslation, Named, Asked, VersionsOf

\* The step CheckPublish, as what it reads and writes.
LEMMA CheckPublishIs ==
  ASSUME Formed, NEW q \in Calls, CheckPublish(q)
  PROVE  /\ Does(q).op = "publish" /\ UNCHANGED legalVars
         /\ \/ \E end : Answered(q, end)
            \/ /\ Entered(q, "archive", None) /\ Asked(q) \in VersionsOf(Slug(q)) /\ version[Asked(q)].status = "DRAFT"
               /\ Slug(q) \in Notices => \A t \in Servable(version[Asked(q)]) : Parses(t)
<1>1. Does(q).op = "publish" /\ UNCHANGED legalVars BY DEF CheckPublish, Answers, Starts, Starting
<1> QED BY <1>1, StartsEnters, AnswersAnswered DEF CheckPublish, Named, Asked

\* The step ReadAccepted, as what it reads and writes.
LEMMA ReadAcceptedIs ==
  ASSUME Formed, NEW q \in Calls, ReadAccepted(q)
  PROVE  /\ Does(q).op = "accept" /\ UNCHANGED legalVars
         /\ \/ \E end : Answered(q, end)
            \/ Entered(q, "create", None) /\ Asked(q) \in DOMAIN version /\ version[Asked(q)].status # "DRAFT"
<1>1. Does(q).op = "accept" /\ UNCHANGED legalVars BY DEF ReadAccepted, Answers, Starts, Starting
<1> QED BY <1>1, StartsEnters, AnswersAnswered DEF ReadAccepted, Named, Asked, VersionsOf

\* The step ArchivePublished, as what it reads and writes.
LEMMA ArchivePublishedIs ==
  ASSUME Formed, NEW q \in Calls, ArchivePublished(q)
  PROVE  /\ Does(q).op = "publish" /\ UNCHANGED legalVars
         /\ Went(q, "archive", "commit", [archived |-> Published(Slug(q))])
<1>1. Does(q).op = "publish" /\ UNCHANGED legalVars BY DEF ArchivePublished, At
<1> QED BY <1>1, GoesWent DEF ArchivePublished

\* The step CreateAcceptance, as what it reads and writes.
LEMMA CreateAcceptanceIs ==
  ASSUME Formed, NEW q \in Calls, CreateAcceptance(q)
  PROVE  /\ Does(q).op = "accept" /\ UNCHANGED <<doc, version>> /\ call[q].pc = "create"
         /\ \/ Ended(q, "create", "failed") /\ UNCHANGED accepted
            \/ Ended(q, "create", "accepted") /\ Asked(q) \in VersionsOf(Slug(q)) /\ accepted' = accepted \cup {Acceptance(q, Asked(q))}
<1>1. Does(q).op = "accept" /\ UNCHANGED <<doc, version>> /\ call[q].pc = "create" /\ At(q, {"accept"}, "create")
  BY DEF CreateAcceptance, At
<1> QED BY <1>1, EndsEnded DEF CreateAcceptance, Named, Asked

\* The record a sign-up goes on with.
LEMMA NextRow ==
  ASSUME NEW S, NEW i
  PROVE  [[left |-> S, row |-> 0] EXCEPT !.row = i] = [left |-> S, row |-> i]
  OBVIOUS
\* A sign-up goes from one of its documents to the next.
LEMMA FindSignUpIs ==
  ASSUME Formed, NEW q \in Calls, FindSignUp(q)
  PROVE  /\ Does(q).op = "signUp" /\ UNCHANGED legalVars /\ call[q].pc = "find"
         /\ \/ Loc(q).left = {} /\ Ended(q, "find", "signedUp")
            \/ \E d \in Loc(q).left :
                 \/ (Published(d) = {} \/ plan.failures) /\ Went(q, "find", "find", [left |-> Loc(q).left \ {d}, row |-> 0])
                 \/ \E i \in Published(d) : Went(q, "find", "create", [left |-> Loc(q).left \ {d}, row |-> i])
<1>1. Does(q).op = "signUp" /\ UNCHANGED legalVars /\ call[q].pc = "find" /\ At(q, {"signUp"}, "find")
  BY DEF FindSignUp, At
<1>2. CASE Loc(q).left = {} BY <1>1, <1>2, EndsEnded DEF FindSignUp
<1>3. CASE Loc(q).left # {}
 <2> DEFINE d == CHOOSE d \in Loc(q).left : TRUE
            next == [left |-> Loc(q).left \ {d}, row |-> 0]
 <2>1. d \in Loc(q).left BY <1>3
 <2>2. \/ Published(d) = {} /\ Goes(q, "find", next)
       \/ \E i \in Published(d) : Goes(q, "create", [next EXCEPT !.row = i])
       \/ plan.failures /\ Goes(q, "find", next)
   BY <1>3 DEF FindSignUp, Current
 <2>3. \A i : [next EXCEPT !.row = i] = [left |-> Loc(q).left \ {d}, row |-> i] BY NextRow
 <2> HIDE DEF d
 <2>4. \/ (Published(d) = {} \/ plan.failures) /\ Went(q, "find", "find", [left |-> Loc(q).left \ {d}, row |-> 0])
       \/ \E i \in Published(d) : Went(q, "find", "create", [left |-> Loc(q).left \ {d}, row |-> i])
   BY <1>1, <2>2, <2>3, GoesWent
 <2> QED BY <1>1, <2>1, <2>4
<1> QED BY <1>2, <1>3

\* The step CreateSignUp, as what it reads and writes.
LEMMA CreateSignUpIs ==
  ASSUME Formed, NEW q \in Calls, CreateSignUp(q)
  PROVE  /\ Does(q).op = "signUp" /\ UNCHANGED <<doc, version>> /\ call[q].pc = "create" /\ Went(q, "create", "find", Loc(q))
         /\ \/ version[Loc(q).row].status # "GONE" /\ accepted' = accepted \cup {Acceptance(q, Loc(q).row)}
            \/ (plan.failures \/ version[Loc(q).row].status = "GONE") /\ UNCHANGED accepted
<1>1. Does(q).op = "signUp" /\ UNCHANGED <<doc, version>> /\ call[q].pc = "create" /\ At(q, {"signUp"}, "create")
  BY DEF CreateSignUp, At
<1> QED BY <1>1, GoesWent DEF CreateSignUp

\* There are finitely many versions, so they can be counted.
LEMMA VersionsAreFew ==
  ASSUME version \in Seq(VersionType), NEW d
  PROVE  IsFiniteSet(VersionsOf(d)) /\ IsFiniteSet(Published(d)) /\ Number(d) \in Nat
<1>1. IsFiniteSet(DOMAIN version)
 <2>1. DOMAIN version = 1 .. Len(version) /\ Len(version) \in Nat OBVIOUS
 <2> QED BY <2>1, FS_Interval
<1>2. IsFiniteSet(VersionsOf(d)) /\ IsFiniteSet(Published(d)) BY <1>1, FS_Subset DEF VersionsOf, Published
<1>3. IsFiniteSet({version[i].number : i \in VersionsOf(d)})
 <2> DEFINE S == VersionsOf(d)
            T == {version[i].number : i \in S}
            f == [i \in S |-> version[i].number]
 <2>1. f \in Surjection(S, T) BY DEF Surjection
 <2> HIDE DEF S, T, f
 <2>2. IsFiniteSet(T) BY <1>2, <2>1, FS_Surjection DEF S
 <2> QED BY <2>2 DEF T, S
<1> QED BY <1>2, <1>3, FS_CardinalityType DEF Number

\* Two elements are more than one.
LEMMA TwoAreMore ==
  ASSUME NEW S, IsFiniteSet(S), NEW i \in S, NEW k \in S, i # k
  PROVE  Cardinality(S) > 1
<1>1. IsFiniteSet({i}) /\ Cardinality({i}) = 1 BY FS_Singleton
<1>2. Cardinality({i}) <= Cardinality(S) /\ Cardinality(S) # 1
 <2>1. {i} \in SUBSET S /\ {i} # S BY DEF Published
 <2> QED BY <1>1, <2>1, FS_Subset
<1>3. Cardinality(S) \in Nat BY FS_CardinalityType
<1> QED BY <1>1, <1>2, <1>3

\* The step FindLatest, as what it reads and writes.
LEMMA FindLatestIs ==
  ASSUME Formed, NEW q \in Calls, FindLatest(q)
  PROVE  /\ Does(q).op = "draft" /\ UNCHANGED legalVars
         /\ \/ \E end : Answered(q, end)
            \/ Entered(q, "create", [number |-> Number(Slug(q)) + 1])
<1>1. Does(q).op = "draft" /\ UNCHANGED legalVars BY DEF FindLatest, Answers, Starts, Starting
<1> QED BY <1>1, StartsEnters, AnswersAnswered DEF FindLatest

\* The step createDocument, as what it reads and writes.
LEMMA createDocumentIs ==
  ASSUME Formed, NEW q \in Calls, createDocument(q)
  PROVE  /\ Does(q).op = "createDoc" /\ doc' \subseteq doc \cup {Slug(q)} /\ UNCHANGED <<version, accepted>>
         /\ \E end : Answered(q, end)
<1>1. Does(q).op = "createDoc" /\ doc' \subseteq doc \cup {Slug(q)} /\ UNCHANGED <<version, accepted>>
  BY DEF createDocument, Answers, Starting
<1> QED BY <1>1, AnswersAnswered DEF createDocument

\* The step CountPublished, as what it reads and writes.
LEMMA CountPublishedIs ==
  ASSUME Formed, NEW q \in Calls, CountPublished(q)
  PROVE  /\ Does(q).op = "deleteDoc" /\ UNCHANGED legalVars
         /\ (\E end : Answered(q, end)) \/ Entered(q, "delete", None)
<1>1. Does(q).op = "deleteDoc" /\ UNCHANGED legalVars BY DEF CountPublished, Answers, Starts, Starting
<1> QED BY <1>1, AnswersAnswered, StartsEnters DEF CountPublished

\* The step BeginSignUp, as what it reads and writes.
LEMMA BeginSignUpIs ==
  ASSUME Formed, NEW q \in Calls, BeginSignUp(q)
  PROVE  Does(q).op = "signUp" /\ UNCHANGED legalVars /\ Entered(q, "find", [left |-> Signups, row |-> 0])
  BY StartsEnters DEF BeginSignUp

\* What a step of the legal documents comes to.  What is written is written as the
\* call ends; a publication archives all it has seen.
Finishes(q) ==
  /\ call[q].pc \notin {"new", "done"} /\ call'[q].pc = "done" /\ call'[q].loc = Loc(q)
  /\ Does(q).op = "publish" => \A k \in Loc(q).archived \cap DOMAIN version : k # Asked(q) => Replaced(k, q)
LegalFacts(q) ==
  /\ Advances(q) /\ VersionsAfter(q) /\ doc' \subseteq Docs
  /\ AcceptedAfter /\ accepted \subseteq accepted' /\ LegalReady(q)'
  /\ version' = version \/ Finishes(q)
  /\ Does(q).op = "publish" /\ call'[q].pc = "commit" => version' = version /\ call'[q].loc.archived = Published(Slug(q))

\* A step that only reads.
LEMMA LegalReads ==
  ASSUME LegalBase, NEW q \in Calls, Advances(q), UNCHANGED legalVars, LegalReady(q)',
         Does(q).op = "publish" => call'[q].pc # "commit"
  PROVE  LegalFacts(q)
  BY VersionsStay DEF LegalFacts, LegalBase, LegalRows, AcceptedAfter, legalVars

\* A step that writes as the call ends.
LEMMA LegalOver ==
  ASSUME LegalBase, NEW q \in Calls, Advances(q), VersionsAfter(q), doc' \subseteq Docs,
         accepted' = accepted, version' = version \/ Finishes(q), call'[q].pc = "done"
  PROVE  LegalFacts(q)
<1>1. LegalReady(q)' BY ReadyFree
<1> QED BY <1>1 DEF LegalFacts, AcceptedAfter

\* Creating and deleting documents, and drafts.
LEMMA DocumentFacts ==
  ASSUME CallsOK, LegalBase, NEW q \in Calls, Advances(q), Does(q).op \in LegalOps,
         createDocument(q) \/ CountPublished(q) \/ DeleteDocument(q) \/ FindLatest(q) \/ CreateDraft(q)
  PROVE  LegalFacts(q)
<1>0. Formed /\ plan \in Plans /\ version \in Seq(VersionType) /\ doc \subseteq Docs /\ Slug(q) \in Docs /\ plan' = plan
      /\ Does(q)' = Does(q)
  BY EditTold DEF CallsOK, LegalBase, LegalRows, Advances, Does
<1>1. CASE createDocument(q)
 <2>1. call'[q].pc = "done" BY <1>0, <1>1, createDocumentIs, AnsweredAt
 <2> QED BY <1>0, <1>1, <2>1, createDocumentIs, VersionsStay, LegalOver
<1>2. CASE CountPublished(q)
 <2>1. call'[q].pc \in {"done", "delete"} /\ UNCHANGED legalVars
   BY <1>0, <1>2, CountPublishedIs, AnsweredAt, EnteredAt
 <2>2. LegalReady(q)' BY <2>1, ReadyFree
 <2> QED BY <2>1, <2>2, LegalReads
<1>3. CASE DeleteDocument(q)
 <2>1. call'[q].pc = "done" /\ call[q].pc = "delete" /\ call'[q].loc = Loc(q) BY <1>0, <1>3, DeleteDocumentIs, EndedAt
 <2>2. Does(q).op = "deleteDoc" /\ accepted' = accepted /\ doc' \subseteq doc /\ VersionsAfter(q)
   BY <1>0, <1>3, DeleteDocumentIs
 <2>3. Finishes(q) BY <2>1, <2>2 DEF Finishes
 <2> QED BY <1>0, <2>1, <2>2, <2>3, LegalOver
<1>4. CASE FindLatest(q)
 <2>1. Does(q).op = "draft" /\ UNCHANGED legalVars BY <1>0, <1>4, FindLatestIs
 <2>2. call'[q].pc = "done" \/ (call'[q].pc = "create" /\ call'[q].loc = [number |-> Number(Slug(q)) + 1])
  <3>1. CASE \E end : Answered(q, end) BY <3>1, AnsweredAt
  <3>2. CASE Entered(q, "create", [number |-> Number(Slug(q)) + 1]) BY <3>2, EnteredAt
  <3> QED BY <1>0, <1>4, <3>1, <3>2, FindLatestIs
 <2>3. Number(Slug(q)) \in Nat BY <1>0, VersionsAreFew
 <2>4. LegalReady(q)'
   BY <1>0, <2>1, <2>2, <2>3 DEF LegalReady, EditReady, ApproveReady, PublishReady, AcceptReady, SignReady, DraftReady, Loc
 <2> QED BY <2>1, <2>2, <2>4, LegalReads
<1>5. CASE CreateDraft(q)
 <2>0. Loc(q).number \in Nat BY <1>5 DEF CreateDraft, At, LegalBase, LegalReady, DraftReady
 <2>1. Does(q).op = "draft" /\ UNCHANGED <<doc, accepted>> /\ VersionsAfter(q) BY <1>0, <1>5, <2>0, CreateDraftIs
 <2>2. call'[q].pc = "done" /\ call[q].pc = "create" /\ call'[q].loc = Loc(q)
   BY <1>0, <1>5, <2>0, CreateDraftIs, EndedAt
 <2>3. Finishes(q) BY <2>1, <2>2 DEF Finishes
 <2> QED BY <1>0, <2>1, <2>2, <2>3, LegalOver
<1> QED BY <1>1, <1>2, <1>3, <1>4, <1>5

\* Texts.
LEMMA TextFacts ==
  ASSUME CallsOK, LegalBase, NEW q \in Calls, Advances(q), Does(q).op \in LegalOps,
         CheckEdit(q) \/ WriteContent(q) \/ ReadTranslation(q) \/ ApproveTranslation(q)
  PROVE  LegalFacts(q)
<1>0. Formed /\ plan \in Plans /\ version \in Seq(VersionType) /\ doc \subseteq Docs /\ plan' = plan
      /\ Does(q)' = Does(q) /\ Asked(q)' = Asked(q)
  BY DEF CallsOK, LegalBase, LegalRows, Advances, Does, Asked
<1>1. CASE CheckEdit(q)
 <2>1. Does(q).op \in {"edit", "translate"} /\ UNCHANGED legalVars BY <1>0, <1>1, CheckEditIs
 <2>2. \/ call'[q].pc = "done"
       \/ call'[q].pc = "write" /\ Asked(q) \in VersionsOf(Slug(q)) /\ Editable(q, Asked(q)) /\ Acceptable(q)
   BY <1>0, <1>1, CheckEditIs, AnsweredAt, EnteredAt
 <2>3. LegalReady(q)'
   BY <1>0, <2>1, <2>2 DEF LegalReady, EditReady, ApproveReady, PublishReady, AcceptReady, SignReady, DraftReady, Acceptable,
      Editable, VersionsOf, NotOut, Slug, Parses, legalVars
 <2> QED BY <2>1, <2>3, LegalReads
<1>2. CASE WriteContent(q)
 <2>1. Does(q).op \in {"edit", "translate"} /\ UNCHANGED <<doc, accepted>> /\ VersionsAfter(q)
   BY <1>0, <1>2, WriteContentIs
 <2>2. call'[q].pc = "done" /\ call[q].pc = "write" /\ call'[q].loc = Loc(q) BY <1>0, <1>2, WriteContentIs, EndedAt
 <2>3. Finishes(q) BY <2>1, <2>2 DEF Finishes
 <2> QED BY <1>0, <2>1, <2>2, <2>3, LegalOver
<1>3. CASE ReadTranslation(q)
 <2>1. Does(q).op = "approve" /\ UNCHANGED legalVars BY <1>0, <1>3, ReadTranslationIs
 <2>2. \/ call'[q].pc = "done"
       \/ /\ call'[q].pc = "write" /\ call'[q].loc = [text |-> version[Asked(q)].translation.text]
          /\ Asked(q) \in DOMAIN version /\ version[Asked(q)].translation.text # None
   BY <1>0, <1>3, ReadTranslationIs, AnsweredAt, EnteredAt
 <2>3. LegalReady(q)'
   BY <1>0, <2>1, <2>2 DEF LegalReady, EditReady, ApproveReady, PublishReady, AcceptReady, SignReady, DraftReady, Loc, legalVars
 <2> QED BY <2>1, <2>3, LegalReads
<1>4. CASE ApproveTranslation(q)
 <2>1. Does(q).op = "approve" /\ UNCHANGED <<doc, accepted>> /\ VersionsAfter(q) BY <1>0, <1>4, ApproveTranslationIs
 <2>2. call'[q].pc = "done" /\ call[q].pc = "write" /\ call'[q].loc = Loc(q)
   BY <1>0, <1>4, ApproveTranslationIs, EndedAt
 <2>3. Finishes(q) BY <2>1, <2>2 DEF Finishes
 <2> QED BY <1>0, <2>1, <2>2, <2>3, LegalOver
<1> QED BY <1>1, <1>2, <1>3, <1>4

\* Publishing.
LEMMA PublishFacts ==
  ASSUME CallsOK, LegalBase, NEW q \in Calls, Advances(q), Does(q).op \in LegalOps,
         CheckPublish(q) \/ ArchivePublished(q) \/ PublishVersion(q)
  PROVE  LegalFacts(q)
<1>0. Formed /\ plan \in Plans /\ version \in Seq(VersionType) /\ doc \subseteq Docs /\ plan' = plan
      /\ Does(q)' = Does(q) /\ Asked(q)' = Asked(q) /\ Slug(q)' = Slug(q)
  BY DEF CallsOK, LegalBase, LegalRows, Advances, Does, Asked, Slug
<1>1. CASE CheckPublish(q)
 <2>1. Does(q).op = "publish" /\ UNCHANGED legalVars BY <1>0, <1>1, CheckPublishIs
 <2>2. \/ call'[q].pc = "done"
       \/ /\ call'[q].pc = "archive" /\ Asked(q) \in VersionsOf(Slug(q)) /\ version[Asked(q)].status = "DRAFT"
          /\ Slug(q) \in Notices => \A t \in Servable(version[Asked(q)]) : Parses(t)
   BY <1>0, <1>1, CheckPublishIs, AnsweredAt, EnteredAt
 <2>3. CASE call'[q].pc = "done" BY <2>1, <2>3, ReadyFree, LegalReads
 <2>4. CASE call'[q].pc = "archive"
  <3>1. /\ Asked(q) \in VersionsOf(Slug(q)) /\ version[Asked(q)].status = "DRAFT"
        /\ Slug(q) \in Notices => Parses(version[Asked(q)].source)
    BY <2>2, <2>4 DEF Servable
  <3>2. PublishReady(q)' BY <1>0, <2>1, <2>4, <3>1 DEF PublishReady, VersionsOf, NotOut, Parses, legalVars
  <3>3. LegalReady(q)'
    BY <1>0, <2>1, <2>4, <3>2 DEF LegalReady, EditReady, ApproveReady, AcceptReady, SignReady, DraftReady
  <3> QED BY <2>1, <2>4, <3>3, LegalReads
 <2> QED BY <2>2, <2>3, <2>4
<1>2. CASE ArchivePublished(q)
 <2>1. Does(q).op = "publish" /\ UNCHANGED legalVars /\ call[q].pc = "archive"
       /\ call'[q].pc = "commit" /\ call'[q].loc = [archived |-> Published(Slug(q))]
   BY <1>0, <1>2, ArchivePublishedIs, WentAt
 <2>2. PublishReady(q) BY DEF LegalBase, LegalReady
 <2>3. \A ops : Racing(q, ops) => Racing(q, ops)' BY RacingStays
 <2>4. PublishReady(q)'
   BY <1>0, <2>1, <2>2, <2>3 DEF PublishReady, NotOut, Parses, legalVars, Loc, Published, VersionsOf
 <2>5. LegalReady(q)' BY <1>0, <2>1, <2>4 DEF LegalReady, EditReady, ApproveReady, AcceptReady, SignReady, DraftReady
 <2> QED BY <1>0, <2>1, <2>5, VersionsStay DEF LegalFacts, AcceptedAfter, legalVars
<1>3. CASE PublishVersion(q)
 <2>1. Does(q).op = "publish" /\ UNCHANGED <<doc, accepted>> /\ VersionsAfter(q) BY <1>0, <1>3, PublishVersionIs
 <2>2. call'[q].pc = "done" /\ call[q].pc = "commit" /\ call'[q].loc = Loc(q) BY <1>0, <1>3, PublishVersionIs, EndedAt
 <2>3. version' = version \/ \A k \in Loc(q).archived \cap DOMAIN version : k # Asked(q) => Replaced(k, q)
   BY <1>0, <1>3, PublishVersionIs DEF Released
 <2>4. version' = version \/ Finishes(q) BY <2>1, <2>2, <2>3 DEF Finishes
 <2> QED BY <1>0, <2>1, <2>2, <2>4, LegalOver
<1> QED BY <1>1, <1>2, <1>3

\* Accepting.
LEMMA AcceptFacts ==
  ASSUME CallsOK, LegalBase, NEW q \in Calls, Advances(q), Does(q).op \in LegalOps,
         ReadAccepted(q) \/ CreateAcceptance(q)
  PROVE  LegalFacts(q)
<1>0. Formed /\ plan \in Plans /\ version \in Seq(VersionType) /\ doc \subseteq Docs /\ plan' = plan
      /\ Does(q)' = Does(q) /\ Asked(q)' = Asked(q)
  BY DEF CallsOK, LegalBase, LegalRows, Advances, Does, Asked
<1>1. CASE ReadAccepted(q)
 <2>1. Does(q).op = "accept" /\ UNCHANGED legalVars BY <1>0, <1>1, ReadAcceptedIs
 <2>2. \/ call'[q].pc = "done"
       \/ call'[q].pc = "create" /\ Asked(q) \in DOMAIN version /\ version[Asked(q)].status # "DRAFT"
   BY <1>0, <1>1, ReadAcceptedIs, AnsweredAt, EnteredAt
 <2>3. LegalReady(q)'
   BY <1>0, <2>1, <2>2 DEF LegalReady, EditReady, ApproveReady, PublishReady, AcceptReady, SignReady, DraftReady, legalVars
 <2> QED BY <2>1, <2>3, LegalReads
<1>2. CASE CreateAcceptance(q)
 <2>1. Does(q).op = "accept" /\ UNCHANGED <<doc, version>> /\ call[q].pc = "create" /\ call'[q].pc = "done"
       /\ (accepted' = accepted \/ (Asked(q) \in VersionsOf(Slug(q)) /\ accepted' = accepted \cup {Acceptance(q, Asked(q))}))
   BY <1>0, <1>2, CreateAcceptanceIs, EndedAt
 <2>2. LegalReady(q)' BY <2>1, ReadyFree
 <2>3. Asked(q) \in VersionsOf(Slug(q)) => version[Asked(q)].status \in {"PUBLISHED", "ARCHIVED"} /\ Asked(q) \in DOMAIN version
   BY <1>0, <2>1, VersionFields DEF VersionsOf, LegalBase, LegalReady, AcceptReady
 <2>4. AcceptedAfter BY <2>1, <2>3 DEF AcceptedAfter, Acceptance
 <2>5. accepted \subseteq accepted' /\ VersionsAfter(q) BY <1>0, <2>1, VersionsStay
 <2> QED BY <1>0, <2>1, <2>2, <2>4, <2>5 DEF LegalFacts
<1> QED BY <1>1, <1>2

\* Signing up, and dying.
LEMMA SignUpFacts ==
  ASSUME CallsOK, LegalBase, NEW q \in Calls, Advances(q), Does(q).op \in LegalOps,
         BeginSignUp(q) \/ FindSignUp(q) \/ CreateSignUp(q)
  PROVE  LegalFacts(q)
<1>0. Formed /\ plan \in Plans /\ version \in Seq(VersionType) /\ doc \subseteq Docs /\ plan' = plan
      /\ Does(q)' = Does(q)
  BY DEF CallsOK, LegalBase, LegalRows, Advances, Does
<1>1. CASE BeginSignUp(q)
 <2>1. Does(q).op = "signUp" /\ UNCHANGED legalVars /\ call'[q].pc = "find" BY <1>0, <1>1, BeginSignUpIs, EnteredAt
 <2> QED BY <2>1, ReadyFree, LegalReads
<1>2. CASE FindSignUp(q)
 <2>1. Does(q).op = "signUp" /\ UNCHANGED legalVars BY <1>0, <1>2, FindSignUpIs
 <2>2. \/ call'[q].pc \in {"done", "find"}
       \/ call'[q].pc = "create" /\ \E d : call'[q].loc.row \in Published(d)
  <3>1. CASE Ended(q, "find", "signedUp") BY <3>1, EndedAt
  <3>2. ASSUME NEW d, Went(q, "find", "find", [left |-> Loc(q).left \ {d}, row |-> 0])
        PROVE  call'[q].pc = "find"
    BY <3>2, WentAt
  <3>3. ASSUME NEW d, NEW i \in Published(d), Went(q, "find", "create", [left |-> Loc(q).left \ {d}, row |-> i])
        PROVE  call'[q].pc = "create" /\ call'[q].loc.row = i
    BY <3>3, WentAt
  <3> QED BY <1>0, <1>2, <3>1, <3>2, <3>3, FindSignUpIs
 <2>3. LegalReady(q)'
   BY <1>0, <2>1, <2>2 DEF LegalReady, EditReady, ApproveReady, PublishReady, AcceptReady, SignReady, DraftReady, Loc,
      Published, VersionsOf, legalVars
 <2> QED BY <2>1, <2>3, LegalReads
<1>3. CASE CreateSignUp(q)
 <2>1. Does(q).op = "signUp" /\ UNCHANGED <<doc, version>> /\ call[q].pc = "create" /\ call'[q].pc = "find"
       /\ \/ version[Loc(q).row].status # "GONE" /\ accepted' = accepted \cup {Acceptance(q, Loc(q).row)}
          \/ accepted' = accepted
   BY <1>0, <1>3, CreateSignUpIs, WentAt
 <2>2. LegalReady(q)' BY <2>1, ReadyFree
 <2>3. Loc(q).row \in DOMAIN version /\ version[Loc(q).row].status # "DRAFT"
   BY <2>1 DEF LegalBase, LegalReady, SignReady
 <2>4. AcceptedAfter BY <1>0, <2>1, <2>3, VersionFields DEF AcceptedAfter, Acceptance
 <2>5. accepted \subseteq accepted' /\ VersionsAfter(q) BY <1>0, <2>1, VersionsStay
 <2> QED BY <1>0, <2>1, <2>2, <2>4, <2>5 DEF LegalFacts
<1> QED BY <1>1, <1>2, <1>3

\* Every step of the legal documents comes to that.
LEMMA LegalFactsOf ==
  ASSUME CallsOK, LegalBase, NEW q \in Calls, LegalStep(q)
  PROVE  LegalFacts(q)
<1>0. Advances(q) /\ Does(q).op \in LegalOps BY LegalAdvances
<1>1. CASE Dies(q) /\ UNCHANGED legalVars
 <2>1. call'[q].pc = "dead" BY <1>1, DiesBecomes DEF Becomes, CallsOK
 <2> QED BY <1>0, <1>1, <2>1, ReadyFree, LegalReads
<1> QED BY <1>0, <1>1, DocumentFacts, TextFacts, PublishFacts, AcceptFacts, SignUpFacts DEF LegalStep

\* And so it keeps the rows and the places.
LEMMA LegalBaseKept ==
  ASSUME CallsOK, LegalBase, NEW q \in Calls, LegalFacts(q)
  PROVE  LegalBase'
  BY LegalKeeps DEF LegalFacts

\* What another service does is nothing to the legal documents.
LEMMA LegalElsewhere ==
  ASSUME LegalBase, NEW q \in Calls, Advances(q), Does(q).op \notin LegalOps, UNCHANGED legalVars
  PROVE  LegalFacts(q)
<1>1. Does(q)' = Does(q) BY DEF Advances, Does
<1>2. LegalReady(q)'
  BY <1>1 DEF LegalReady, EditReady, ApproveReady, PublishReady, AcceptReady, SignReady, DraftReady, LegalOps, Admins
<1> QED BY <1>2, LegalReads DEF LegalOps, Admins

\* One version of a document is out, and whoever publishes will archive it.
RacedPublish == \E q, r \in Calls : Does(q).op = "publish" /\ Does(r).op = "publish" /\ Overlap(q, r)
OneOut == \A i, k \in DOMAIN version :
  version[i].doc = version[k].doc /\ version[i].status = "PUBLISHED" /\ version[k].status = "PUBLISHED" => i = k
Archives(q) ==
  Does(q).op = "publish" /\ call[q].pc = "commit" =>
    \A k \in DOMAIN version : version[k].doc = Slug(q) /\ version[k].status = "PUBLISHED" => k \in Loc(q).archived
OutInv == RacedPublish \/ (OneOut /\ \A q \in Calls : Archives(q))

\* Who raced has raced for good.
LEMMA PublishRaceStays ==
  ASSUME Times \/ \E q \in Calls : Advances(q), RacedPublish
  PROVE  RacedPublish'
<1>1. PICK a, b \in Calls : Does(a).op = "publish" /\ Does(b).op = "publish" /\ Overlap(a, b) BY DEF RacedPublish
<1>2. Overlap(a, b)' /\ Does(a)' = Does(a) /\ Does(b)' = Does(b) BY <1>1, OverlapStays, PlanStays
<1> QED BY <1>1, <1>2 DEF RacedPublish

\* A version that is out afterwards was so before, or is released now.
LEMMA OutBefore ==
  ASSUME LegalBase, NEW q \in Calls, LegalFacts(q), NEW i \in DOMAIN version', version'[i].status = "PUBLISHED"
  PROVE  \/ Released(i, q)
         \/ i \in DOMAIN version /\ version[i].status = "PUBLISHED" /\ version[i].doc = version'[i].doc /\ version[i].by = version'[i].by
            /\ (Same(i) \/ Does(q).op # "publish")
<1>1. VersionAfter(i, q) BY DEF LegalFacts, VersionsAfter
<1> QED BY <1>1 DEF VersionAfter, Same, Drafted, Draft, Edited, Retold, Seen, Writes, Kin, Replaced, Removed

\* One version of a document stays out.
LEMMA OneKept ==
  ASSUME CallsOK, LegalBase, OutInv, NEW q \in Calls, LegalFacts(q)
  PROVE  OutInv'
<1>0. /\ Advances(q) /\ plan' = plan /\ (\A r \in Calls \ {q} : call'[r] = call[r]) /\ version \in Seq(VersionType)
      /\ \A r \in Calls : Does(r)' = Does(r) /\ Slug(r)' = Slug(r)
  BY DEF LegalFacts, Advances, Does, Slug, LegalBase, LegalRows
<1>1. CASE RacedPublish BY <1>0, <1>1, PublishRaceStays DEF OutInv
<1>2. CASE ~RacedPublish
 <2>0. OneOut /\ \A r \in Calls : Archives(r) BY <1>2 DEF OutInv
 <2>1. CASE \E i \in DOMAIN version' : Released(i, q)
  <3>1. PICK i \in DOMAIN version' : Released(i, q) BY <2>1
  <3>2. /\ Does(q).op = "publish" /\ call[q].pc = "commit" /\ i = Asked(q) /\ Asked(q) \in VersionsOf(Slug(q))
        /\ i \in DOMAIN version /\ version[i].doc = Slug(q) /\ version'[i].doc = Slug(q)
    BY <3>1 DEF Released, Turned, Kin, VersionsOf
  <3>3. ASSUME NEW k \in DOMAIN version', version'[k].doc = Slug(q), version'[k].status = "PUBLISHED"
        PROVE  k = i
   <4>1. SUFFICES ASSUME k # i PROVE FALSE OBVIOUS
   <4>2. k \in DOMAIN version /\ version[k].status = "PUBLISHED" /\ version[k].doc = Slug(q) /\ Same(k)
     BY <3>2, <3>3, <4>1, OutBefore DEF Released
   <4>3. k \in Loc(q).archived BY <2>0, <3>2, <4>2 DEF Archives
   <4>4. CASE Finishes(q) BY <3>2, <3>3, <4>1, <4>2, <4>3, <4>4 DEF Finishes, Replaced
   <4>5. CASE version' = version BY <2>0, <3>1, <3>2, <3>3, <4>1, <4>2, <4>5 DEF OneOut, Released
   <4> QED BY <4>4, <4>5 DEF LegalFacts
  <3>4. ASSUME NEW k \in DOMAIN version', NEW l \in DOMAIN version', version'[k].doc = version'[l].doc,
               version'[k].status = "PUBLISHED", version'[l].status = "PUBLISHED"
        PROVE  k = l
   <4>1. CASE version'[k].doc = Slug(q) BY <3>3, <3>4, <4>1
   <4>2. CASE version'[k].doc # Slug(q)
    <5>1. ~Released(k, q) /\ ~Released(l, q) BY <3>2, <3>4, <4>2 DEF Released
    <5>2. /\ k \in DOMAIN version /\ version[k].status = "PUBLISHED" /\ version[k].doc = version'[k].doc
          /\ l \in DOMAIN version /\ version[l].status = "PUBLISHED" /\ version[l].doc = version'[l].doc
      BY <3>4, <5>1, OutBefore
    <5> QED BY <2>0, <3>4, <5>2 DEF OneOut
   <4> QED BY <4>1, <4>2
  <3>5. ASSUME NEW r \in Calls
        PROVE  Archives(r)'
   <4>1. CASE r = q BY <3>2, <4>1, <1>0, <2>0, <3>3 DEF LegalFacts, Finishes, Archives, Loc, Published, VersionsOf
   <4>2. CASE r # q /\ Does(r).op = "publish" /\ call[r].pc = "commit"
    <5>1. Alive(r) /\ Alive(q) BY <3>2, <4>2 DEF Alive, Begun, Over
    <5>2. Overlap(r, q) BY <4>2, <5>1, BothOverlap
    <5> QED BY <1>2, <3>2, <4>2, <5>2 DEF RacedPublish
   <4> QED BY <1>0, <4>1, <4>2 DEF Archives
  <3> QED BY <3>4, <3>5 DEF OutInv, OneOut
 <2>2. CASE \A i \in DOMAIN version' : ~Released(i, q)
  <3>1. ASSUME NEW k \in DOMAIN version', version'[k].status = "PUBLISHED"
        PROVE  k \in DOMAIN version /\ version[k].status = "PUBLISHED" /\ version[k].doc = version'[k].doc
    BY <2>2, <3>1, OutBefore
  <3>2. OneOut' BY <2>0, <3>1 DEF OneOut
  <3>3. ASSUME NEW r \in Calls
        PROVE  Archives(r)'
   <4>1. CASE r # q BY <1>0, <2>0, <3>1, <4>1 DEF Archives, Loc
   <4>2. CASE r = q BY <1>0, <4>2 DEF Archives, LegalFacts, Loc, Published, VersionsOf
   <4> QED BY <4>1, <4>2
  <3> QED BY <3>2, <3>3 DEF OutInv
 <2> QED BY <2>1, <2>2
<1> QED BY <1>1, <1>2

\* The texts of a consent notice parse: its translations from the start, its source
\* once the version is out.
NoticeText(i) ==
  version[i].doc \in Notices =>
    /\ version[i].translation.text = None \/ Parses(version[i].translation.text)
    /\ version[i].status = "PUBLISHED" => Parses(version[i].source)
NoticesInv == \A i \in DOMAIN version : NoticeText(i)

\* Notices go on to parse.
LEMMA NoticesKept ==
  ASSUME CallsOK, LegalBase, NoticesInv, NEW q \in Calls, LegalFacts(q)
  PROVE  NoticesInv'
<1>0. VersionsAfter(q) /\ LegalRows /\ LegalReady(q) BY DEF LegalFacts, LegalBase
<1>1. ASSUME NEW i \in DOMAIN version', version'[i].doc \in Notices
      PROVE  /\ version'[i].translation.text = None \/ Parses(version'[i].translation.text)
             /\ version'[i].status = "PUBLISHED" => Parses(version'[i].source)
 <2>1. CASE Drafted(i, q) BY <2>1 DEF Drafted, Draft, NoTranslation
 <2>2. CASE ~Drafted(i, q)
  <3>1. i \in DOMAIN version /\ Develops(i, q)
   <4>1. i \in DOMAIN version
     BY <1>0, <2>2 DEF VersionsAfter, VersionAfter, Same, Edited, Retold, Seen, Writes, Kin, Released, Turned, Replaced, Removed
   <4> QED BY <1>0, <4>1, VersionDevelops
  <3>2. version[i].doc \in Notices /\ NoticeText(i) BY <1>1, <3>1 DEF Develops, NoticesInv
  <3>3. version'[i].translation.text = None \/ Parses(version'[i].translation.text)
    BY <3>1, <3>2 DEF Develops, NoticeText, Acceptable
  <3>4. ASSUME version'[i].status = "PUBLISHED"
        PROVE  Parses(version'[i].source)
   <4>1. CASE version[i].status = "PUBLISHED" BY <3>1, <3>2, <4>1 DEF Develops, NoticeText, Acceptable
   <4>2. CASE version[i].status # "PUBLISHED"
    <5>1. Released(i, q) BY <3>4, <4>2, OutBefore
    <5> QED BY <1>0, <3>2, <5>1 DEF Released, Turned, LegalReady, PublishReady, VersionsOf
   <4> QED BY <4>1, <4>2
  <3> QED BY <3>3, <3>4
 <2> QED BY <2>1, <2>2
<1> QED BY <1>1 DEF NoticesInv, NoticeText, Parses

\* An approved translation is what the approval read, or was written meanwhile.
SeenOf(i) ==
  LET t == version[i].translation
  IN t.status = "APPROVED" =>
       /\ t.text # None /\ t.by \in Calls /\ call[t.by].pc \in Over
       /\ t.text = Loc(t.by).text \/ Racing(t.by, {"translate"})
SeenInv == \A i \in DOMAIN version : SeenOf(i)

\* What is approved stays what was seen.
LEMMA SeenKept ==
  ASSUME CallsOK, LegalBase, SeenInv, NEW q \in Calls, LegalFacts(q)
  PROVE  SeenInv'
<1>0. /\ VersionsAfter(q) /\ LegalReady(q) /\ Advances(q) /\ (\A r \in Calls \ {q} : call'[r] = call[r])
      /\ (version' = version \/ Finishes(q)) /\ call[q].pc \notin Over
  BY DEF LegalFacts, LegalBase, Advances, Alive, Begun, Over
<1>1. \A r \in Calls : Racing(r, {"translate"}) => Racing(r, {"translate"})' BY <1>0, RacingStays
<1>2. ASSUME NEW i \in DOMAIN version, version'[i].translation = version[i].translation
      PROVE  SeenOf(i)'
 <2> DEFINE t == version[i].translation
 <2>1. CASE t.status = "APPROVED"
  <3>1. /\ t.text # None /\ t.by \in Calls /\ call[t.by].pc \in Over
        /\ t.text = Loc(t.by).text \/ Racing(t.by, {"translate"})
    BY <2>1 DEF SeenInv, SeenOf
  <3>2. call'[t.by] = call[t.by] BY <1>0, <3>1
  <3> QED BY <1>1, <1>2, <3>1, <3>2 DEF SeenOf, Loc
 <2> QED BY <1>2, <2>1 DEF SeenOf
<1>3. ASSUME NEW i \in DOMAIN version, version' # version, Seen(i, q)
      PROVE  SeenOf(i)'
 <2>1. Does(q).op = "approve" /\ call[q].pc = "write" /\ i = Asked(q)
       /\ version'[i].translation.text = version[i].translation.text /\ version'[i].translation.by = q
   BY <1>3 DEF Seen, Writes
 <2>2. call'[q].pc = "done" /\ call'[q].loc = Loc(q) BY <1>0, <1>3 DEF Finishes
 <2>3. version[i].translation.text # None /\ (version[i].translation.text = Loc(q).text \/ Racing(q, {"translate"}))
   BY <1>0, <2>1 DEF LegalReady, ApproveReady
 <2> QED BY <1>1, <2>1, <2>2, <2>3 DEF SeenOf, Loc, Over
<1>4. ASSUME NEW i \in DOMAIN version'
      PROVE  SeenOf(i)'
 <2>1. CASE Drafted(i, q) \/ Retold(i, q) BY <2>1 DEF Drafted, Draft, NoTranslation, Retold, SeenOf
 <2>2. CASE Seen(i, q) /\ ~Same(i)
  <3>1. i \in DOMAIN version /\ version' # version BY <2>2 DEF Seen, Writes, Kin, Same
  <3> QED BY <1>3, <2>2, <3>1
 <2>3. CASE Same(i) \/ Edited(i, q) \/ Released(i, q) \/ Replaced(i, q) \/ Removed(i, q)
   BY <1>2, <2>3 DEF Same, Edited, Writes, Kin, Released, Replaced, Turned, Removed
 <2> QED BY <1>0, <2>1, <2>2, <2>3 DEF VersionsAfter, VersionAfter
<1> QED BY <1>4 DEF SeenInv

\* What who signs up has been through: it is accepted, or another version was out too.
Covered(q, i) ==
  \/ \E a \in accepted : a.version = i /\ a.user = Does(q).who
  \/ \E k \in DOMAIN version : k # i /\ version[k].doc = version[i].doc /\ version[k].status = "PUBLISHED"
SignedInv(q) ==
  Does(q).op = "signUp" /\ Begun(q) /\ ~plan.failures =>
    /\ call[q].pc \in {"find", "create", "done"}
    /\ call[q].end = "signedUp" => call[q].pc = "done"
    /\ call[q].pc = "done" => Loc(q).left = {}
    /\ \A i \in DOMAIN version :
         \/ version[i].status # "PUBLISHED" \/ version[i].by \notin call[q].since
         \/ version[i].doc \notin Signups \ Loc(q).left
         \/ call[q].pc = "create" /\ Loc(q).row = i
         \/ Covered(q, i)

\* That stays so while the version is out by the same call.
LEMMA CoveredStays ==
  ASSUME CallsOK, LegalBase, NEW x \in Calls, LegalFacts(x), NEW q \in Calls, Begun(q),
         NEW i \in DOMAIN version, version[i].status = "PUBLISHED", Covered(q, i),
         version'[i].status = "PUBLISHED", version'[i].by \in call[q].since
  PROVE  Covered(q, i)'
<1>0. plan' = plan /\ accepted \subseteq accepted' /\ Does(q)' = Does(q) /\ VersionsAfter(x) /\ Advances(x)
  BY DEF LegalFacts, Advances, Does
<1>1. CASE \E a \in accepted : a.version = i /\ a.user = Does(q).who BY <1>0, <1>1 DEF Covered
<1>2. ASSUME NEW k \in DOMAIN version, k # i, version[k].doc = version[i].doc, version[k].status = "PUBLISHED"
      PROVE  \E l \in DOMAIN version' : l # i /\ version'[l].doc = version'[i].doc /\ version'[l].status = "PUBLISHED"
 <2>0. x \notin call[q].since BY <1>0 DEF CallsOK, OverNow, Advances, Alive, Begun, Over
 <2>1. Develops(k, x) /\ Develops(i, x) BY <1>0, VersionDevelops DEF LegalBase
 <2>2. k \in DOMAIN version' /\ version'[k].doc = version'[i].doc BY <1>2, <2>1 DEF Develops
 <2>3. CASE Replaced(k, x)
  <3>1. Asked(x) \in VersionsOf(Slug(x)) /\ version'[Asked(x)].status = "PUBLISHED" /\ k \in Loc(x).archived
        /\ Does(x).op = "publish" /\ call[x].pc = "commit"
    BY <2>3 DEF Replaced, Turned
  <3>2. Asked(x) \in DOMAIN version /\ version[Asked(x)].doc = Slug(x) /\ version[k].doc = Slug(x)
    BY <3>1 DEF VersionsOf, LegalBase, LegalReady, PublishReady
  <3>3. Develops(Asked(x), x) BY <1>0, <3>2, VersionDevelops DEF LegalBase
  <3>4. Asked(x) # i BY <2>0, <2>3 DEF Replaced, Turned
  <3> QED BY <1>2, <2>1, <3>1, <3>2, <3>3, <3>4 DEF Develops
 <2>4. CASE Removed(k, x) BY <1>2, <2>4 DEF Removed, VersionsOf
 <2>5. CASE ~Replaced(k, x) /\ ~Removed(k, x)
  <3>1. VersionAfter(k, x) BY <1>0, <2>2 DEF VersionsAfter
  <3>2. version'[k].status = "PUBLISHED"
   <4>1. ~Drafted(k, x)
    <5>1. DOMAIN version = 1 .. Len(version) /\ Len(version) \in Nat BY DEF LegalBase, LegalRows
    <5> QED BY <5>1 DEF Drafted
   <4> QED BY <1>2, <2>5, <3>1, <4>1 DEF VersionAfter, Same, Edited, Retold, Seen, Writes, Released
  <3> QED BY <1>2, <2>2, <3>2
 <2> QED BY <2>3, <2>4, <2>5
<1> QED BY <1>0, <1>1, <1>2 DEF Covered

\* Somebody else's step leaves who signs up where it is.
LEMMA SignedOthers ==
  ASSUME CallsOK, LegalBase, NEW x \in Calls, LegalFacts(x), NEW q \in Calls \ {x}, SignedInv(q)
  PROVE  SignedInv(q)'
<1>0. /\ plan' = plan /\ call'[q] = call[q] /\ Does(q)' = Does(q) /\ Loc(q)' = Loc(q) /\ (Begun(q)' <=> Begun(q))
      /\ VersionsAfter(x) /\ Advances(x)
  BY DEF LegalFacts, Advances, Does, Loc, Begun
<1>1. SUFFICES ASSUME Does(q).op = "signUp", Begun(q), ~plan.failures
               PROVE  SignedInv(q)'
  BY <1>0 DEF SignedInv
<1>2. ASSUME NEW i \in DOMAIN version', version'[i].status = "PUBLISHED", version'[i].by \in call[q].since,
             version'[i].doc \in Signups \ Loc(q).left, ~(call[q].pc = "create" /\ Loc(q).row = i)
      PROVE  Covered(q, i)'
 <2>1. ~Released(i, x) BY <1>0, <1>2 DEF Released, CallsOK, OverNow, Advances, Alive, Begun, Over
 <2>2. i \in DOMAIN version /\ version[i].status = "PUBLISHED" /\ version[i].doc = version'[i].doc /\ version[i].by = version'[i].by
   BY <1>2, <2>1, OutBefore
 <2>3. Covered(q, i) BY <1>1, <1>2, <2>2 DEF SignedInv
 <2> QED BY <1>1, <1>2, <2>2, <2>3, CoveredStays
<1> QED BY <1>0, <1>1, <1>2 DEF SignedInv

\* Of the steps of the legal documents, three are a sign-up's.
LEMMA SignsUp ==
  ASSUME CallsOK, LegalBase, NEW q \in Calls, LegalStep(q), Does(q).op = "signUp"
  PROVE  BeginSignUp(q) \/ FindSignUp(q) \/ CreateSignUp(q) \/ (Dies(q) /\ UNCHANGED legalVars)
<1>0. Formed /\ plan \in Plans /\ version \in Seq(VersionType) BY DEF CallsOK, LegalBase, LegalRows
<1>1. ~createDocument(q) /\ ~CountPublished(q) /\ ~DeleteDocument(q) /\ ~FindLatest(q)
  BY <1>0, createDocumentIs, CountPublishedIs, DeleteDocumentIs, FindLatestIs
<1>2. ~CreateDraft(q) BY DEF CreateDraft, At
<1>3. ~CheckEdit(q) /\ ~WriteContent(q) /\ ~ReadTranslation(q) /\ ~ApproveTranslation(q)
  BY <1>0, CheckEditIs, WriteContentIs, ReadTranslationIs, ApproveTranslationIs
<1>4. ~CheckPublish(q) /\ ~ArchivePublished(q) /\ ~PublishVersion(q)
  BY <1>0, CheckPublishIs, ArchivePublishedIs, PublishVersionIs
<1>5. ~ReadAccepted(q) /\ ~CreateAcceptance(q) BY <1>0, ReadAcceptedIs, CreateAcceptanceIs
<1> QED BY <1>1, <1>2, <1>3, <1>4, <1>5 DEF LegalStep

\* Its own step: what it leaves behind is accepted, or was not the only one.
LEMMA SignedActor ==
  ASSUME CallsOK, LegalBase, NEW q \in Calls, LegalStep(q), SignedInv(q)
  PROVE  SignedInv(q)'
<1>0. /\ plan' = plan /\ Does(q)' = Does(q) /\ Formed /\ Advances(q) /\ accepted \subseteq accepted'
      /\ plan.failures' = plan.failures
  BY LegalFactsOf DEF CallsOK, LegalFacts, Advances, Does
<1>1. SUFFICES ASSUME Does(q).op = "signUp", ~plan.failures
               PROVE  SignedInv(q)'
  BY <1>0 DEF SignedInv
<1>2. CASE BeginSignUp(q)
 <2>1. UNCHANGED legalVars /\ call'[q].pc = "find" /\ call'[q].loc = [left |-> Signups, row |-> 0] /\ call'[q].end = None
   BY <1>0, <1>2, BeginSignUpIs, EnteredAt
 <2> QED BY <2>1, NoneIsNoText DEF SignedInv, Loc
<1>3. CASE FindSignUp(q)
 <2>0. UNCHANGED legalVars /\ call[q].pc = "find" /\ Begun(q) BY <1>0, <1>3, FindSignUpIs DEF Begun
 <2>1. /\ call[q].end # "signedUp"
       /\ \A i \in DOMAIN version :
            \/ version[i].status # "PUBLISHED" \/ version[i].by \notin call[q].since
            \/ version[i].doc \notin Signups \ Loc(q).left
            \/ Covered(q, i)
   BY <1>1, <2>0 DEF SignedInv
 <2>2. \A i : Covered(q, i)' <=> Covered(q, i) BY <1>0, <2>0 DEF Covered, legalVars
 <2>3. call'[q].since = call[q].since BY <1>0, <2>0 DEF Advances
 <2>4. CASE Loc(q).left = {} /\ Ended(q, "find", "signedUp")
  <3>1. call'[q].pc = "done" /\ call'[q].loc = Loc(q) BY <2>4, EndedAt
  <3> QED BY <2>0, <2>1, <2>2, <2>3, <2>4, <3>1 DEF SignedInv, Loc, legalVars
 <2>5. ASSUME NEW d, Published(d) = {}, Went(q, "find", "find", [left |-> Loc(q).left \ {d}, row |-> 0])
       PROVE  SignedInv(q)'
  <3>1. call'[q].pc = "find" /\ call'[q].loc.left = Loc(q).left \ {d} /\ call'[q].end # "signedUp"
    BY <2>1, <2>5, WentAt
  <3>2. \A i \in DOMAIN version : version[i].status = "PUBLISHED" => version[i].doc # d
    BY <2>5 DEF Published, VersionsOf
  <3> QED BY <2>0, <2>1, <2>2, <2>3, <3>1, <3>2 DEF SignedInv, Loc, legalVars
 <2>6. ASSUME NEW d, NEW k \in Published(d), Went(q, "find", "create", [left |-> Loc(q).left \ {d}, row |-> k])
       PROVE  SignedInv(q)'
  <3>1. call'[q].pc = "create" /\ call'[q].loc.left = Loc(q).left \ {d} /\ call'[q].loc.row = k /\ call'[q].end # "signedUp"
    BY <2>1, <2>6, WentAt
  <3>2. \A i \in DOMAIN version : version[i].doc = d => i = k \/ Covered(q, i)
    BY <2>6 DEF Published, VersionsOf, Covered
  <3>3. ASSUME NEW i \in DOMAIN version, version[i].status = "PUBLISHED", version[i].by \in call[q].since,
               version[i].doc \in Signups \ (Loc(q).left \ {d}), i # k
        PROVE  Covered(q, i)
    BY <2>1, <3>2, <3>3
  <3> QED BY <2>0, <2>2, <2>3, <3>1, <3>3 DEF SignedInv, Loc, legalVars
 <2> QED BY <1>0, <1>1, <1>3, <2>4, <2>5, <2>6, FindSignUpIs
<1>4. CASE CreateSignUp(q)
 <2>0. /\ UNCHANGED <<doc, version>> /\ call[q].pc = "create" /\ Begun(q) /\ call'[q].pc = "find" /\ call'[q].loc = Loc(q)
       /\ call'[q].end = call[q].end
       /\ version[Loc(q).row].status = "GONE" \/ Acceptance(q, Loc(q).row) \in accepted'
   BY <1>0, <1>1, <1>4, CreateSignUpIs, WentAt DEF Begun
 <2>1. call'[q].since = call[q].since BY <1>0, <2>0 DEF Advances
 <2>2. \A i : Covered(q, i) => Covered(q, i)' BY <1>0, <2>0 DEF Covered
 <2>3. ASSUME NEW i \in DOMAIN version, version[i].status = "PUBLISHED", Loc(q).row = i
       PROVE  Covered(q, i)'
   BY <1>0, <2>0, <2>3 DEF Covered, Acceptance
 <2>4. call[q].end # "signedUp" BY <1>1, <2>0 DEF SignedInv
 <2> QED BY <1>1, <2>0, <2>1, <2>2, <2>3, <2>4 DEF SignedInv, Loc
<1>5. CASE Dies(q) BY <1>1, <1>5 DEF Dies
<1> QED BY <1>1, <1>2, <1>3, <1>4, <1>5, SignsUp

\* All of it together, for every step of the system.
LegalInv == LegalBase /\ OutInv /\ NoticesInv /\ SeenInv /\ \A q \in Calls : SignedInv(q)

\* All of it is kept by such a step.
LEMMA LegalInvStep ==
  ASSUME CallsOK, LegalInv, NEW x \in Calls, LegalFacts(x), SignedInv(x)'
  PROVE  LegalInv'
<1>1. \A q \in Calls : SignedInv(q)' BY SignedOthers DEF LegalInv
<1> QED BY <1>1, LegalBaseKept, OneKept, NoticesKept, SeenKept DEF LegalInv

\* And by one that moves nothing.
LEMMA LegalInvStays ==
  ASSUME CallsOK, LegalInv, Times, LegalStays
  PROVE  LegalInv'
<1>0. plan' = plan /\ call' = call /\ doc' = doc /\ version' = version /\ accepted' = accepted
  BY DEF Times, LegalStays, legalVars
<1>1. LegalBase'
  BY <1>0 DEF LegalInv, LegalBase, LegalRows, LegalReady, EditReady, ApproveReady, PublishReady, AcceptReady, SignReady, DraftReady,
     Does, Loc, Asked, Slug, Acceptable, Parses, NotOut, Racing, Overlap, Begun
<1>2. OutInv' BY <1>0 DEF LegalInv, OutInv, OneOut, Archives, RacedPublish, Overlap, Begun, Does, Loc, Slug
<1>3. NoticesInv' /\ SeenInv'
  BY <1>0 DEF LegalInv, NoticesInv, NoticeText, SeenInv, SeenOf, Parses, Racing, Overlap, Begun, Does, Loc
<1>4. \A q \in Calls : SignedInv(q)' BY <1>0 DEF LegalInv, SignedInv, Covered, Begun, Does, Loc
<1> QED BY <1>1, <1>2, <1>3, <1>4 DEF LegalInv

\* And so by every step of the system.
LEMMA LegalSystem ==
  ASSUME CallsOK, LegalInv, [ServicesNext]_servicesVars
  PROVE  LegalInv'
<1>1. CASE LegalNext
 <2>1. PICK q \in Calls : LegalStep(q) BY <1>1 DEF LegalNext
 <2>2. LegalFacts(q) BY <2>1, LegalFactsOf DEF LegalInv
 <2>3. SignedInv(q)' BY <2>1, SignedActor DEF LegalInv
 <2> QED BY <2>2, <2>3, LegalInvStep
<1>2. ASSUME NEW q \in Calls, Advances(q), Does(q).op \notin LegalOps, LegalStays
      PROVE  LegalInv'
 <2>1. LegalFacts(q) BY <1>2, LegalElsewhere DEF LegalInv, LegalStays
 <2>2. SignedInv(q)' BY <1>2 DEF SignedInv, Advances, Does, LegalOps
 <2> QED BY <2>1, <2>2, LegalInvStep
<1>3. CASE Times /\ LegalStays BY <1>3, LegalInvStays
<1>4. CASE LegalStays /\ (InboundNext \/ VisitorsNext \/ IntegrationsNext \/ BootstrapNext)
 <2>1. Times \/ \E q \in Calls : Advances(q) /\ Does(q).op \notin LegalOps
   BY <1>4, InboundIs, VisitorsIs, IntegrationsIs, BootstrapIs, OpsApart DEF ByCall
 <2> QED BY <1>4, <2>1, <1>2, <1>3
<1> QED BY <1>1, <1>3, <1>4, SystemStep

\* A plan starts with documents that fit.
LEMMA LegalBegins ==
  ASSUME CallsInit, LegalInit
  PROVE  LegalInv
<1>0. plan \in Plans /\ doc \subseteq Docs /\ version = plan.versions /\ accepted = {} /\ \A q \in Calls : call[q] = Idle
  BY DocumentsAreTold DEF CallsInit, LegalInit
<1>1. \A q \in Calls : call[q].pc = "new" BY <1>0 DEF Idle
<1> DEFINE First == [doc : Docs, number : Nat, status : {"DRAFT", "PUBLISHED"}, source : Texts,
                     reaccept : {FALSE}, translation : {NoTranslation}, by : {None}]
<1>2. version \in Seq(First) BY <1>0, DocumentsAreTold
<1>3. First \subseteq VersionType
 <2>1. NoTranslation \in TranslationType BY DEF NoTranslation, TranslationType
 <2> QED BY <2>1 DEF VersionType
<1> HIDE DEF First
<1>4. \A i \in DOMAIN version : version[i].translation = NoTranslation /\ version[i].status # "GONE"
 <2>1. \A i \in DOMAIN version : version[i] \in First BY <1>2, ElementOfSeq
 <2> QED BY <2>1 DEF First
<1>5. version \in Seq(VersionType) BY <1>2, <1>3, SeqOfPart
<1>6. /\ \A i, k \in DOMAIN version :
           version[i].doc = version[k].doc
           /\ (version[i].number = version[k].number \/ (version[i].status = "PUBLISHED" /\ version[k].status = "PUBLISHED"))
           => i = k
      /\ \A i \in DOMAIN version : version[i].status = "PUBLISHED" /\ version[i].doc \in Notices => version[i].source # Broken
  BY <1>0, DocumentsAreTold
<1>7. LegalRows BY <1>0, <1>5, <1>6 DEF LegalRows
<1>8. \A q \in Calls : LegalReady(q) /\ SignedInv(q) /\ Archives(q)
  BY <1>1 DEF LegalReady, EditReady, ApproveReady, PublishReady, AcceptReady, SignReady, DraftReady, SignedInv, Begun, Archives
<1>9. OutInv /\ NoticesInv /\ SeenInv
  BY <1>4, <1>6, <1>8 DEF OutInv, OneOut, NoticesInv, NoticeText, SeenInv, SeenOf, NoTranslation, Parses
<1> QED BY <1>0, <1>7, <1>8, <1>9 DEF LegalInv, LegalBase

\* What the invariant says of what is served and accepted.
LEMMA EvidenceThen ==
  ASSUME CallsOK, LegalInv
  PROVE  OnePublishedUnlessRacing /\ ServedNoticeParses /\ ApprovedWasSeen /\ AcceptanceKept /\ AskedForNewerOnly
<1>0. version \in Seq(VersionType) BY DEF LegalInv, LegalBase, LegalRows
<1>1. OnePublishedUnlessRacing BY DEF LegalInv, OutInv, RacedPublish, OneOut, OnePublishedUnlessRacing
<1>2. ServedNoticeParses
  BY DEF LegalInv, NoticesInv, NoticeText, SeenInv, SeenOf, ServedNoticeParses, resolveContent, Published, VersionsOf
<1>3. ApprovedWasSeen BY DEF LegalInv, SeenInv, SeenOf, ApprovedWasSeen
<1>4. AcceptanceKept BY DEF LegalInv, LegalBase, LegalRows, AcceptanceKept
<1>5. ASSUME ~plan.failures, NEW q \in Calls, Does(q).op = "signUp", call[q].end = "signedUp", NEW i \in Pending(Does(q).who),
             version[i].doc \in Signups, version[i].by \in call[q].since
      PROVE  Cardinality(Published(version[i].doc)) > 1
 <2>1. Begun(q) BY <1>5, NoneIsNoText DEF CallsOK, Idle
 <2>2. i \in DOMAIN version /\ version[i].status = "PUBLISHED" /\ ~\E a \in accepted : a.version = i /\ a.user = Does(q).who
   BY <1>5 DEF Pending
 <2>3. Covered(q, i) BY <1>5, <2>1, <2>2 DEF LegalInv, SignedInv
 <2>4. PICK k \in DOMAIN version : k # i /\ version[k].doc = version[i].doc /\ version[k].status = "PUBLISHED"
   BY <2>2, <2>3 DEF Covered
 <2>5. i \in Published(version[i].doc) /\ k \in Published(version[i].doc) BY <2>2, <2>4 DEF Published, VersionsOf
 <2> QED BY <1>0, <2>4, <2>5, VersionsAreFew, TwoAreMore
<1>6. AskedForNewerOnly BY <1>5 DEF AskedForNewerOnly
<1> QED BY <1>1, <1>2, <1>3, <1>4, <1>6

\* A step keeps what is out as it was, but for a call that was let through before.
Frozen == \A i \in DOMAIN version :
  \/ version[i].status \in {"DRAFT", "GONE"} \/ version'[i].status = "GONE"
  \/ /\ version'[i].source = version[i].source
     /\ version[i].status = "ARCHIVED" => version'[i].status = "ARCHIVED"
  \/ \E q \in Calls : call'[q] # call[q] /\ Racing(q, {"publish"})

\* Every step of the legal documents does so.
LEMMA FrozenBy ==
  ASSUME CallsOK, LegalInv, NEW x \in Calls, LegalFacts(x)
  PROVE  Frozen
<1>1. SUFFICES ASSUME NEW i \in DOMAIN version, version[i].status \notin {"DRAFT", "GONE"}, version'[i].status # "GONE",
                      ~Racing(x, {"publish"}) \/ call'[x] = call[x]
               PROVE  /\ version'[i].source = version[i].source
                      /\ version[i].status = "ARCHIVED" => version'[i].status = "ARCHIVED"
  BY DEF Frozen
<1>2. CASE version' = version BY <1>2
<1>3. CASE version' # version
 <2>1. call'[x].pc # call[x].pc /\ VersionAfter(i, x) /\ LegalReady(x)
   BY <1>3 DEF LegalFacts, Finishes, VersionsAfter, LegalInv, LegalBase
 <2>2. ~Racing(x, {"publish"}) BY <1>1, <2>1
 <2>3. ~Drafted(i, x)
  <3>1. DOMAIN version = 1 .. Len(version) /\ Len(version) \in Nat BY DEF LegalInv, LegalBase, LegalRows
  <3> QED BY <3>1 DEF Drafted
 <2>4. ~Edited(i, x) /\ ~Released(i, x)
   BY <1>1, <2>1, <2>2 DEF Edited, Writes, Released, Turned, LegalReady, EditReady, PublishReady, NotOut
 <2> QED BY <1>1, <2>1, <2>3, <2>4 DEF VersionAfter, Same, Retold, Seen, Writes, Replaced, Turned, Removed
<1> QED BY <1>2, <1>3

\* And so does every step of the system.
LEMMA FrozenSystem ==
  ASSUME CallsOK, LegalInv, [ServicesNext]_servicesVars
  PROVE  Frozen
<1>1. ASSUME NEW q \in Calls, LegalStep(q)
      PROVE  Frozen
  BY <1>1, LegalFactsOf, FrozenBy DEF LegalInv
<1>2. CASE LegalStays BY <1>2 DEF LegalStays, legalVars, Frozen
<1> QED BY <1>1, <1>2, SystemStep DEF LegalNext

\* A document is evidence, however many administrators work on it while it is served
\* and accepted, and whatever else the services do meanwhile.
THEOREM ServicesDocumentsAreEvidence == ServicesSpec => DocumentsAreEvidence
<1>1. ServicesInit => CallsOK /\ LegalInv BY BootInit, LegalBegins DEF ServicesInit
<1>2. CallsOK /\ LegalInv /\ [ServicesNext]_servicesVars => (CallsOK /\ LegalInv)' BY SystemCalls, LegalSystem
<1>3. CallsOK /\ LegalInv =>
        OnePublishedUnlessRacing /\ ServedNoticeParses /\ ApprovedWasSeen /\ AcceptanceKept /\ AskedForNewerOnly
  BY EvidenceThen
<1>4. CallsOK /\ LegalInv /\ [ServicesNext]_servicesVars => [Frozen]_<<plan, call, legalVars>> BY FrozenSystem
<1>5. PublishedSourceFrozen <=> [][Frozen]_<<plan, call, legalVars>> BY PTL DEF PublishedSourceFrozen, Frozen
<1> QED BY <1>1, <1>2, <1>3, <1>4, <1>5, PTL DEF ServicesSpec, DocumentsAreEvidence
=============================================================================
