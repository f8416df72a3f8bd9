------------------------- MODULE TokenBillingProofs -------------------------
(* TypeOK, UsageAccounted and LimitsHoldUnraced are invariants of
   TokenBilling, whatever the plans and the bounds.
   
   First what each action does (one lemma each), and from these what any
   step does: one call moves, or the calls and the log stay and the row
   Keeps what it is charged by, Resets the month, or gets another limit or
   allocation.  Begun says which calls began after which were over, so
   that having raced another call is never taken back (RacedStays), and a
   step of one call makes every other that is under way one that raced
   (StepRaces).
   
   LedgerBalanced is kept because the row and the counter are written in
   one transaction.  ReportedIsRecorded needs that a call on its way to
   the meter has a row that costs (Rows); PurchasesKept that a purchase
   about to write read the tokens bought as they are, or raced (Buying);
   OverageCharged and OverrunOnlyRacing that a turn under way was let in,
   and charged, by the account it will be written to, or raced (Beyond,
   with Allotted); BilledWithinLimit counts the rows that will be reported
   with those that were, and needs that the period has never gone beyond
   the latest (Limited); ResetOncePerPayment that each payment under way
   has one handler (Once). *)
EXTENDS TokenBilling, FiniteSums, SequenceTheorems, TLAPS

(* The types *)

Tiers == {"FREE", "PREMIUM"}
SubRow ==
  [tier : Tiers, status : {"ACTIVE", "INACTIVE", "PAST_DUE"}, alloc : Nat, bought : Nat, used : Nat,
   limit : Nat, stripe : {None} \cup Nat, period : Nat, newest : Nat, cancel : BOOLEAN, plan : Nat,
   scheduled : Nat]
Pcs == Over \cup {"new", "answer", "track", "commit", "limit", "report", "pay", "note", "create", "persist"}
Outcomes == {"none", "refused", "lost", "tracked", "duplicate", "threw", "reported", "unreported",
             "bought", "subscribed"}
CallRow ==
  [op : Ops, pc : Pcs, n : Nat, cost : Nat, seen : SubRow, end : Outcomes, since : SUBSET Calls]
LogRow ==
  [by : Calls, op : Ops, n : Nat, cost : Nat, at : Nat, used : Nat, bought : Nat, tier : Tiers]
StripeRow ==
  [status : {"incomplete", "active", "past_due", "canceled"}, period : Nat, cancel : BOOLEAN,
   price : Nat, by : Calls \cup {None}, again : BOOLEAN]
Event ==
  [type : {"updated", "succeeded", "failed", "deleted"}, s : Nat, batch : Nat,
   status : {"incomplete", "active", "past_due", "canceled"}, cancel : BOOLEAN, period : Nat]
Handler == [e : Nat, pc : {"write", "migrate"}, tier : Tiers, scheduled : Nat, period : Nat]

Types ==
  /\ plan \in Plans /\ month \in 0 .. plan.months /\ sub \in SubRow /\ blocked \in BOOLEAN
  /\ level \in Tiers /\ logs \in Seq(LogRow) /\ call \in [Calls -> CallRow]
  /\ stripe \in Seq(StripeRow) /\ meter \in [Calls -> Nat] /\ events \in Seq(Event)
  /\ outstanding \subseteq DOMAIN events /\ handling \subseteq Handler
  /\ version \in 1 .. plan.versions /\ publishing \in BOOLEAN /\ usable \in BOOLEAN
  /\ resets \in Seq(Nat) /\ repeats \in Nat /\ disturbed \in BOOLEAN /\ unsettled \in BOOLEAN

Ranges ==
  /\ sub.stripe \in {None} \cup DOMAIN stripe
  /\ \A q \in Calls : call[q].seen.stripe \in {None} \cup DOMAIN stripe
  /\ \A q \in Calls : call[q].pc = "persist" => call[q].n \in DOMAIN stripe
  /\ \A h \in handling : h.e \in DOMAIN events
  /\ \A e \in DOMAIN events : events[e].s \in DOMAIN stripe
  /\ \A s \in DOMAIN stripe : stripe[s].status = "incomplete" => stripe[s].by \in Calls
  /\ publishing => version < plan.versions

\* The fields of a plan.
LEMMA PlanTypes ==
  ASSUME Types
  PROVE  /\ plan.months \in Nat /\ plan.versions \in Nat \ {0} /\ plan.batches \in Nat
         /\ plan.limit \in Nat /\ plan.ops \in [Calls -> Ops] /\ month \in Nat /\ version \in Nat
         /\ plan.premium \in BOOLEAN
  BY PlanAssumption DEF Types

\* The rows of the log, and what they are summed by.
LEMMA LogTypes ==
  ASSUME Types
  PROVE  /\ DOMAIN logs = 1 .. Len(logs) /\ Len(logs) \in Nat /\ IsFiniteSet(DOMAIN logs)
         /\ \A i \in DOMAIN logs : /\ logs[i] \in LogRow /\ logs[i].by \in Calls /\ logs[i].at \in Nat
                                   /\ Costs[i] = logs[i].cost /\ Costs[i] \in Nat
                                   /\ Tokens[i] = logs[i].n /\ Tokens[i] \in Nat
<1>1. logs \in Seq(LogRow) BY DEF Types
<1>2. DOMAIN logs = 1 .. Len(logs) /\ Len(logs) \in Nat /\ \A i \in DOMAIN logs : logs[i] \in LogRow BY <1>1
<1>3. IsFiniteSet(DOMAIN logs) BY <1>2, FS_Interval
<1>4. \A i \in DOMAIN logs : Costs[i] = logs[i].cost /\ Tokens[i] = logs[i].n BY DEF Costs, Tokens
<1>5. \A i \in DOMAIN logs : /\ logs[i].by \in Calls /\ logs[i].at \in Nat
                             /\ logs[i].cost \in Nat /\ logs[i].n \in Nat
  BY <1>2 DEF LogRow
<1> QED BY <1>2, <1>3, <1>4, <1>5

\* The row of a new customer.
LEMMA CustomerTypes ==
  ASSUME NEW tier \in Tiers, NEW id \in {None} \cup Nat, plan \in Plans
  PROVE  Customer(tier, id) \in SubRow
  BY PlanAssumption DEF Customer, SubRow, Tiers

\* The initial states are typed.
LEMMA InitTypes == Init => Types /\ Ranges
<1> SUFFICES ASSUME Init PROVE Types /\ Ranges OBVIOUS
<1>1. /\ plan \in Plans /\ plan.months \in Nat /\ plan.versions \in Nat \ {0} /\ plan.ops \in [Calls -> Ops]
      /\ plan.premium \in BOOLEAN
  BY PlanAssumption DEF Init
<1>2. \A tier \in Tiers : \A id \in {None} \cup Nat : Customer(tier, id) \in SubRow BY <1>1, CustomerTypes
<1>3. sub \in SubRow /\ sub.stripe \in {None} \cup DOMAIN stripe BY <1>1, <1>2 DEF Init, Tiers, Customer, AtStripe
<1>4. \A q \in Calls : Idle(plan.ops[q]) \in CallRow BY <1>1, <1>2 DEF Idle, CallRow, Tiers, Pcs, Outcomes
<1>5. call \in [Calls -> CallRow] BY <1>4 DEF Init
<1>6. AtStripe("active", 1, None) \in StripeRow /\ AtStripe("active", 1, None).status = "active"
  BY DEF AtStripe, StripeRow
<1>7. stripe = <<>> \/ stripe = <<AtStripe("active", 1, None)>> BY DEF Init
<1>8. stripe \in Seq(StripeRow) /\ \A s \in DOMAIN stripe : stripe[s].status # "incomplete"
 <2>1. CASE stripe = <<>> BY <2>1
 <2>2. CASE stripe = <<AtStripe("active", 1, None)>> BY <1>6, <2>2
 <2> QED BY <1>7, <2>1, <2>2
<1>9. \A q \in Calls : call[q].seen.stripe = None /\ call[q].pc = "new" BY DEF Init, Idle, Customer
<1>10. level \in Tiers BY <1>3 DEF Init, SubRow
<1>11. /\ meter \in [Calls -> Nat] /\ events = <<>> /\ outstanding = {} /\ handling = {} /\ logs = <<>>
       /\ resets = <<>> /\ version = 1 /\ repeats = 0 /\ month = 0
       /\ blocked = FALSE /\ publishing = FALSE /\ usable = TRUE /\ disturbed = FALSE /\ unsettled = FALSE
  BY DEF Init
<1>12. /\ month \in 0 .. plan.months /\ version \in 1 .. plan.versions
       /\ events \in Seq(Event) /\ logs \in Seq(LogRow) /\ resets \in Seq(Nat)
       /\ outstanding \subseteq DOMAIN events /\ handling \subseteq Handler /\ repeats \in Nat
       /\ DOMAIN events = {}
  BY <1>1, <1>11
<1>13. Types BY <1>1, <1>3, <1>5, <1>8, <1>10, <1>11, <1>12 DEF Types
<1>14. Ranges BY <1>3, <1>8, <1>9, <1>11, <1>12 DEF Ranges
<1> QED BY <1>13, <1>14

(* What a step does *)
LEMMA MinOfTwo ==
  ASSUME NEW a \in Int, NEW b \in Int
  PROVE  Min({a, b}) = IF a <= b THEN a ELSE b
<1>1. \E x \in {a, b} : \A y \in {a, b} : x <= y OBVIOUS
<1>2. Min({a, b}) \in {a, b} /\ \A y \in {a, b} : Min({a, b}) <= y BY <1>1 DEF Min
<1> QED BY <1>2

\* The larger of two.
LEMMA MaxOfTwo ==
  ASSUME NEW a \in Int, NEW b \in Int
  PROVE  Max({a, b}) = IF a <= b THEN b ELSE a
<1>1. \E x \in {a, b} : \A y \in {a, b} : x >= y OBVIOUS
<1>2. Max({a, b}) \in {a, b} /\ \A y \in {a, b} : Max({a, b}) >= y BY <1>1 DEF Max
<1> QED BY <1>2

\* The later of two periods is no earlier than either.
LEMMA LatestOfTwo ==
  ASSUME NEW a \in Nat, NEW b \in Nat
  PROVE  Max({a, b}) \in Nat /\ a <= Max({a, b}) /\ b <= Max({a, b})
<1>1. Max({a, b}) = IF a <= b THEN b ELSE a BY MaxOfTwo
<1> QED BY <1>1

\* The local states a step gives a call.
LEMMA Locals ==
  ASSUME NEW c \in CallRow, NEW pc \in Pcs, NEW end \in Outcomes, NEW n \in Nat, NEW cost \in Nat,
         NEW seen \in SubRow
  PROVE  /\ [c EXCEPT !.pc = pc, !.end = end] \in CallRow
         /\ [c EXCEPT !.pc = pc, !.n = n] \in CallRow
         /\ [c EXCEPT !.pc = pc] \in CallRow
         /\ [c EXCEPT !.pc = pc, !.cost = cost, !.seen = seen] \in CallRow
         /\ [c EXCEPT !.seen = seen, !.pc = pc, !.end = end] \in CallRow
         /\ [c EXCEPT !.n = n, !.cost = cost, !.seen = seen, !.pc = pc, !.end = end] \in CallRow
<1>1. /\ c.op \in Ops /\ c.n \in Nat /\ c.cost \in Nat /\ c.seen \in SubRow /\ c.end \in Outcomes
      /\ c.since \in SUBSET Calls /\ c.pc \in Pcs
      /\ c = [op |-> c.op, pc |-> c.pc, n |-> c.n, cost |-> c.cost, seen |-> c.seen,
              end |-> c.end, since |-> c.since]
  BY DEF CallRow
<1> QED BY <1>1 DEF CallRow

\* A call is given a local state, the others keep theirs.
LEMMA CallMade ==
  ASSUME Types, NEW q \in Calls, NEW local \in CallRow, call' = [call EXCEPT ![q] = local]
  PROVE  call' \in [Calls -> CallRow] /\ call'[q] = local /\ \A r \in Calls : r # q => call'[r] = call[r]
  BY DEF Types

\* Only call q moved: it began, after the calls that were over, or went on.
Moved(q) ==
  /\ call' \in [Calls -> CallRow] /\ \A r \in Calls : r # q => call'[r] = call[r]
  /\ call'[q].op = call[q].op /\ call'[q].pc # "new" /\ call[q].pc \notin Over
  /\ \/ call[q].pc = "new" /\ call'[q].since = {r \in Calls : call[r].pc \in Over}
     \/ call[q].pc # "new" /\ call'[q].since = call[q].since

\* Starts begins one call, after those that are over.
LEMMA Starting ==
  ASSUME Types, NEW q \in Calls, NEW op, NEW local \in CallRow, Starts(q, op, local),
         local.op = call[q].op, local.pc # "new"
  PROVE  /\ Moved(q) /\ call[q].pc = "new" /\ call[q].op = op
         /\ call'[q].pc = local.pc /\ call'[q].n = local.n /\ call'[q].cost = local.cost
         /\ call'[q].seen = local.seen
<1> DEFINE over == {r \in Calls : call[r].pc \in Over}
           made == [local EXCEPT !.since = over]
<1>1. call' = [call EXCEPT ![q] = made] /\ call[q].pc = "new" /\ call[q].op = op BY DEF Starts
<1>2. over \in SUBSET Calls OBVIOUS
<1>3. made \in CallRow /\ made.since = over /\ made.op = local.op /\ made.pc = local.pc
      /\ made.n = local.n /\ made.cost = local.cost /\ made.seen = local.seen
  BY <1>2 DEF CallRow
<1>4. call' \in [Calls -> CallRow] /\ call'[q] = made /\ \A r \in Calls : r # q => call'[r] = call[r]
  BY <1>1, <1>3, CallMade
<1>5. Moved(q) BY <1>1, <1>3, <1>4 DEF Moved, Over
<1> QED BY <1>1, <1>3, <1>4, <1>5

\* Moves takes one call on.
LEMMA Moving ==
  ASSUME Types, NEW q \in Calls, NEW from \in Pcs \ (Over \cup {"new"}), NEW local \in CallRow,
         Moves(q, from, local), local.op = call[q].op, local.pc # "new", local.since = call[q].since
  PROVE  Moved(q) /\ call[q].pc = from /\ call'[q] = local
<1>1. call' = [call EXCEPT ![q] = local] /\ call[q].pc = from BY DEF Moves
<1>2. call' \in [Calls -> CallRow] /\ call'[q] = local /\ \A r \in Calls : r # q => call'[r] = call[r]
  BY <1>1, CallMade
<1> QED BY <1>1, <1>2 DEF Moved

\* A step of call q that leaves Stripe and the events alone.
LEMMA TurnKeeps ==
  ASSUME Types, Ranges, NEW q \in Calls, Moved(q),
         call'[q].seen.stripe \in {None, call[q].seen.stripe, sub.stripe}, call'[q].pc # "persist",
         sub' \in SubRow, sub'.stripe \in {None, sub.stripe} \cup DOMAIN stripe,
         logs' \in Seq(LogRow), meter' \in [Calls -> Nat],
         UNCHANGED <<plan, month, blocked, level, stripe, hooks, prices, resets>>
  PROVE  Types' /\ Ranges'
<1>1. Types' BY DEF Types, Moved, hooks, prices
<1>2. \A r \in Calls : /\ call'[r].seen.stripe \in {None} \cup DOMAIN stripe
                       /\ call'[r].pc = "persist" => call'[r].n \in DOMAIN stripe
  BY DEF Ranges, Moved
<1>3. Ranges' BY <1>2 DEF Ranges, hooks, prices
<1> QED BY <1>1, <1>3

--------------------
(* The steps of a call. *)

\* Only call q changes, among what the accounts are made of.
Goes(q) == Moved(q) /\ UNCHANGED <<plan, month, sub, logs, meter, resets>>

\* A step that changes a call's local state and nothing else.
LEMMA OnlyCall ==
  ASSUME Types, Ranges, NEW q \in Calls, Moved(q),
         call'[q].seen.stripe \in {None, call[q].seen.stripe, sub.stripe}, call'[q].pc # "persist",
         UNCHANGED <<plan, month, sub, blocked, level, logs, stripe, meter, hooks, prices, resets>>
  PROVE  Types' /\ Ranges' /\ Goes(q)
<1>1. sub' \in SubRow /\ logs' \in Seq(LogRow) /\ meter' \in [Calls -> Nat] BY DEF Types
<1>2. Types' /\ Ranges' BY <1>1, TurnKeeps
<1> QED BY <1>2 DEF Goes

\* checkTokenQuota lets a turn be answered only when it is Allowed.
LEMMA CheckTokenQuotaEffect ==
  ASSUME Types, Ranges, NEW q \in Calls, CheckTokenQuota(q)
  PROVE  /\ Types' /\ Ranges' /\ Goes(q) /\ call[q].pc = "new" /\ call[q].op = "chat"
         /\ call'[q].pc \in {"answer", "done"} /\ (call'[q].pc = "answer" => Allowed)
<1> DEFINE local == [call[q] EXCEPT !.pc = IF Allowed THEN "answer" ELSE "done",
                                    !.end = IF Allowed THEN "none" ELSE "refused"]
<1>0. call[q] \in CallRow BY DEF Types
<1>1. /\ local \in CallRow /\ local.op = call[q].op /\ local.seen = call[q].seen
      /\ local.pc = IF Allowed THEN "answer" ELSE "done"
 <2>1. /\ (IF Allowed THEN "answer" ELSE "done") \in Pcs
       /\ (IF Allowed THEN "none" ELSE "refused") \in Outcomes
   BY DEF Pcs, Over, Outcomes
 <2>2. call[q].seen \in SubRow /\ call[q].n \in Nat BY <1>0 DEF CallRow
 <2>3. local \in CallRow BY <1>0, <2>1, <2>2, Locals
 <2> QED BY <1>0, <2>3 DEF CallRow
<1>2. Starts(q, "chat", local) BY DEF CheckTokenQuota
<1> HIDE DEF local
<1>3. /\ Moved(q) /\ call[q].pc = "new" /\ call[q].op = "chat"
      /\ call'[q].pc = local.pc /\ call'[q].seen = local.seen
  BY <1>1, <1>2, Starting
<1>4. Types' /\ Ranges' /\ Goes(q) BY <1>1, <1>3, OnlyCall DEF CheckTokenQuota
<1> QED BY <1>1, <1>3, <1>4

\* The answer takes a turn to trackTokenUsage.
LEMMA AnswerEffect ==
  ASSUME Types, Ranges, NEW q \in Calls, NEW n \in Amounts, Answer(q, n)
  PROVE  Types' /\ Ranges' /\ Goes(q) /\ call[q].pc = "answer" /\ call'[q].pc = "track"
<1> DEFINE local == [call[q] EXCEPT !.pc = "track", !.n = n]
<1>1. call[q] \in CallRow /\ "track" \in Pcs /\ n \in Nat /\ call[q].seen \in SubRow
      /\ call[q].end \in Outcomes
  BY PlanAssumption DEF Types, CallRow, Pcs
<1>2. local \in CallRow BY <1>1, Locals
<1>3. /\ local.op = call[q].op /\ local.seen = call[q].seen /\ local.pc = "track"
      /\ local.since = call[q].since
  BY <1>1 DEF CallRow
<1>4. Moves(q, "answer", local) BY DEF Answer
<1> HIDE DEF local
<1>5. Moved(q) /\ call[q].pc = "answer" /\ call'[q] = local BY <1>2, <1>3, <1>4, Moving DEF Pcs, Over
<1>6. Types' /\ Ranges' /\ Goes(q) BY <1>3, <1>5, OnlyCall DEF Answer
<1> QED BY <1>3, <1>5, <1>6

\* The notice of an ingestion takes its call to trackTokenUsage.
LEMMA IngestionCompletedEffect ==
  ASSUME Types, Ranges, NEW q \in Calls, NEW n \in Amounts, IngestionCompleted(q, n)
  PROVE  /\ Types' /\ Ranges' /\ Goes(q) /\ call[q].pc = "new" /\ call[q].op = "ingest"
         /\ call'[q].pc = "track"
<1> DEFINE local == [call[q] EXCEPT !.pc = "track", !.n = n]
<1>0. call[q] \in CallRow /\ "track" \in Pcs /\ n \in Nat /\ call[q].seen \in SubRow
      /\ call[q].end \in Outcomes
  BY PlanAssumption DEF Types, CallRow, Pcs
<1>1. /\ local \in CallRow /\ local.op = call[q].op /\ local.seen = call[q].seen
      /\ local.pc = "track" /\ local.pc # "new"
 <2>1. local \in CallRow BY <1>0, Locals
 <2> QED BY <1>0, <2>1 DEF CallRow
<1>2. Starts(q, "ingest", local) BY DEF IngestionCompleted
<1> HIDE DEF local
<1>3. /\ Moved(q) /\ call[q].pc = "new" /\ call[q].op = "ingest"
      /\ call'[q].pc = local.pc /\ call'[q].seen = local.seen
  BY <1>1, <1>2, Starting
<1>4. Types' /\ Ranges' /\ Goes(q) BY <1>1, <1>3, OnlyCall DEF IngestionCompleted
<1> QED BY <1>1, <1>3, <1>4

\* The row is read; beyond the allocation of a premium owner all tokens cost.
LEMMA ReadUsageEffect ==
  ASSUME Types, Ranges, NEW q \in Calls, ReadUsage(q)
  PROVE  /\ Types' /\ Ranges' /\ Goes(q) /\ call[q].pc = "track"
         /\ call'[q].pc = "commit" /\ call'[q].n = call[q].n /\ call'[q].seen = sub
         /\ sub.tier = "PREMIUM" /\ sub.used >= sub.alloc => call'[q].cost = call[q].n
<1> DEFINE n == call[q].n
           overage == IF sub.tier = "PREMIUM" /\ sub.used >= sub.alloc
                      THEN Min({n, sub.used + n - sub.alloc}) ELSE 0
           local == [call[q] EXCEPT !.pc = "commit", !.cost = overage, !.seen = sub]
<1>1. n \in Nat /\ sub.used \in Nat /\ sub.alloc \in Nat /\ sub \in SubRow BY DEF Types, CallRow, SubRow
<1>2. sub.used >= sub.alloc => Min({n, sub.used + n - sub.alloc}) = n
 <2>1. sub.used + n - sub.alloc \in Int /\ (sub.used >= sub.alloc => n <= sub.used + n - sub.alloc) BY <1>1
 <2> QED BY <1>1, <2>1, MinOfTwo
<1>3. overage \in Nat /\ (sub.tier = "PREMIUM" /\ sub.used >= sub.alloc => overage = n) BY <1>1, <1>2
<1>4. Moves(q, "track", local) BY DEF ReadUsage
<1> HIDE DEF overage
<1>5. /\ local \in CallRow /\ local.op = call[q].op /\ local.seen = sub /\ local.since = call[q].since
      /\ local.pc = "commit" /\ local.n = n /\ local.cost = overage
 <2>1. call[q] \in CallRow /\ "commit" \in Pcs /\ call[q].end \in Outcomes BY DEF Types, CallRow, Pcs
 <2>2. local \in CallRow BY <1>1, <1>3, <2>1, Locals
 <2> QED BY <2>1, <2>2 DEF CallRow
<1> HIDE DEF local
<1>6. Moved(q) /\ call[q].pc = "track" /\ call'[q] = local BY <1>4, <1>5, Moving DEF Pcs, Over
<1>7. Types' /\ Ranges' /\ Goes(q) BY <1>5, <1>6, OnlyCall DEF ReadUsage
<1> QED BY <1>3, <1>5, <1>6, <1>7

\* What goes on to the report is within the limit that was read.
LEMMA CheckLimitEffect ==
  ASSUME Types, Ranges, NEW q \in Calls, CheckLimit(q)
  PROVE  /\ Types' /\ Ranges' /\ Goes(q) /\ call[q].pc = "limit" /\ call'[q].pc \in {"done", "report"}
         /\ call'[q].cost = call[q].cost
         /\ call'[q].pc = "report" /\ call[q].seen.limit # 0 => MonthCost + call[q].cost <= call[q].seen.limit
<1> DEFINE over == call[q].seen.limit # 0 /\ MonthCost + call[q].cost > call[q].seen.limit
           threw == [call[q] EXCEPT !.pc = "done", !.end = "threw"]
           goes == [call[q] EXCEPT !.pc = "report"]
<1>1. /\ call[q] \in CallRow /\ {"done", "report", "limit"} \subseteq Pcs /\ "threw" \in Outcomes
      /\ call[q].seen \in SubRow /\ call[q].n \in Nat /\ call[q].cost \in Nat /\ call[q].seen.limit \in Nat
  BY DEF Types, CallRow, Pcs, Over, Outcomes, SubRow
<1>2. threw \in CallRow /\ goes \in CallRow BY <1>1, Locals
<1>3. \A local \in {threw, goes} : /\ local.op = call[q].op /\ local.seen = call[q].seen
                                   /\ local.cost = call[q].cost /\ local.since = call[q].since
                                   /\ local.pc = IF local = threw THEN "done" ELSE "report"
  BY <1>1 DEF CallRow
<1>4. threw.pc = "done" /\ goes.pc = "report" BY <1>1 DEF CallRow
<1>5. \E local \in {threw, goes} : Moves(q, "limit", local) /\ (over => local = threw) BY DEF CheckLimit, Ends
<1> HIDE DEF threw, goes, over
<1>6. PICK local \in {threw, goes} : Moves(q, "limit", local) /\ (over => local = threw) BY <1>5
<1>7. local \in CallRow /\ local.pc # "new" /\ local.pc # "persist" BY <1>2, <1>3, <1>4, <1>6
<1>8. Moved(q) /\ call[q].pc = "limit" /\ call'[q] = local BY <1>1, <1>3, <1>6, <1>7, Moving DEF Over
<1>9. Types' /\ Ranges' /\ Goes(q) BY <1>3, <1>6, <1>7, <1>8, OnlyCall DEF CheckLimit
<1>10. MonthCost \in Nat
 <2> DEFINE S == {i \in DOMAIN logs : logs[i].at >= sub.period}
 <2>1. IsFiniteSet(DOMAIN logs) /\ S \subseteq DOMAIN logs BY LogTypes
 <2>2. IsFiniteSet(S) BY <2>1, FS_Subset
 <2>3. \A i \in S : Costs[i] \in Nat BY <2>1, LogTypes
 <2> QED BY <2>2, <2>3, SumType DEF MonthCost
<1>11. call'[q].pc = "report" /\ call[q].seen.limit # 0 => MonthCost + call[q].cost <= call[q].seen.limit
 <2> SUFFICES ASSUME call'[q].pc = "report", call[q].seen.limit # 0
              PROVE  MonthCost + call[q].cost <= call[q].seen.limit
   OBVIOUS
 <2>1. ~over BY <1>4, <1>6, <1>8
 <2> QED BY <1>1, <1>10, <2>1 DEF over
<1> QED BY <1>3, <1>4, <1>6, <1>8, <1>9, <1>11

\* The meter hears of a call once, or not at all.
LEMMA ReportUsageEffect ==
  ASSUME Types, Ranges, NEW q \in Calls, ReportUsage(q)
  PROVE  /\ Types' /\ Ranges' /\ Moved(q) /\ UNCHANGED <<plan, month, sub, logs, resets>>
         /\ call[q].pc = "report" /\ call'[q].pc = "done"
         /\ meter' = meter \/ meter' = [meter EXCEPT ![q] = @ + 1]
<1>1. /\ call[q] \in CallRow /\ {"done", "report"} \subseteq Pcs /\ {"reported", "unreported"} \subseteq Outcomes
      /\ call[q].seen \in SubRow /\ call[q].n \in Nat /\ call[q].cost \in Nat
  BY DEF Types, CallRow, Pcs, Over, Outcomes
<1>2. PICK how \in {"reported", "unreported"} : Ends(q, "report", how) BY DEF ReportUsage
<1> DEFINE local == [call[q] EXCEPT !.pc = "done", !.end = how]
<1>3. local \in CallRow BY <1>1, Locals
<1>4. local.op = call[q].op /\ local.seen = call[q].seen /\ local.since = call[q].since /\ local.pc = "done"
  BY <1>1 DEF CallRow
<1>5. Moves(q, "report", local) BY <1>2 DEF Ends
<1> HIDE DEF local
<1>6. Moved(q) /\ call[q].pc = "report" /\ call'[q] = local BY <1>1, <1>3, <1>4, <1>5, Moving DEF Over
<1>7. meter' = meter \/ meter' = [meter EXCEPT ![q] = @ + 1] BY DEF ReportUsage
<1>8. meter' \in [Calls -> Nat] /\ sub \in SubRow /\ logs \in Seq(LogRow)
 <2>1. meter \in [Calls -> Nat] /\ sub \in SubRow /\ logs \in Seq(LogRow) BY DEF Types
 <2>2. meter[q] + 1 \in Nat BY <2>1
 <2> QED BY <1>7, <2>1, <2>2
<1>9. UNCHANGED <<plan, month, sub, blocked, level, logs, stripe, hooks, prices, resets>> BY DEF ReportUsage
<1>10. Types' /\ Ranges' BY <1>4, <1>6, <1>8, <1>9, TurnKeeps
<1> QED BY <1>4, <1>6, <1>7, <1>9, <1>10

\* The row a call writes.
LEMMA RowType ==
  ASSUME Types, NEW q \in Calls
  PROVE  /\ Row(q) \in LogRow /\ Row(q).by = q /\ Row(q).op = call[q].op /\ Row(q).n = call[q].n
         /\ Row(q).cost = call[q].cost /\ Row(q).used = sub.used /\ Row(q).bought = sub.bought
         /\ Row(q).tier = sub.tier
<1>1. /\ call[q].op \in Ops /\ call[q].n \in Nat /\ call[q].cost \in Nat /\ month \in Nat
      /\ sub.used \in Nat /\ sub.bought \in Nat /\ sub.tier \in Tiers
  BY PlanTypes DEF Types, CallRow, SubRow
<1> QED BY <1>1 DEF Row, LogRow

\* The transaction writes the row and counts its tokens, or nothing.
LEMMA CommitUsageEffect ==
  ASSUME Types, Ranges, NEW q \in Calls, CommitUsage(q)
  PROVE  /\ Types' /\ Ranges' /\ Moved(q) /\ UNCHANGED <<plan, month, meter, resets>>
         /\ call[q].pc = "commit" /\ call'[q].pc \in {"limit", "done"}
         /\ call'[q].cost = call[q].cost /\ call'[q].seen = call[q].seen
         /\ call'[q].pc = "limit" => call[q].cost > 0
         /\ \/ call'[q].pc = "done" /\ UNCHANGED <<logs, sub>>
            \/ ~Duplicate(q) /\ logs' = Append(logs, Row(q)) /\ sub' = [sub EXCEPT !.used = @ + call[q].n]
<1>1. /\ call[q] \in CallRow /\ {"done", "limit", "commit"} \subseteq Pcs
      /\ {"duplicate", "tracked", "none"} \subseteq Outcomes
      /\ call[q].seen \in SubRow /\ call[q].n \in Nat /\ call[q].cost \in Nat
  BY DEF Types, CallRow, Pcs, Over, Outcomes
<1> DEFINE Local(pc, end) == [call[q] EXCEPT !.pc = pc, !.end = end]
<1>2. PICK pc \in {"done", "limit"}, end \in {"duplicate", "tracked", "none"} :
        /\ Moves(q, "commit", Local(pc, end)) /\ (pc = "limit" => call[q].cost > 0)
        /\ \/ pc = "done" /\ UNCHANGED <<logs, sub>>
           \/ ~Duplicate(q) /\ logs' = Append(logs, Row(q)) /\ sub' = [sub EXCEPT !.used = @ + call[q].n]
  BY DEF CommitUsage, Ends
<1> DEFINE local == Local(pc, end)
<1>3. local \in CallRow BY <1>1, Locals
<1>4. /\ local.op = call[q].op /\ local.seen = call[q].seen /\ local.since = call[q].since
      /\ local.pc = pc /\ local.cost = call[q].cost
  BY <1>1 DEF CallRow
<1>5. Moves(q, "commit", local) /\ local.pc # "new" /\ local.pc # "persist" BY <1>2, <1>4
<1> HIDE DEF local
<1>6. Moved(q) /\ call[q].pc = "commit" /\ call'[q] = local BY <1>1, <1>3, <1>4, <1>5, Moving DEF Over
<1>7. sub' \in SubRow /\ sub'.stripe = sub.stripe
 <2> DEFINE used == sub.used + call[q].n
            paid == [sub EXCEPT !.used = used]
 <2>1. sub \in SubRow BY DEF Types
 <2>2. used \in Nat BY <1>1, <2>1 DEF SubRow
 <2>3. sub' = sub \/ sub' = paid BY <1>2
 <2> HIDE DEF used
 <2>4. paid \in SubRow /\ paid.stripe = sub.stripe BY <2>1, <2>2 DEF SubRow
 <2> HIDE DEF paid
 <2> QED BY <2>1, <2>3, <2>4
<1>8. logs' \in Seq(LogRow)
 <2>1. logs \in Seq(LogRow) /\ Row(q) \in LogRow BY RowType DEF Types
 <2>2. Append(logs, Row(q)) \in Seq(LogRow) BY <2>1, AppendProperties
 <2> QED BY <1>2, <2>1, <2>2
<1>9. /\ UNCHANGED <<plan, month, blocked, level, stripe, meter, hooks, prices, resets>>
      /\ meter \in [Calls -> Nat]
  BY DEF CommitUsage, Types
<1>10. Types' /\ Ranges' BY <1>4, <1>5, <1>6, <1>7, <1>8, <1>9, TurnKeeps
<1> QED BY <1>2, <1>4, <1>6, <1>9, <1>10

\* purchaseTokens reads the row.
LEMMA ReadPurchaseEffect ==
  ASSUME Types, Ranges, NEW q \in Calls, NEW n \in Amounts, ReadPurchase(q, n)
  PROVE  /\ Types' /\ Ranges' /\ Goes(q) /\ call[q].pc = "new" /\ call[q].op = "buy"
         /\ call'[q].pc \in {"pay", "done"} /\ call'[q].seen = sub
<1> DEFINE goes == sub.tier = "PREMIUM" /\ (sub.limit = 0 \/ MonthCost + n <= sub.limit)
           pc == IF goes THEN "pay" ELSE "done"
           end == IF goes THEN "none" ELSE "refused"
           local == [call[q] EXCEPT !.n = n, !.cost = n, !.seen = sub, !.pc = pc, !.end = end]
<1>1. /\ call[q] \in CallRow /\ {"pay", "done"} \subseteq Pcs /\ {"none", "refused"} \subseteq Outcomes
      /\ n \in Nat /\ sub \in SubRow
  BY PlanAssumption DEF Types, Pcs, Over, Outcomes
<1>2. pc \in Pcs /\ end \in Outcomes /\ pc \in {"pay", "done"} BY <1>1
<1>3. Starts(q, "buy", local) BY DEF ReadPurchase
<1> HIDE DEF goes, pc, end
<1>4. local \in CallRow BY <1>1, <1>2, Locals
<1>5. local.op = call[q].op /\ local.seen = sub /\ local.pc = pc BY <1>1 DEF CallRow
<1> HIDE DEF local
<1>6. /\ Moved(q) /\ call[q].pc = "new" /\ call[q].op = "buy"
      /\ call'[q].pc = local.pc /\ call'[q].seen = local.seen
  BY <1>2, <1>3, <1>4, <1>5, Starting
<1>7. Types' /\ Ranges' /\ Goes(q) BY <1>2, <1>5, <1>6, OnlyCall DEF ReadPurchase
<1> QED BY <1>2, <1>5, <1>6, <1>7

\* purchaseTokens overwrites the tokens bought with the sum it made.
LEMMA WritePurchaseEffect ==
  ASSUME Types, Ranges, NEW q \in Calls, WritePurchase(q)
  PROVE  /\ Types' /\ Ranges' /\ Moved(q) /\ UNCHANGED <<plan, month, logs, meter, resets>>
         /\ call[q].pc = "pay" /\ call'[q].pc = "note" /\ call'[q].n = call[q].n
         /\ sub' = [sub EXCEPT !.bought = call[q].seen.bought + call[q].n]
<1> DEFINE local == [call[q] EXCEPT !.pc = "note"]
           bought == call[q].seen.bought + call[q].n
           paid == [sub EXCEPT !.bought = bought]
<1>1. /\ call[q] \in CallRow /\ {"pay", "note"} \subseteq Pcs /\ call[q].seen \in SubRow
      /\ call[q].n \in Nat /\ call[q].end \in Outcomes
  BY DEF Types, CallRow, Pcs
<1>2. local \in CallRow BY <1>1, Locals
<1>3. /\ local.op = call[q].op /\ local.seen = call[q].seen /\ local.since = call[q].since
      /\ local.pc = "note" /\ local.n = call[q].n
  BY <1>1 DEF CallRow
<1>4. Moves(q, "pay", local) /\ sub' = paid BY DEF WritePurchase
<1> HIDE DEF local
<1>5. Moved(q) /\ call[q].pc = "pay" /\ call'[q] = local BY <1>1, <1>2, <1>3, <1>4, Moving DEF Over
<1>6. sub \in SubRow /\ logs \in Seq(LogRow) /\ meter \in [Calls -> Nat] BY DEF Types
<1>7. bought \in Nat BY <1>1 DEF SubRow
<1> HIDE DEF bought
<1>8. paid \in SubRow /\ paid.stripe = sub.stripe BY <1>6, <1>7 DEF SubRow
<1> HIDE DEF paid
<1>9. UNCHANGED <<plan, month, blocked, level, logs, stripe, meter, hooks, prices, resets>> BY DEF WritePurchase
<1>10. Types' /\ Ranges' BY <1>3, <1>4, <1>5, <1>6, <1>8, <1>9, TurnKeeps
<1> QED BY <1>3, <1>4, <1>5, <1>9, <1>10 DEF paid, bought

\* purchaseTokens logs what it bought.
LEMMA LogPurchaseEffect ==
  ASSUME Types, Ranges, NEW q \in Calls, LogPurchase(q)
  PROVE  /\ Types' /\ Ranges' /\ Moved(q) /\ UNCHANGED <<plan, month, sub, meter, resets>>
         /\ call[q].pc = "note" /\ call'[q].pc = "done" /\ logs' = Append(logs, Row(q))
<1> DEFINE local == [call[q] EXCEPT !.pc = "done", !.end = "bought"]
<1>1. /\ call[q] \in CallRow /\ {"note", "done"} \subseteq Pcs /\ "bought" \in Outcomes
      /\ call[q].seen \in SubRow /\ call[q].n \in Nat
  BY DEF Types, CallRow, Pcs, Over, Outcomes
<1>2. local \in CallRow BY <1>1, Locals
<1>3. local.op = call[q].op /\ local.seen = call[q].seen /\ local.since = call[q].since /\ local.pc = "done"
  BY <1>1 DEF CallRow
<1>4. Moves(q, "note", local) /\ logs' = Append(logs, Row(q)) BY DEF LogPurchase
<1> HIDE DEF local
<1>5. Moved(q) /\ call[q].pc = "note" /\ call'[q] = local BY <1>1, <1>2, <1>3, <1>4, Moving DEF Over
<1>6. sub \in SubRow /\ logs \in Seq(LogRow) /\ meter \in [Calls -> Nat] /\ Row(q) \in LogRow BY RowType DEF Types
<1>7. logs' \in Seq(LogRow) BY <1>4, <1>6, AppendProperties
<1>8. UNCHANGED <<plan, month, sub, blocked, level, stripe, meter, hooks, prices, resets>> BY DEF LogPurchase
<1>9. Types' /\ Ranges' BY <1>3, <1>5, <1>6, <1>7, <1>8, TurnKeeps
<1> QED BY <1>3, <1>4, <1>5, <1>8, <1>9

\* A pod that dies changes its call only.
LEMMA DieEffect ==
  ASSUME Types, Ranges, NEW q \in Calls, Die(q)
  PROVE  Types' /\ Ranges' /\ Goes(q) /\ call[q].pc # "new" /\ call'[q].pc = "dead"
<1> DEFINE local == [call[q] EXCEPT !.pc = "dead", !.end = "lost"]
<1>1. /\ call[q] \in CallRow /\ "dead" \in Pcs /\ "lost" \in Outcomes /\ call[q].pc \in Pcs
      /\ call[q].seen \in SubRow /\ call[q].n \in Nat
  BY DEF Types, CallRow, Pcs, Over, Outcomes
<1>2. local \in CallRow BY <1>1, Locals
<1>3. local.op = call[q].op /\ local.seen = call[q].seen /\ local.since = call[q].since /\ local.pc = "dead"
  BY <1>1 DEF CallRow
<1>4. Moves(q, call[q].pc, local) /\ call[q].pc \in Pcs \ (Over \cup {"new"}) BY <1>1 DEF Die
<1> HIDE DEF local
<1>5. Moved(q) /\ call'[q] = local BY <1>1, <1>2, <1>3, <1>4, Moving
<1>6. Types' /\ Ranges' /\ Goes(q) BY <1>3, <1>5, OnlyCall DEF Die
<1> QED BY <1>3, <1>4, <1>5, <1>6

\* createSubscription reads the row.
LEMMA SubscribeEffect ==
  ASSUME Types, Ranges, NEW q \in Calls, Subscribe(q)
  PROVE  /\ Types' /\ Ranges' /\ Goes(q) /\ call[q].pc = "new" /\ call[q].op = "subscribe"
         /\ call'[q].pc \in {"create", "done"}
<1> DEFINE again == sub.tier = "PREMIUM" /\ sub.stripe # None
           pc == IF again THEN "done" ELSE "create"
           end == IF again THEN "refused" ELSE "none"
           local == [call[q] EXCEPT !.seen = sub, !.pc = pc, !.end = end]
<1>1. /\ call[q] \in CallRow /\ {"create", "done"} \subseteq Pcs /\ {"none", "refused"} \subseteq Outcomes
      /\ sub \in SubRow /\ call[q].n \in Nat
  BY DEF Types, CallRow, Pcs, Over, Outcomes
<1>2. pc \in Pcs /\ end \in Outcomes /\ pc \in {"create", "done"} BY <1>1
<1>3. Starts(q, "subscribe", local) BY DEF Subscribe
<1> HIDE DEF again, pc, end
<1>4. local \in CallRow BY <1>1, <1>2, Locals
<1>5. local.op = call[q].op /\ local.seen = sub /\ local.pc = pc BY <1>1 DEF CallRow
<1> HIDE DEF local
<1>6. /\ Moved(q) /\ call[q].pc = "new" /\ call[q].op = "subscribe"
      /\ call'[q].pc = local.pc /\ call'[q].seen = local.seen
  BY <1>2, <1>3, <1>4, <1>5, Starting
<1>7. Types' /\ Ranges' /\ Goes(q) BY <1>2, <1>5, <1>6, OnlyCall DEF Subscribe
<1> QED BY <1>2, <1>5, <1>6, <1>7

\* What the owner is charged by stays: the tier, the tokens, the limit; the
\* period may go back, but not beyond the latest.
Keeps ==
  /\ sub'.tier = sub.tier /\ sub'.alloc = sub.alloc /\ sub'.bought = sub.bought /\ sub'.used = sub.used
  /\ sub'.limit = sub.limit /\ sub.newest <= sub'.newest
  /\ sub.period <= sub.newest => sub'.period <= sub'.newest
  /\ resets' = resets

\* A row that stays is one that is charged the same.
LEMMA Unchanged ==
  ASSUME Types, sub' = sub, resets' = resets
  PROVE  Keeps
<1>1. sub.newest \in Nat BY DEF Types, SubRow
<1> QED BY <1>1 DEF Keeps

\* So is one that gets another id at Stripe.
LEMMA NewStripe ==
  ASSUME Types, NEW id \in {None} \cup Nat, sub' = [sub EXCEPT !.stripe = id], resets' = resets
  PROVE  sub' \in SubRow /\ sub'.stripe = id /\ Keeps
<1>1. sub \in SubRow /\ sub.newest \in Nat BY DEF Types, SubRow
<1> DEFINE new == [sub EXCEPT !.stripe = id]
<1>2. /\ new \in SubRow /\ new.stripe = id /\ new.tier = sub.tier /\ new.alloc = sub.alloc
      /\ new.bought = sub.bought /\ new.used = sub.used /\ new.limit = sub.limit
      /\ new.newest = sub.newest /\ new.period = sub.period
  BY <1>1 DEF SubRow
<1> HIDE DEF new
<1>3. sub' = new BY DEF new
<1> QED BY <1>1, <1>2, <1>3 DEF Keeps

\* createSubscription writes the id Stripe gave.
LEMMA PersistSubscriptionEffect ==
  ASSUME Types, Ranges, NEW q \in Calls, PersistSubscription(q)
  PROVE  /\ Types' /\ Ranges' /\ Moved(q) /\ UNCHANGED <<plan, month, logs, meter>> /\ Keeps
         /\ call[q].pc = "persist" /\ call'[q].pc = "done"
<1> DEFINE local == [call[q] EXCEPT !.pc = "done", !.end = "subscribed"]
<1>1. /\ call[q] \in CallRow /\ {"persist", "done"} \subseteq Pcs /\ "subscribed" \in Outcomes
      /\ call[q].seen \in SubRow /\ call[q].n \in Nat
  BY DEF Types, CallRow, Pcs, Over, Outcomes
<1>2. local \in CallRow BY <1>1, Locals
<1>3. local.op = call[q].op /\ local.seen = call[q].seen /\ local.since = call[q].since /\ local.pc = "done"
  BY <1>1 DEF CallRow
<1>4. Moves(q, "persist", local) /\ sub' = [sub EXCEPT !.stripe = call[q].n] BY DEF PersistSubscription, Ends
<1> HIDE DEF local
<1>5. Moved(q) /\ call[q].pc = "persist" /\ call'[q] = local BY <1>1, <1>2, <1>3, <1>4, Moving DEF Over
<1>6. UNCHANGED <<plan, month, blocked, level, logs, stripe, meter, hooks, prices, resets>> BY DEF PersistSubscription
<1>7. sub' \in SubRow /\ sub'.stripe = call[q].n /\ Keeps BY <1>1, <1>4, <1>6, NewStripe
<1>8. call[q].n \in DOMAIN stripe BY <1>5 DEF Ranges
<1>9. logs' \in Seq(LogRow) /\ meter' \in [Calls -> Nat] BY <1>6 DEF Types
<1>10. Types' /\ Ranges' BY <1>3, <1>5, <1>6, <1>7, <1>8, <1>9, TurnKeeps
<1> QED BY <1>3, <1>5, <1>6, <1>7, <1>10

\* The subscriptions at Stripe.
LEMMA StripeTypes ==
  ASSUME Types
  PROVE  /\ stripe \in Seq(StripeRow) /\ Len(stripe) \in Nat /\ DOMAIN stripe = 1 .. Len(stripe)
         /\ \A s \in DOMAIN stripe :
              /\ stripe[s] \in StripeRow /\ stripe[s].period \in Nat /\ stripe[s].price \in Nat
              /\ stripe[s].status \in {"incomplete", "active", "past_due", "canceled"}
              /\ stripe[s].cancel \in BOOLEAN
<1>1. stripe \in Seq(StripeRow) BY DEF Types
<1>2. /\ Len(stripe) \in Nat /\ DOMAIN stripe = 1 .. Len(stripe)
      /\ \A s \in DOMAIN stripe : stripe[s] \in StripeRow
  BY <1>1
<1>3. \A t \in StripeRow : /\ t.period \in Nat /\ t.price \in Nat /\ t.cancel \in BOOLEAN
                           /\ t.status \in {"incomplete", "active", "past_due", "canceled"}
  BY DEF StripeRow
<1> QED BY <1>1, <1>2, <1>3

\* createSubscription cancels the abandoned attempt and creates another.
LEMMA CreateAtStripeEffect ==
  ASSUME Types, Ranges, NEW q \in Calls, CreateAtStripe(q)
  PROVE  /\ Types' /\ Ranges' /\ Moved(q) /\ UNCHANGED <<plan, month, logs, meter>> /\ Keeps
         /\ call[q].pc = "create" /\ call'[q].pc \in {"persist", "done"}
<1> DEFINE old == call[q].seen.stripe
           kept == IF Abandons(q) THEN [stripe EXCEPT ![old].status = "canceled"] ELSE stripe
           new == [AtStripe("incomplete", version, q) EXCEPT
                     !.again = \E s \in DOMAIN stripe : stripe[s].status \in Live]
           went == [call[q] EXCEPT !.pc = "persist", !.n = Len(stripe) + 1]
           refused == [call[q] EXCEPT !.pc = "done", !.end = "refused"]
<1>1. /\ call[q] \in CallRow /\ {"create", "persist", "done"} \subseteq Pcs /\ "refused" \in Outcomes
      /\ call[q].seen \in SubRow /\ call[q].n \in Nat /\ call[q].cost \in Nat /\ call[q].end \in Outcomes
  BY DEF Types, CallRow, Pcs, Over, Outcomes
<1>2. version \in Nat /\ Len(stripe) \in Nat /\ Len(stripe) + 1 \in Nat /\ stripe \in Seq(StripeRow)
  BY PlanTypes, StripeTypes
<1>3. new \in StripeRow /\ new.by = q BY <1>2 DEF AtStripe, StripeRow
<1>4. /\ kept \in Seq(StripeRow) /\ Len(kept) = Len(stripe)
      /\ \A s \in DOMAIN stripe : kept[s].status = "incomplete" => kept[s].by \in Calls
 <2>1. CASE ~Abandons(q) BY <1>2, <2>1 DEF Ranges
 <2>2. CASE Abandons(q)
  <3>1. old \in DOMAIN stripe /\ stripe[old] \in StripeRow BY <2>2, StripeTypes DEF Ranges, Abandons
  <3> DEFINE gone == [stripe[old] EXCEPT !.status = "canceled"]
  <3>2. gone \in StripeRow /\ gone.status = "canceled" BY <3>1 DEF StripeRow
  <3>3. kept = [stripe EXCEPT ![old] = gone] BY <2>2
  <3> HIDE DEF gone, kept, old
  <3>4. /\ kept \in Seq(StripeRow) /\ Len(kept) = Len(stripe)
        /\ \A s \in DOMAIN stripe : kept[s] = IF s = old THEN gone ELSE stripe[s]
    BY <1>2, <3>1, <3>2, <3>3
  <3> QED BY <3>2, <3>4 DEF Ranges
 <2> QED BY <2>1, <2>2
<1>5. /\ went \in CallRow /\ refused \in CallRow
      /\ went.pc = "persist" /\ went.n = Len(stripe) + 1 /\ refused.pc = "done"
      /\ \A local \in {went, refused} : /\ local.op = call[q].op /\ local.seen = call[q].seen
                                        /\ local.since = call[q].since
 <2>1. went \in CallRow /\ refused \in CallRow BY <1>1, <1>2, Locals
 <2> QED BY <1>1, <1>2, <2>1 DEF CallRow
<1>6. \/ Moves(q, "create", went) /\ stripe' = Append(kept, new)
      \/ Moves(q, "create", refused) /\ stripe' = kept
  BY DEF CreateAtStripe, Ends
<1>7. sub' = sub \/ sub' = [sub EXCEPT !.stripe = None] BY DEF CreateAtStripe
<1>8. UNCHANGED <<plan, month, blocked, level, logs, meter, hooks, prices, resets>> BY DEF CreateAtStripe
<1>9. sub' \in SubRow /\ sub'.stripe \in {None, sub.stripe} /\ Keeps
 <2>1. CASE sub' = sub BY <1>8, <2>1, Unchanged DEF Types
 <2>2. CASE sub' = [sub EXCEPT !.stripe = None] BY <1>8, <2>2, NewStripe
 <2> QED BY <1>7, <2>1, <2>2
<1> HIDE DEF went, refused, kept, new, old
<1>10. PICK local \in {went, refused} : /\ Moves(q, "create", local)
                                        /\ \/ local = went /\ stripe' = Append(kept, new)
                                           \/ local = refused /\ stripe' = kept
  BY <1>6
<1>11. Moved(q) /\ call[q].pc = "create" /\ call'[q] = local BY <1>1, <1>5, <1>10, Moving DEF Over
<1>12. /\ stripe' \in Seq(StripeRow) /\ DOMAIN stripe \subseteq DOMAIN stripe'
       /\ local = went => Len(stripe) + 1 \in DOMAIN stripe'
       /\ \A s \in DOMAIN stripe' : stripe'[s].status = "incomplete" => stripe'[s].by \in Calls
 <2>1. CASE stripe' = kept /\ local # went BY <1>2, <1>4, <2>1
 <2>2. CASE stripe' = Append(kept, new)
  <3>1. /\ stripe' \in Seq(StripeRow) /\ Len(stripe') = Len(stripe) + 1
        /\ \A s \in 1 .. Len(stripe) : stripe'[s] = kept[s]
        /\ stripe'[Len(stripe) + 1] = new
    BY <1>3, <1>4, <2>2, AppendProperties
  <3> QED BY <1>2, <1>3, <1>4, <3>1
 <2> QED BY <1>5, <1>10, <2>1, <2>2
<1>13. Types' BY <1>8, <1>9, <1>11, <1>12 DEF Types, Moved, hooks, prices
<1>14. \A r \in Calls : /\ call'[r].seen.stripe \in {None} \cup DOMAIN stripe'
                        /\ call'[r].pc = "persist" => call'[r].n \in DOMAIN stripe'
  BY <1>5, <1>10, <1>11, <1>12 DEF Ranges, Moved
<1>15. Ranges'
 <2>1. handling' = handling /\ events' = events BY <1>8 DEF hooks
 <2>2. sub'.stripe \in {None} \cup DOMAIN stripe' BY <1>9, <1>12 DEF Ranges
 <2>3. /\ \A h \in handling' : h.e \in DOMAIN events'
       /\ \A e \in DOMAIN events' : events'[e].s \in DOMAIN stripe'
   BY <1>12, <2>1 DEF Ranges
 <2> QED BY <1>8, <1>12, <1>14, <2>2, <2>3 DEF Ranges, prices
<1> QED BY <1>5, <1>8, <1>9, <1>10, <1>11, <1>13, <1>15

--------------------
(* Stripe and its events. *)

EventTypes == {"updated", "succeeded", "failed", "deleted"}

\* Stripe has sent events about subscription s, and nothing was handled.
Sent(s) ==
  /\ events' \in Seq(Event) /\ Len(events) <= Len(events')
  /\ \A e \in DOMAIN events : events'[e] = events[e]
  /\ \A e \in DOMAIN events' : e \notin DOMAIN events => events'[e].s = s
  /\ outstanding' = outstanding \cup (DOMAIN events' \ DOMAIN events)
  /\ UNCHANGED <<handling, repeats, disturbed>>

\* Send queues events about one subscription.
LEMMA SendEffect ==
  ASSUME Types, NEW s \in Nat, NEW types \in Seq(EventTypes), NEW new \in StripeRow, Send(s, types, new)
  PROVE  Sent(s)
<1> DEFINE b == IF events = <<>> THEN 1 ELSE events[Len(events)].batch + 1
           one == [type |-> "updated", s |-> s, batch |-> b, status |-> new.status,
                   cancel |-> new.cancel, period |-> new.period]
           more == [i \in 1 .. Len(types) |-> [one EXCEPT !.type = types[i]]]
<1>1. events \in Seq(Event) /\ Len(types) \in Nat /\ Len(events) \in Nat BY DEF Types
<1>2. \A e \in Event : e.batch \in Nat BY DEF Event
<1>3. b \in Nat
 <2>1. CASE events = <<>> BY <2>1
 <2>2. CASE events # <<>>
  <3>1. events[Len(events)] \in Event BY <1>1, <2>2
  <3> QED BY <1>2, <2>2, <3>1
 <2> QED BY <2>1, <2>2
<1>4. /\ events' = events \o more
      /\ outstanding' = outstanding \cup (Len(events) + 1 .. Len(events) + Len(types))
      /\ UNCHANGED <<handling, repeats, disturbed>>
  BY DEF Send
<1> HIDE DEF b
<1>5. \A type \in EventTypes : [one EXCEPT !.type = type] \in Event /\ [one EXCEPT !.type = type].s = s
  BY <1>3 DEF Event, EventTypes, StripeRow
<1>6. /\ more \in Seq(Event) /\ Len(more) = Len(types)
      /\ \A i \in 1 .. Len(types) : more[i].s = s
 <2> DEFINE made(i) == [one EXCEPT !.type = types[i]]
 <2>1. \A i \in 1 .. Len(types) : types[i] \in EventTypes OBVIOUS
 <2>2. \A i \in 1 .. Len(types) : made(i) \in Event /\ made(i).s = s BY <1>5, <2>1
 <2>3. more = [i \in 1 .. Len(types) |-> made(i)] OBVIOUS
 <2> HIDE DEF made, more
 <2>4. more \in [1 .. Len(types) -> Event] /\ \A i \in 1 .. Len(types) : more[i].s = s BY <2>2, <2>3
 <2> QED BY <1>1, <2>4
<1> HIDE DEF one, more
<1>7. /\ events' \in Seq(Event) /\ Len(events') = Len(events) + Len(types)
      /\ \A e \in 1 .. Len(events') : events'[e] = IF e <= Len(events) THEN events[e] ELSE more[e - Len(events)]
 <2>1. more \in Seq(Event) /\ events \in Seq(Event) /\ events' = events \o more BY <1>1, <1>4, <1>6
 <2>2. /\ events \o more \in Seq(Event) /\ Len(events \o more) = Len(events) + Len(more)
       /\ \A e \in 1 .. Len(events) + Len(more) :
            (events \o more)[e] = IF e <= Len(events) THEN events[e] ELSE more[e - Len(events)]
   BY <2>1, ConcatProperties
 <2> QED BY <1>6, <2>1, <2>2
<1>8. /\ DOMAIN events' = 1 .. Len(events) + Len(types) /\ DOMAIN events = 1 .. Len(events)
      /\ Len(events) <= Len(events')
      /\ DOMAIN events' \ DOMAIN events = Len(events) + 1 .. Len(events) + Len(types)
  BY <1>1, <1>7
<1>9. \A e \in DOMAIN events : events'[e] = events[e] BY <1>1, <1>7, <1>8
<1>10. \A e \in DOMAIN events' : e \notin DOMAIN events => events'[e].s = s BY <1>1, <1>6, <1>7, <1>8
<1> QED BY <1>4, <1>7, <1>8, <1>9, <1>10 DEF Sent

\* A step at Stripe, or one that makes it send.
LEMMA StripeKeeps ==
  ASSUME Types, Ranges, NEW s \in DOMAIN stripe, Sent(s), sub' \in SubRow, sub'.stripe = sub.stripe,
         stripe' \in Seq(StripeRow), Len(stripe') = Len(stripe),
         \A t \in DOMAIN stripe : stripe'[t].status = "incomplete" => stripe'[t].by \in Calls,
         UNCHANGED <<plan, month, blocked, level, logs, call, meter, prices, resets>>
  PROVE  Types' /\ Ranges'
<1>1. /\ DOMAIN events \subseteq DOMAIN events' /\ DOMAIN stripe' = DOMAIN stripe
      /\ outstanding' \subseteq DOMAIN events'
 <2>1. DOMAIN events = 1 .. Len(events) /\ DOMAIN events' = 1 .. Len(events') /\ Len(events) <= Len(events')
       /\ Len(events) \in Nat /\ Len(events') \in Nat
   BY DEF Types, Sent
 <2>2. DOMAIN events \subseteq DOMAIN events' BY <2>1
 <2>3. DOMAIN stripe' = DOMAIN stripe BY DEF Types
 <2>4. outstanding \subseteq DOMAIN events /\ outstanding' = outstanding \cup (DOMAIN events' \ DOMAIN events)
   BY DEF Types, Sent
 <2> QED BY <2>2, <2>3, <2>4
<1>2. Types'
 <2>1. /\ events' \in Seq(Event) /\ handling' = handling /\ repeats' = repeats /\ disturbed' = disturbed
       /\ version' = version /\ publishing' = publishing /\ usable' = usable /\ unsettled' = unsettled
   BY DEF Sent, prices
 <2> QED BY <1>1, <2>1 DEF Types
<1>3. \A e \in DOMAIN events' : events'[e].s \in DOMAIN stripe' BY <1>1 DEF Ranges, Sent
<1>4. \A h \in handling' : h.e \in DOMAIN events' BY <1>1 DEF Ranges, Sent
<1>5. Ranges' BY <1>1, <1>3, <1>4 DEF Ranges, prices
<1> QED BY <1>2, <1>5

\* Became changes one subscription and sends its events.
LEMMA BecameEffect ==
  ASSUME Types, Ranges, NEW s \in DOMAIN stripe, NEW types \in Seq(EventTypes), NEW new \in StripeRow,
         new.status = "incomplete" => new.by \in Calls, Became(s, types, new)
  PROVE  /\ Sent(s) /\ stripe' \in Seq(StripeRow) /\ Len(stripe') = Len(stripe)
         /\ \A t \in DOMAIN stripe : stripe'[t].status = "incomplete" => stripe'[t].by \in Calls
<1>1. stripe \in Seq(StripeRow) /\ s \in Nat BY StripeTypes
<1>2. stripe' = [stripe EXCEPT ![s] = new] /\ Send(s, types, new) BY DEF Became
<1>3. Sent(s) BY <1>1, <1>2, SendEffect
<1>4. /\ stripe' \in Seq(StripeRow) /\ Len(stripe') = Len(stripe)
      /\ \A t \in DOMAIN stripe : stripe'[t] = IF t = s THEN new ELSE stripe[t]
  BY <1>1, <1>2
<1>5. \A t \in DOMAIN stripe : stripe'[t].status = "incomplete" => stripe'[t].by \in Calls BY <1>4 DEF Ranges
<1> QED BY <1>3, <1>4, <1>5

\* Nothing of the calls' and the logs' changes.
Outside == UNCHANGED <<plan, call, logs, meter>>

\* Stripe's own steps.
LEMMA StripeStepEffect ==
  ASSUME Types, Ranges, NEW s \in DOMAIN stripe, StripeStep(s)
  PROVE  Types' /\ Ranges' /\ Outside /\ UNCHANGED sub /\ UNCHANGED resets /\ Sent(s)
<1>1. UNCHANGED <<plan, month, sub, blocked, level, logs, call, meter, prices, resets>>
  BY DEF StripeStep, PayFirst, DeclineFirst, Renew, Retry, EndOfPeriod
<1>2. month \in Nat /\ stripe[s] \in StripeRow /\ sub' \in SubRow /\ sub'.stripe = sub.stripe
  BY <1>1, PlanTypes, StripeTypes DEF Types
<1>3. /\ <<"succeeded", "updated">> \in Seq(EventTypes) /\ <<"failed", "updated">> \in Seq(EventTypes)
      /\ <<"failed">> \in Seq(EventTypes) /\ <<"deleted">> \in Seq(EventTypes)
  BY DEF EventTypes
<1>4. /\ [stripe[s] EXCEPT !.status = "active", !.period = month] \in StripeRow
      /\ [stripe[s] EXCEPT !.period = month] \in StripeRow
      /\ [stripe[s] EXCEPT !.period = month, !.status = "past_due"] \in StripeRow
      /\ [stripe[s] EXCEPT !.status = "active"] \in StripeRow
      /\ [stripe[s] EXCEPT !.status = "canceled"] \in StripeRow
  BY <1>2 DEF StripeRow
<1>5. /\ [stripe[s] EXCEPT !.status = "active", !.period = month].status = "active"
      /\ [stripe[s] EXCEPT !.period = month].status = stripe[s].status
      /\ [stripe[s] EXCEPT !.period = month, !.status = "past_due"].status = "past_due"
      /\ [stripe[s] EXCEPT !.status = "active"].status = "active"
      /\ [stripe[s] EXCEPT !.status = "canceled"].status = "canceled"
  BY <1>2 DEF StripeRow
<1>6. \E types \in Seq(EventTypes), new \in StripeRow :
        (new.status = "incomplete" => new.by \in Calls) /\ Became(s, types, new)
 <2>1. ASSUME PayFirst(s)
       PROVE  Became(s, <<"succeeded", "updated">>, [stripe[s] EXCEPT !.status = "active", !.period = month])
   BY <2>1 DEF PayFirst
 <2>2. ASSUME DeclineFirst(s)  PROVE Became(s, <<"failed">>, stripe[s]) BY <2>2 DEF DeclineFirst
 <2>3. ASSUME Renew(s)
       PROVE  /\ stripe[s].status = "active"
              /\ \/ Became(s, <<"succeeded", "updated">>, [stripe[s] EXCEPT !.period = month])
                 \/ Became(s, <<"failed", "updated">>, [stripe[s] EXCEPT !.period = month, !.status = "past_due"])
   BY <2>3 DEF Renew
 <2>4. ASSUME Retry(s)
       PROVE  \/ Became(s, <<"succeeded", "updated">>, [stripe[s] EXCEPT !.status = "active"])
              \/ Became(s, <<"deleted">>, [stripe[s] EXCEPT !.status = "canceled"])
   BY <2>4 DEF Retry
 <2>5. ASSUME EndOfPeriod(s)  PROVE Became(s, <<"deleted">>, [stripe[s] EXCEPT !.status = "canceled"])
   BY <2>5 DEF EndOfPeriod
 <2>6. PayFirst(s) \/ DeclineFirst(s) \/ Renew(s) \/ Retry(s) \/ EndOfPeriod(s) BY DEF StripeStep
 <2>7. stripe[s].status = "incomplete" => stripe[s].by \in Calls BY DEF Ranges
 <2> QED BY <1>2, <1>3, <1>4, <1>5, <2>1, <2>2, <2>3, <2>4, <2>5, <2>6, <2>7
<1>7. /\ Sent(s) /\ stripe' \in Seq(StripeRow) /\ Len(stripe') = Len(stripe)
      /\ \A t \in DOMAIN stripe : stripe'[t].status = "incomplete" => stripe'[t].by \in Calls
  BY <1>6, BecameEffect
<1>8. Types' /\ Ranges' BY <1>1, <1>2, <1>7, StripeKeeps
<1> QED BY <1>1, <1>7, <1>8 DEF Outside

--------------------
(* The webhooks. *)

\* The month's usage is reset.
Resets ==
  /\ sub'.used = 0 /\ sub'.limit = sub.limit /\ sub.newest <= sub'.newest
  /\ sub.period <= sub.newest => sub'.period <= sub'.newest
  /\ resets' = Append(resets, Len(logs))
  /\ \/ sub'.tier = sub.tier /\ sub'.alloc = sub.alloc
     \/ sub'.tier = "PREMIUM" /\ sub'.alloc = Premium
     \/ sub'.tier = "FREE" /\ sub'.alloc = Free

\* The types after the step of a webhook handler.
LEMMA HookKeeps ==
  ASSUME Types, Ranges, sub' \in SubRow, sub'.stripe \in {None} \cup DOMAIN stripe,
         blocked' \in BOOLEAN, level' \in Tiers,
         stripe' \in Seq(StripeRow), Len(stripe') = Len(stripe),
         \A t \in DOMAIN stripe : stripe'[t].status = "incomplete" => stripe'[t].by \in Calls,
         outstanding' \subseteq outstanding, handling' \subseteq Handler,
         \A h \in handling' : h.e \in DOMAIN events,
         resets' \in Seq(Nat), repeats' \in Nat, disturbed' \in BOOLEAN,
         UNCHANGED <<plan, month, call, logs, meter, events, prices>>
  PROVE  Types' /\ Ranges' /\ Outside
<1>1. DOMAIN stripe' = DOMAIN stripe BY DEF Types
<1>2. Types' BY DEF Types, prices
<1>3. Ranges' BY <1>1 DEF Ranges, prices
<1> QED BY <1>2, <1>3 DEF Outside

\* An event is acknowledged, or counted as handled again.
LEMMA AcknowledgeEffect ==
  ASSUME Types, NEW e, Acknowledge(e)
  PROVE  /\ outstanding' \subseteq outstanding /\ repeats' \in Nat /\ disturbed' \in BOOLEAN
         /\ repeats <= repeats' /\ (repeats' = repeats => outstanding' = outstanding \ {e})
<1>1. repeats \in Nat BY DEF Types
<1>2. disturbed' \in BOOLEAN BY DEF Acknowledge
<1>3. /\ outstanding' \subseteq outstanding
      /\ \/ repeats' = repeats /\ outstanding' = outstanding \ {e}
         \/ repeats' = repeats + 1
  BY DEF Acknowledge
<1> QED BY <1>1, <1>2, <1>3

\* The fields of events and handlers.
LEMMA EventTypesHold ==
  ASSUME Types
  PROVE  /\ \A e \in DOMAIN events : /\ events[e] \in Event /\ e \in Nat /\ events[e].period \in Nat
                                     /\ events[e].s \in Nat /\ events[e].cancel \in BOOLEAN
         /\ \A h \in handling : /\ h \in Handler /\ h.e \in Nat /\ h.pc \in {"write", "migrate"}
                                /\ h.tier \in Tiers /\ h.scheduled \in Nat /\ h.period \in Nat
<1>1. /\ events \in Seq(Event) /\ handling \subseteq Handler BY DEF Types
<1>2. \A e \in DOMAIN events : events[e] \in Event /\ e \in Nat BY <1>1
<1>3. \A v \in Event : v.period \in Nat /\ v.s \in Nat /\ v.cancel \in BOOLEAN BY DEF Event
<1>4. \A h \in Handler : /\ h.e \in Nat /\ h.pc \in {"write", "migrate"} /\ h.tier \in Tiers
                         /\ h.scheduled \in Nat /\ h.period \in Nat
  BY DEF Handler
<1> QED BY <1>1, <1>2, <1>3, <1>4

\* What the webhooks leave alone, mostly.
LEMMA Settled ==
  ASSUME Types, Ranges
  PROVE  /\ sub \in SubRow /\ sub.stripe \in {None} \cup DOMAIN stripe /\ blocked \in BOOLEAN
         /\ level \in Tiers /\ stripe \in Seq(StripeRow) /\ resets \in Seq(Nat)
         /\ \A t \in DOMAIN stripe : stripe[t].status = "incomplete" => stripe[t].by \in Calls
         /\ handling \subseteq Handler /\ \A h \in handling : h.e \in DOMAIN events
         /\ Len(logs) \in Nat /\ disturbed \in BOOLEAN /\ repeats \in Nat
         /\ sub.newest \in Nat /\ sub.period \in Nat
<1>1. sub \in SubRow BY DEF Types
<1>2. sub.newest \in Nat /\ sub.period \in Nat BY <1>1 DEF SubRow
<1> QED BY <1>1, <1>2, LogTypes DEF Types, Ranges

\* handlePaymentSucceeded reads the row and the subscription.
LEMMA ReadPaymentEffect ==
  ASSUME Types, Ranges, NEW e \in outstanding, ReadPayment(e)
  PROVE  Types' /\ Ranges' /\ Outside /\ UNCHANGED <<sub, resets>>
<1>1. e \in DOMAIN events /\ events[e].s \in DOMAIN stripe /\ e \in Nat BY EventTypesHold DEF Types, Ranges
<1> DEFINE new == [e |-> e, pc |-> "write", tier |-> sub.tier, scheduled |-> sub.scheduled,
                   period |-> stripe[events[e].s].period]
<1>2. sub.tier \in Tiers /\ sub.scheduled \in Nat /\ stripe[events[e].s].period \in Nat
  BY <1>1, Settled, StripeTypes DEF SubRow
<1>3. new \in Handler /\ new.e = e BY <1>1, <1>2 DEF Handler
<1>4. handling' = handling \cup {new} /\ blocked' = FALSE BY DEF ReadPayment
<1> HIDE DEF new
<1>5. /\ repeats' \in Nat /\ disturbed' \in BOOLEAN
      /\ UNCHANGED <<plan, month, sub, level, logs, call, stripe, meter, events, outstanding, prices, resets>>
  BY Settled DEF ReadPayment
<1>6. Types' /\ Ranges' /\ Outside BY <1>1, <1>3, <1>4, <1>5, Settled, HookKeeps
<1> QED BY <1>5, <1>6

\* handlePaymentSucceeded makes a FREE owner PREMIUM.
LEMMA ActivatePremiumEffect ==
  ASSUME Types, Ranges, NEW h \in handling, ActivatePremium(h)
  PROVE  Types' /\ Ranges' /\ Outside /\ Resets
<1> DEFINE new == [sub EXCEPT !.tier = "PREMIUM", !.status = "ACTIVE", !.stripe = events[h.e].s,
                              !.period = h.period, !.newest = Max({@, h.period}), !.alloc = Premium,
                              !.used = 0, !.plan = version]
           newest == Max({sub.newest, h.period})
<1>1. h.period \in Nat /\ h.e \in DOMAIN events /\ events[h.e].s \in DOMAIN stripe /\ events[h.e].s \in Nat
  BY EventTypesHold, Settled DEF Ranges
<1>2. newest \in Nat /\ h.period <= newest /\ sub.newest <= newest
 <2>1. sub.newest \in Nat BY Settled
 <2> QED BY <1>1, <2>1, LatestOfTwo
<1>3. /\ new \in SubRow /\ new.stripe = events[h.e].s /\ new.period = h.period /\ new.newest = newest
      /\ new.used = 0 /\ new.tier = "PREMIUM" /\ new.alloc = Premium /\ new.limit = sub.limit
 <2>1. sub \in SubRow /\ version \in Nat /\ Premium \in Nat BY PlanTypes, PlanAssumption, Settled
 <2>2. new = [sub EXCEPT !.tier = "PREMIUM", !.status = "ACTIVE", !.stripe = events[h.e].s,
                         !.period = h.period, !.newest = newest, !.alloc = Premium,
                         !.used = 0, !.plan = version]
   OBVIOUS
 <2> HIDE DEF new, newest
 <2> QED BY <1>1, <1>2, <2>1, <2>2 DEF SubRow, Tiers
<1>4. sub' = new BY DEF ActivatePremium
<1> HIDE DEF new, newest
<1>5. /\ level' = "PREMIUM" /\ handling' = handling \ {h} /\ Acknowledge(h.e)
      /\ resets' = Append(resets, Len(logs))
      /\ UNCHANGED <<plan, month, blocked, logs, call, stripe, meter, events, prices>>
  BY DEF ActivatePremium
<1>6. resets' \in Seq(Nat) BY <1>5, Settled, AppendProperties
<1>7. Types' /\ Ranges' /\ Outside BY <1>1, <1>3, <1>4, <1>5, <1>6, Settled, AcknowledgeEffect, HookKeeps DEF Tiers
<1>8. Resets BY <1>2, <1>3, <1>4, <1>5 DEF Resets
<1> QED BY <1>7, <1>8

\* handlePaymentSucceeded resets the month of a PREMIUM owner.
LEMMA RenewPremiumEffect ==
  ASSUME Types, Ranges, NEW h \in handling, RenewPremium(h)
  PROVE  Types' /\ Ranges' /\ Outside /\ Resets
<1> DEFINE newest == Max({sub.newest, h.period})
           new == [sub EXCEPT !.status = "ACTIVE", !.used = 0, !.bought = 0, !.period = h.period,
                              !.newest = newest]
           next == [h EXCEPT !.pc = "migrate"]
<1>1. h \in Handler /\ h.period \in Nat /\ h.e \in DOMAIN events BY EventTypesHold, Settled DEF Ranges
<1>2. newest \in Nat /\ h.period <= newest /\ sub.newest <= newest
 <2>1. sub.newest \in Nat BY Settled
 <2> QED BY <1>1, <2>1, LatestOfTwo
<1>3. sub' = new BY DEF RenewPremium
<1> HIDE DEF newest
<1>4. /\ new \in SubRow /\ new.stripe = sub.stripe /\ new.period = h.period /\ new.newest = newest
      /\ new.used = 0 /\ new.tier = sub.tier /\ new.alloc = sub.alloc /\ new.limit = sub.limit
  BY <1>1, <1>2, Settled DEF SubRow
<1>5. next \in Handler /\ next.e = h.e BY <1>1 DEF Handler
<1>6. /\ handling' = (handling \ {h}) \cup {next} /\ resets' = Append(resets, Len(logs))
      /\ UNCHANGED <<plan, month, blocked, level, logs, call, stripe, meter, events, outstanding,
                     repeats, disturbed, prices>>
  BY DEF RenewPremium
<1> HIDE DEF new, next
<1>7. resets' \in Seq(Nat) BY <1>6, Settled, AppendProperties
<1>8. Types' /\ Ranges' /\ Outside BY <1>1, <1>3, <1>4, <1>5, <1>6, <1>7, Settled, HookKeeps
<1>9. Resets BY <1>2, <1>3, <1>4, <1>6 DEF Resets
<1> QED BY <1>8, <1>9

\* Fields of the row that charge nobody.
LEMMA Marked ==
  ASSUME Types, NEW status \in {"ACTIVE", "INACTIVE", "PAST_DUE"}, NEW cancel \in BOOLEAN,
         NEW p \in Nat, NEW scheduled \in Nat,
         sub' = [sub EXCEPT !.status = status, !.cancel = cancel, !.plan = p, !.scheduled = scheduled],
         resets' = resets
  PROVE  sub' \in SubRow /\ sub'.stripe = sub.stripe /\ Keeps
<1> DEFINE new == [sub EXCEPT !.status = status, !.cancel = cancel, !.plan = p, !.scheduled = scheduled]
<1>1. sub \in SubRow /\ sub.newest \in Nat BY DEF Types, SubRow
<1>2. /\ new \in SubRow /\ new.stripe = sub.stripe /\ new.tier = sub.tier /\ new.alloc = sub.alloc
      /\ new.bought = sub.bought /\ new.used = sub.used /\ new.limit = sub.limit
      /\ new.newest = sub.newest /\ new.period = sub.period
  BY <1>1 DEF SubRow
<1>3. sub' = new OBVIOUS
<1> HIDE DEF new
<1> QED BY <1>1, <1>2, <1>3 DEF Keeps

\* applyScheduledPriceMigration leaves what is charged alone.
LEMMA MigratePriceEffect ==
  ASSUME Types, Ranges, NEW h \in handling, MigratePrice(h)
  PROVE  Types' /\ Ranges' /\ Outside /\ Keeps
<1>1. /\ h.e \in DOMAIN events /\ events[h.e].s \in DOMAIN stripe /\ h.scheduled \in Nat
  BY EventTypesHold, Settled DEF Ranges
<1>2. /\ handling' = handling \ {h} /\ Acknowledge(h.e)
      /\ UNCHANGED <<plan, month, blocked, level, logs, call, meter, events, prices, resets>>
      /\ sub' = sub \/ sub' = [sub EXCEPT !.plan = h.scheduled, !.scheduled = 0]
      /\ stripe' = stripe \/ stripe' = [stripe EXCEPT ![events[h.e].s].price = h.scheduled]
  BY DEF MigratePrice
<1>3. /\ stripe' \in Seq(StripeRow) /\ Len(stripe') = Len(stripe)
      /\ \A t \in DOMAIN stripe : stripe'[t].status = "incomplete" => stripe'[t].by \in Calls
 <2> DEFINE s == events[h.e].s
            new == [stripe[s] EXCEPT !.price = h.scheduled]
 <2>1. CASE stripe' = stripe BY <2>1, Settled
 <2>2. CASE stripe' = [stripe EXCEPT ![s].price = h.scheduled]
  <3>1. stripe[s] \in StripeRow /\ stripe \in Seq(StripeRow) BY <1>1, StripeTypes
  <3>2. new \in StripeRow /\ new.status = stripe[s].status /\ new.by = stripe[s].by BY <1>1, <3>1 DEF StripeRow
  <3>3. stripe' = [stripe EXCEPT ![s] = new] BY <2>2
  <3> HIDE DEF new
  <3>4. /\ stripe' \in Seq(StripeRow) /\ Len(stripe') = Len(stripe)
        /\ \A t \in DOMAIN stripe : stripe'[t] = IF t = s THEN new ELSE stripe[t]
    BY <1>1, <3>1, <3>2, <3>3
  <3> QED BY <3>2, <3>4, Settled
 <2> QED BY <1>2, <2>1, <2>2
<1>4. sub' \in SubRow /\ sub'.stripe = sub.stripe /\ Keeps
 <2>1. CASE sub' = sub BY <1>2, <2>1, Unchanged, Settled
 <2>2. CASE sub' = [sub EXCEPT !.plan = h.scheduled, !.scheduled = 0]
  <3>1. sub \in SubRow /\ sub.status \in {"ACTIVE", "INACTIVE", "PAST_DUE"} /\ sub.cancel \in BOOLEAN
    BY Settled DEF SubRow
  <3>2. sub' = [sub EXCEPT !.status = sub.status, !.cancel = sub.cancel, !.plan = h.scheduled, !.scheduled = 0]
    BY <2>2, <3>1 DEF SubRow
  <3> QED BY <1>1, <1>2, <3>1, <3>2, Marked
 <2> QED BY <1>2, <2>1, <2>2
<1>5. Types' /\ Ranges' /\ Outside BY <1>2, <1>3, <1>4, Settled, AcknowledgeEffect, HookKeeps
<1> QED BY <1>4, <1>5

\* handlePaymentFailed blocks the account.
LEMMA PaymentFailedEffect ==
  ASSUME Types, Ranges, NEW e \in outstanding, PaymentFailed(e)
  PROVE  Types' /\ Ranges' /\ Outside /\ Keeps
<1> DEFINE status == "PAST_DUE"
<1>1. /\ Acknowledge(e) /\ blocked' = TRUE /\ sub' = [sub EXCEPT !.status = status]
      /\ UNCHANGED <<plan, month, level, logs, call, stripe, meter, events, handling, prices, resets>>
  BY DEF PaymentFailed
<1>2. status \in {"ACTIVE", "INACTIVE", "PAST_DUE"} OBVIOUS
<1> HIDE DEF status
<1>3. /\ sub \in SubRow /\ sub.cancel \in BOOLEAN /\ sub.plan \in Nat /\ sub.scheduled \in Nat BY Settled DEF SubRow
<1>4. sub' = [sub EXCEPT !.status = status, !.cancel = sub.cancel, !.plan = sub.plan,
                         !.scheduled = sub.scheduled]
  BY <1>1, <1>3 DEF SubRow
<1>5. sub' \in SubRow /\ sub'.stripe = sub.stripe /\ Keeps
 <2>1. resets' = resets BY <1>1
 <2> QED BY <1>2, <1>3, <1>4, <2>1, Marked
<1>6. outstanding' \subseteq outstanding /\ repeats' \in Nat /\ disturbed' \in BOOLEAN BY <1>1, AcknowledgeEffect
<1>7. sub'.stripe \in {None} \cup DOMAIN stripe BY <1>5, Settled
<1>8. Types' /\ Ranges' /\ Outside BY <1>1, <1>5, <1>6, <1>7, Settled, HookKeeps
<1> QED BY <1>5, <1>8

\* handleSubscriptionUpdated copies the status and the period.
LEMMA SubscriptionUpdatedEffect ==
  ASSUME Types, Ranges, NEW e \in outstanding, SubscriptionUpdated(e)
  PROVE  Types' /\ Ranges' /\ Outside /\ Keeps
<1> DEFINE status == IF events[e].status = "active" THEN "ACTIVE" ELSE "INACTIVE"
           period == events[e].period
           cancel == events[e].cancel
           newest == Max({sub.newest, period})
           new == [sub EXCEPT !.status = status, !.period = period, !.newest = newest, !.cancel = cancel]
<1>1. /\ Acknowledge(e)
      /\ sub' = sub \/ sub' = new
      /\ UNCHANGED <<plan, month, blocked, level, logs, call, stripe, meter, events, handling, prices,
                     resets>>
 <2>1. /\ Acknowledge(e) /\ UNCHANGED <<plan, month, blocked, level, logs, call, stripe, meter, events,
                                        handling, prices, resets>>
   BY DEF SubscriptionUpdated
 <2>2. sub' = sub \/ sub' = new BY DEF SubscriptionUpdated
 <2> QED BY <2>1, <2>2
<1>2. e \in DOMAIN events /\ period \in Nat /\ cancel \in BOOLEAN BY EventTypesHold DEF Types
<1>3. status \in {"ACTIVE", "INACTIVE"} OBVIOUS
<1> HIDE DEF status, period, cancel
<1>4. newest \in Nat /\ sub.newest <= newest /\ period <= newest BY <1>2, Settled, LatestOfTwo
<1> HIDE DEF newest
<1>5. /\ new \in SubRow /\ new.stripe = sub.stripe /\ new.tier = sub.tier /\ new.alloc = sub.alloc
      /\ new.bought = sub.bought /\ new.used = sub.used /\ new.limit = sub.limit
      /\ new.newest = newest /\ new.period = period
  BY <1>2, <1>3, <1>4, Settled DEF SubRow
<1> HIDE DEF new
<1>6. sub' \in SubRow /\ sub'.stripe = sub.stripe /\ Keeps
 <2>1. CASE sub' = sub BY <1>1, <2>1, Unchanged, Settled
 <2>2. CASE sub' = new BY <1>1, <1>4, <1>5, <2>2 DEF Keeps
 <2> QED BY <1>1, <2>1, <2>2
<1>7. outstanding' \subseteq outstanding /\ repeats' \in Nat /\ disturbed' \in BOOLEAN BY <1>1, AcknowledgeEffect
<1>8. sub'.stripe \in {None} \cup DOMAIN stripe BY <1>6, Settled
<1>9. Types' /\ Ranges' /\ Outside BY <1>1, <1>6, <1>7, <1>8, Settled, HookKeeps
<1> QED BY <1>6, <1>9

\* handleSubscriptionDeleted makes the owner FREE and resets the month.
LEMMA SubscriptionDeletedEffect ==
  ASSUME Types, Ranges, NEW e \in outstanding, SubscriptionDeleted(e)
  PROVE  Types' /\ Ranges' /\ Outside /\ (Keeps \/ Resets)
<1> DEFINE new == [sub EXCEPT !.tier = "FREE", !.status = "INACTIVE", !.stripe = None,
                              !.alloc = Free, !.used = 0, !.bought = 0]
<1>1. /\ Acknowledge(e)
      /\ UNCHANGED <<plan, month, blocked, logs, call, stripe, meter, events, handling, prices>>
      /\ \/ UNCHANGED <<sub, level, resets>>
         \/ sub' = new /\ level' = "FREE" /\ resets' = Append(resets, Len(logs))
  BY DEF SubscriptionDeleted
<1>2. /\ new \in SubRow /\ new.stripe = None /\ new.used = 0 /\ new.limit = sub.limit
      /\ new.newest = sub.newest /\ new.period = sub.period /\ new.tier = "FREE" /\ new.alloc = Free
  BY Settled, PlanAssumption DEF SubRow, Tiers
<1> HIDE DEF new
<1>3. CASE UNCHANGED <<sub, level, resets>>
 <2>1. Types' /\ Ranges' /\ Outside BY <1>1, <1>3, Settled, AcknowledgeEffect, HookKeeps
 <2>2. Keeps BY <1>3, Unchanged
 <2> QED BY <2>1, <2>2
<1>4. CASE sub' = new /\ level' = "FREE" /\ resets' = Append(resets, Len(logs))
 <2>1. resets' \in Seq(Nat) /\ level' \in Tiers BY <1>4, Settled, AppendProperties DEF Tiers
 <2>2. Types' /\ Ranges' /\ Outside BY <1>1, <1>2, <1>4, <2>1, Settled, AcknowledgeEffect, HookKeeps
 <2>3. Resets BY <1>2, <1>4, Settled DEF Resets
 <2> QED BY <2>2, <2>3
<1> QED BY <1>1, <1>3, <1>4

\* A handler dies with its pod.
LEMMA DropHandlerEffect ==
  ASSUME Types, Ranges, NEW h \in handling, DropHandler(h)
  PROVE  Types' /\ Ranges' /\ Outside /\ Keeps
<1>1. /\ repeats' = repeats + 1 /\ handling' = handling \ {h}
      /\ UNCHANGED <<plan, month, sub, blocked, level, logs, call, stripe, meter, events, outstanding,
                     disturbed, prices, resets>>
  BY DEF DropHandler
<1>2. repeats' \in Nat BY <1>1, Settled
<1>3. Types' /\ Ranges' /\ Outside BY <1>1, <1>2, Settled, HookKeeps
<1> QED BY <1>1, <1>3, Unchanged

--------------------
(* The owner, the administrator and the price plans. *)

\* The types after a step of the owner, the publisher or the clock.
LEMMA RestKeeps ==
  ASSUME Types, Ranges, sub' \in SubRow, sub'.stripe = sub.stripe, month' \in 0 .. plan.months,
         version' \in 1 .. plan.versions, publishing' \in BOOLEAN, usable' \in BOOLEAN,
         unsettled' \in BOOLEAN, publishing' => version' < plan.versions,
         UNCHANGED <<plan, blocked, level, logs, call, stripe, meter, hooks, resets>>
  PROVE  Types' /\ Ranges' /\ Outside
<1>1. Types' BY DEF Types, hooks
<1>2. Ranges' BY DEF Ranges, hooks
<1> QED BY <1>1, <1>2 DEF Outside

Relimits ==
  /\ "limit" \in plan.settings /\ sub'.tier = sub.tier /\ sub'.alloc = sub.alloc
  /\ sub'.bought = sub.bought /\ sub'.used = sub.used /\ sub'.newest = sub.newest
  /\ sub'.period = sub.period /\ resets' = resets
Reallocates ==
  /\ "alloc" \in plan.settings /\ sub'.tier = sub.tier /\ sub'.limit = sub.limit
  /\ sub'.bought = sub.bought /\ sub'.used = sub.used /\ sub'.newest = sub.newest
  /\ sub'.period = sub.period /\ resets' = resets

\* The owner sets the limit.
LEMMA SetSpendingLimitEffect ==
  ASSUME Types, Ranges, NEW l \in Limits, SetSpendingLimit(l)
  PROVE  Types' /\ Ranges' /\ Outside /\ Relimits
<1> DEFINE new == [sub EXCEPT !.limit = l]
<1>1. /\ "limit" \in plan.settings /\ sub' = new
      /\ UNCHANGED <<plan, month, blocked, level, logs, call, stripe, meter, hooks, prices, resets>>
  BY DEF SetSpendingLimit
<1>2. l \in Nat /\ sub \in SubRow BY PlanAssumption, Settled
<1>3. /\ new \in SubRow /\ new.stripe = sub.stripe /\ new.tier = sub.tier /\ new.alloc = sub.alloc
      /\ new.bought = sub.bought /\ new.used = sub.used /\ new.newest = sub.newest
      /\ new.period = sub.period
  BY <1>2 DEF SubRow
<1> HIDE DEF new
<1>4. Types' /\ Ranges' /\ Outside BY <1>1, <1>3, RestKeeps DEF Types, Ranges, prices
<1> QED BY <1>1, <1>3, <1>4 DEF Relimits

\* The administrator sets the allocation.
LEMMA SetAllocationEffect ==
  ASSUME Types, Ranges, NEW n \in {Free, Premium}, SetAllocation(n)
  PROVE  Types' /\ Ranges' /\ Outside /\ Reallocates
<1> DEFINE new == [sub EXCEPT !.alloc = n]
<1>1. /\ "alloc" \in plan.settings /\ sub' = new
      /\ UNCHANGED <<plan, month, blocked, level, logs, call, stripe, meter, hooks, prices, resets>>
  BY DEF SetAllocation
<1>2. n \in Nat /\ sub \in SubRow BY PlanAssumption, Settled
<1>3. /\ new \in SubRow /\ new.stripe = sub.stripe /\ new.tier = sub.tier /\ new.limit = sub.limit
      /\ new.bought = sub.bought /\ new.used = sub.used /\ new.newest = sub.newest
      /\ new.period = sub.period
  BY <1>2 DEF SubRow
<1> HIDE DEF new
<1>4. Types' /\ Ranges' /\ Outside BY <1>1, <1>3, RestKeeps DEF Types, Ranges, prices
<1> QED BY <1>1, <1>3, <1>4 DEF Reallocates

\* cancelSubscription marks the row.
LEMMA CancelSubscriptionEffect ==
  ASSUME Types, Ranges, CancelSubscription
  PROVE  Types' /\ Ranges' /\ Outside /\ Keeps /\ \E s \in DOMAIN stripe : Sent(s)
<1> DEFINE s == sub.stripe
           new == [stripe[s] EXCEPT !.cancel = TRUE]
<1>1. s \in DOMAIN stripe /\ stripe[s] \in StripeRow BY Settled, StripeTypes DEF CancelSubscription
<1>2. new \in StripeRow /\ new.status = stripe[s].status /\ new.by = stripe[s].by BY <1>1 DEF StripeRow
<1>3. /\ Became(s, <<"updated">>, new) /\ sub' = [sub EXCEPT !.cancel = TRUE]
      /\ UNCHANGED <<plan, month, blocked, level, logs, call, meter, prices, resets>>
  BY DEF CancelSubscription
<1>4. new.status = "incomplete" => new.by \in Calls BY <1>1, <1>2 DEF Ranges
<1>5. <<"updated">> \in Seq(EventTypes) BY DEF EventTypes
<1> HIDE DEF new, s
<1>6. /\ Sent(s) /\ stripe' \in Seq(StripeRow) /\ Len(stripe') = Len(stripe)
      /\ \A t \in DOMAIN stripe : stripe'[t].status = "incomplete" => stripe'[t].by \in Calls
  BY <1>1, <1>2, <1>3, <1>4, <1>5, BecameEffect
<1>7. sub' \in SubRow /\ sub'.stripe = sub.stripe /\ Keeps
 <2>1. /\ sub \in SubRow /\ sub.status \in {"ACTIVE", "INACTIVE", "PAST_DUE"} /\ sub.plan \in Nat
       /\ sub.scheduled \in Nat /\ TRUE \in BOOLEAN
   BY Settled DEF SubRow
 <2>2. sub' = [sub EXCEPT !.status = sub.status, !.cancel = TRUE, !.plan = sub.plan,
                          !.scheduled = sub.scheduled]
   BY <1>3, <2>1 DEF SubRow
 <2>3. resets' = resets BY <1>3
 <2> QED BY <2>1, <2>2, <2>3, Marked
<1>8. Types' /\ Ranges' BY <1>1, <1>3, <1>6, <1>7, StripeKeeps
<1> QED BY <1>1, <1>3, <1>6, <1>7, <1>8 DEF Outside

\* updatePaymentMethod changes nothing of ours.
LEMMA UpdatePaymentMethodEffect ==
  ASSUME Types, Ranges, UpdatePaymentMethod
  PROVE  Types' /\ Ranges' /\ Outside /\ Keeps /\ \E s \in DOMAIN stripe : Sent(s)
<1>1. /\ Send(sub.stripe, <<"updated">>, stripe[sub.stripe]) /\ sub.stripe # None
      /\ UNCHANGED <<plan, month, sub, blocked, level, logs, call, stripe, meter, prices, resets>>
  BY DEF UpdatePaymentMethod
<1>2. sub.stripe \in DOMAIN stripe /\ stripe[sub.stripe] \in StripeRow /\ sub.stripe \in Nat
  BY <1>1, Settled, StripeTypes
<1>3. <<"updated">> \in Seq(EventTypes) BY DEF EventTypes
<1>4. Sent(sub.stripe) BY <1>1, <1>2, <1>3, SendEffect
<1>5. Types' /\ Ranges' BY <1>1, <1>2, <1>4, Settled, StripeKeeps
<1>6. Keeps BY <1>1, Unchanged
<1> QED BY <1>1, <1>2, <1>4, <1>5, <1>6 DEF Outside

\* publishPricePlans schedules the migration.
LEMMA PublishPlansEffect ==
  ASSUME Types, Ranges, PublishPlans
  PROVE  Types' /\ Ranges' /\ Outside /\ Keeps
<1>1. /\ publishing' = FALSE /\ version' = version + 1 /\ usable' = TRUE
      /\ UNCHANGED <<plan, month, blocked, level, logs, call, stripe, meter, hooks, resets>>
      /\ sub' = sub \/ sub' = [sub EXCEPT !.scheduled = version + 1]
  BY DEF PublishPlans
<1>2. unsettled' \in BOOLEAN BY DEF PublishPlans
<1>3. version + 1 \in 1 .. plan.versions /\ version + 1 \in Nat /\ month \in 0 .. plan.months
 <2>1. version < plan.versions BY DEF PublishPlans, Ranges
 <2> QED BY <2>1, PlanTypes DEF Types
<1>4. sub' \in SubRow /\ sub'.stripe = sub.stripe /\ Keeps
 <2>1. CASE sub' = sub BY <1>1, <2>1, Unchanged, Settled
 <2>2. CASE sub' = [sub EXCEPT !.scheduled = version + 1]
  <3>1. /\ sub \in SubRow /\ sub.status \in {"ACTIVE", "INACTIVE", "PAST_DUE"} /\ sub.plan \in Nat
        /\ sub.cancel \in BOOLEAN
    BY Settled DEF SubRow
  <3> DEFINE next == version + 1
  <3>2. next \in Nat /\ sub' = [sub EXCEPT !.scheduled = next] /\ resets' = resets BY <1>1, <1>3, <2>2
  <3> HIDE DEF next
  <3>3. sub' = [sub EXCEPT !.status = sub.status, !.cancel = sub.cancel, !.plan = sub.plan,
                           !.scheduled = next]
    BY <3>1, <3>2 DEF SubRow
  <3>4. resets' = resets /\ next \in Nat BY <3>2
  <3> QED BY <3>1, <3>3, <3>4, Marked
 <2> QED BY <1>1, <2>1, <2>2
<1>5. Types' /\ Ranges' /\ Outside BY <1>1, <1>2, <1>3, <1>4, RestKeeps
<1> QED BY <1>4, <1>5

\* The clock and the publisher's other steps.
LEMMA ClockAndPricesEffect ==
  ASSUME Types, Ranges, CreatePrices \/ PublisherDies \/ SyncStripeToActive \/ NextMonth
  PROVE  Types' /\ Ranges' /\ Outside /\ Keeps
<1>1. UNCHANGED <<plan, sub, blocked, level, logs, call, stripe, meter, hooks, resets, version, unsettled>>
  BY DEF CreatePrices, PublisherDies, SyncStripeToActive, NextMonth, prices
<1>2. publishing' \in BOOLEAN /\ usable' \in BOOLEAN
  BY DEF CreatePrices, PublisherDies, SyncStripeToActive, NextMonth, prices, Types
<1>3. month' \in 0 .. plan.months
 <2>1. month' = month \/ (month < plan.months /\ month' = month + 1)
   BY DEF CreatePrices, PublisherDies, SyncStripeToActive, NextMonth
 <2> QED BY <2>1, PlanTypes DEF Types
<1>4. publishing' => version < plan.versions
  BY DEF CreatePrices, PublisherDies, SyncStripeToActive, NextMonth, prices, Ranges
<1>5. Types' /\ Ranges' /\ Outside BY <1>1, <1>2, <1>3, <1>4, Settled, RestKeeps DEF Types
<1> QED BY <1>1, <1>5, Unchanged

--------------------
(* Every step. *)

\* Every step of a call keeps the types and moves that call only.
LEMMA TurnStepEffect ==
  ASSUME Types, Ranges, NEW q \in Calls, TurnStep(q)
  PROVE  Types' /\ Ranges' /\ Moved(q) /\ plan' = plan
<1>1. ASSUME NEW n \in Amounts, Answer(q, n) \/ IngestionCompleted(q, n) \/ ReadPurchase(q, n)
      PROVE  Types' /\ Ranges' /\ Moved(q) /\ plan' = plan
  BY <1>1, AnswerEffect, IngestionCompletedEffect, ReadPurchaseEffect DEF Goes
<1>2. ASSUME CheckTokenQuota(q) \/ ReadUsage(q) \/ CheckLimit(q) \/ Die(q) \/ Subscribe(q)
      PROVE  Types' /\ Ranges' /\ Moved(q) /\ plan' = plan
  BY <1>2, CheckTokenQuotaEffect, ReadUsageEffect, CheckLimitEffect, DieEffect, SubscribeEffect DEF Goes
<1>3. ASSUME \/ CommitUsage(q) \/ ReportUsage(q) \/ WritePurchase(q) \/ LogPurchase(q)
             \/ CreateAtStripe(q) \/ PersistSubscription(q)
      PROVE  Types' /\ Ranges' /\ Moved(q) /\ plan' = plan
  BY <1>3, CommitUsageEffect, ReportUsageEffect, WritePurchaseEffect, LogPurchaseEffect,
     CreateAtStripeEffect, PersistSubscriptionEffect
<1> QED BY <1>1, <1>2, <1>3 DEF TurnStep

\* A step is one of a call, or leaves the calls and their rows alone.
LEMMA NextCases ==
  ASSUME Types, Ranges, Next
  PROVE  /\ Types' /\ Ranges' /\ plan' = plan
         /\ \/ \E q \in Calls : TurnStep(q)
            \/ Outside /\ (Keeps \/ Resets \/ Relimits \/ Reallocates)
<1>1. CASE \E q \in Calls : TurnStep(q) BY <1>1, TurnStepEffect
<1>2. ASSUME NEW s \in DOMAIN stripe, StripeStep(s)
      PROVE  Types' /\ Ranges' /\ Outside /\ Keeps
  BY <1>2, StripeStepEffect, Unchanged
<1>3. ASSUME NEW e \in outstanding, ReadPayment(e) \/ PaymentFailed(e) \/ SubscriptionUpdated(e)
      PROVE  Types' /\ Ranges' /\ Outside /\ Keeps
  BY <1>3, ReadPaymentEffect, PaymentFailedEffect, SubscriptionUpdatedEffect, Unchanged
<1>4. ASSUME NEW e \in outstanding, SubscriptionDeleted(e)
      PROVE  Types' /\ Ranges' /\ Outside /\ (Keeps \/ Resets)
  BY <1>4, SubscriptionDeletedEffect
<1>5. ASSUME NEW h \in handling, ActivatePremium(h) \/ RenewPremium(h)
      PROVE  Types' /\ Ranges' /\ Outside /\ Resets
  BY <1>5, ActivatePremiumEffect, RenewPremiumEffect
<1>6. ASSUME NEW h \in handling, MigratePrice(h) \/ DropHandler(h)
      PROVE  Types' /\ Ranges' /\ Outside /\ Keeps
  BY <1>6, MigratePriceEffect, DropHandlerEffect
<1>7. ASSUME OwnerStep
      PROVE  Types' /\ Ranges' /\ Outside /\ (Keeps \/ Relimits \/ Reallocates)
  BY <1>7, SetSpendingLimitEffect, SetAllocationEffect, CancelSubscriptionEffect, UpdatePaymentMethodEffect
     DEF OwnerStep
<1>8. ASSUME CreatePrices \/ PublishPlans \/ PublisherDies \/ SyncStripeToActive \/ NextMonth
      PROVE  Types' /\ Ranges' /\ Outside /\ Keeps
  BY <1>8, PublishPlansEffect, ClockAndPricesEffect
<1> QED BY <1>1, <1>2, <1>3, <1>4, <1>5, <1>6, <1>7, <1>8 DEF Next, WebhookStep, Outside

--------------------
(* Who overlaps whom. *)

\* A call has only begun after calls that are over, and is where its kind goes.
Begun ==
  /\ \A q \in Calls : \A r \in call[q].since : call[r].pc \in Over
  /\ \A q \in Calls :
       /\ call[q].pc = "answer" => call[q].op = "chat"
       /\ call[q].pc \in {"track", "commit", "limit", "report"} => call[q].op \in {"chat", "ingest"}
       /\ call[q].pc \in {"pay", "note"} => call[q].op = "buy"

\* The steps of a call that leave the rows and the meter alone and the account as
\* it charges.
Quietly(q) ==
  UNCHANGED <<logs, meter>> /\ Keeps /\ call'[q].pc \notin {"limit", "report", "note"}

\* The steps of a call that write a row, the account or the meter.
LEMMA TurnCases ==
  ASSUME Types, Ranges, NEW q \in Calls, TurnStep(q)
  PROVE  \/ Quietly(q)
         \/ CommitUsage(q) \/ CheckLimit(q) \/ ReportUsage(q) \/ WritePurchase(q) \/ LogPurchase(q)
<1>1. ASSUME Goes(q), call'[q].pc \notin {"limit", "report", "note"}  PROVE Quietly(q)
  BY <1>1, Unchanged DEF Goes, Quietly
<1>2. ASSUME NEW n \in Amounts, Answer(q, n) \/ IngestionCompleted(q, n) \/ ReadPurchase(q, n)
      PROVE  Quietly(q)
  BY <1>1, <1>2, AnswerEffect, IngestionCompletedEffect, ReadPurchaseEffect
<1>3. ASSUME CheckTokenQuota(q) \/ ReadUsage(q) \/ Die(q) \/ Subscribe(q)
      PROVE  Quietly(q)
  BY <1>1, <1>3, CheckTokenQuotaEffect, ReadUsageEffect, DieEffect, SubscribeEffect
<1>4. ASSUME CreateAtStripe(q) \/ PersistSubscription(q)
      PROVE  Quietly(q)
  BY <1>4, CreateAtStripeEffect, PersistSubscriptionEffect DEF Quietly
<1> QED BY <1>2, <1>3, <1>4 DEF TurnStep

\* A call ends where its kind may be.
LEMMA TurnFits ==
  ASSUME Types, Ranges, Begun, NEW q \in Calls, TurnStep(q)
  PROVE  /\ call'[q].pc = "answer" => call[q].op = "chat"
         /\ call'[q].pc \in {"track", "commit", "limit", "report"} => call[q].op \in {"chat", "ingest"}
         /\ call'[q].pc \in {"pay", "note"} => call[q].op = "buy"
<1> DEFINE Fits == /\ call'[q].pc = "answer" => call[q].op = "chat"
                   /\ call'[q].pc \in {"track", "commit", "limit", "report"} => call[q].op \in {"chat", "ingest"}
                   /\ call'[q].pc \in {"pay", "note"} => call[q].op = "buy"
<1>1. ASSUME NEW n \in Amounts, Answer(q, n) \/ IngestionCompleted(q, n) \/ ReadPurchase(q, n)
      PROVE  Fits
  BY <1>1, AnswerEffect, IngestionCompletedEffect, ReadPurchaseEffect DEF Begun
<1>2. ASSUME CheckTokenQuota(q) \/ ReadUsage(q) \/ CheckLimit(q) \/ Die(q) \/ Subscribe(q)
      PROVE  Fits
  BY <1>2, CheckTokenQuotaEffect, ReadUsageEffect, CheckLimitEffect, DieEffect, SubscribeEffect DEF Begun
<1>3. ASSUME \/ CommitUsage(q) \/ ReportUsage(q) \/ WritePurchase(q) \/ LogPurchase(q)
             \/ CreateAtStripe(q) \/ PersistSubscription(q)
      PROVE  Fits
  BY <1>3, CommitUsageEffect, ReportUsageEffect, WritePurchaseEffect, LogPurchaseEffect,
     CreateAtStripeEffect, PersistSubscriptionEffect DEF Begun
<1> QED BY <1>1, <1>2, <1>3 DEF TurnStep

\* Begun is inductive.
LEMMA BegunHolds ==
  /\ Init => Begun
  /\ Types /\ Ranges /\ Begun /\ Next => Begun'
<1>1. Init => Begun BY DEF Init, Idle, Begun
<1>2. ASSUME Types, Ranges, Begun, NEW q \in Calls, TurnStep(q)
      PROVE  Begun'
 <2>1. Moved(q) BY <1>2, TurnStepEffect
 <2>2. ASSUME NEW p \in Calls, NEW r \in call'[p].since
       PROVE  call'[r].pc \in Over
  <3>1. r \in Calls /\ call[r].pc \in Over
   <4>1. CASE p # q \/ call[q].pc # "new"
    <5>1. r \in call[p].since BY <2>1, <2>2, <4>1 DEF Moved
    <5>2. call[p] \in CallRow BY <1>2 DEF Types
    <5> QED BY <1>2, <5>1, <5>2 DEF Begun, CallRow
   <4>2. CASE p = q /\ call[q].pc = "new" BY <2>1, <2>2, <4>2 DEF Moved
   <4> QED BY <4>1, <4>2
  <3> QED BY <2>1, <3>1 DEF Moved
 <2>3. \A p \in Calls : p # q => call'[p] = call[p] BY <2>1 DEF Moved
 <2>4. call'[q].op = call[q].op BY <2>1 DEF Moved
 <2> QED BY <1>2, <2>2, <2>3, <2>4, TurnFits DEF Begun
<1>3. ASSUME Types, Ranges, Begun, Outside
      PROVE  Begun'
  BY <1>3 DEF Outside, Begun
<1> QED BY <1>1, <1>2, <1>3, NextCases

\* A call that raced another has raced it for good.
LEMMA RacedStays ==
  ASSUME Types, Ranges, Begun, Next, NEW q \in Calls, Raced(q)
  PROVE  Raced(q)'
<1>1. PICK r \in Calls : call[r].pc # "new" /\ call[r].op # "subscribe" /\ Overlap(q, r) BY DEF Raced
<1>2. CASE Outside BY <1>2 DEF Outside, Raced, Overlap
<1>3. ASSUME NEW p \in Calls, TurnStep(p)
      PROVE  Raced(q)'
 <2>1. Moved(p) BY <1>3, TurnStepEffect
 <2>2. \A s \in {q, r} : /\ call'[s].pc # "new" /\ call'[s].op = call[s].op
                         /\ call'[s].since = call[s].since
   BY <1>1, <2>1 DEF Moved, Raced
 <2> QED BY <1>1, <2>2 DEF Raced, Overlap
<1> QED BY <1>2, <1>3, NextCases

\* A step of a call races every other one that is under way.
LEMMA StepRaces ==
  ASSUME Types, Ranges, Begun, NEW p \in Calls, TurnStep(p), call[p].op # "subscribe",
         NEW q \in Calls, q # p, call[q].pc \notin Over \cup {"new"}
  PROVE  Raced(q)'
<1>1. Moved(p) BY TurnStepEffect
<1>2. /\ call'[q] = call[q] /\ call'[p].op = call[p].op /\ call'[p].pc # "new" /\ call[p].pc \notin Over
      /\ call[q].pc # "new"
  BY <1>1 DEF Moved
<1>3. p \notin call'[q].since BY <1>2 DEF Begun
<1>4. q \notin call'[p].since BY <1>1 DEF Begun, Moved
<1> QED BY <1>2, <1>3, <1>4 DEF Raced, Overlap

--------------------
(* The rows of the log. *)

\* A row is written at the end of the log.
LEMMA LogGrows ==
  ASSUME Types, NEW q \in Calls, logs' = Append(logs, Row(q))
  PROVE  /\ Len(logs') = Len(logs) + 1 /\ DOMAIN logs' = DOMAIN logs \cup {Len(logs) + 1}
         /\ Len(logs) + 1 \notin DOMAIN logs /\ Len(logs) \in Nat
         /\ \A i \in DOMAIN logs : logs'[i] = logs[i]
         /\ logs'[Len(logs) + 1] = Row(q)
<1>1. logs \in Seq(LogRow) /\ Row(q) \in LogRow BY RowType DEF Types
<1>2. /\ Len(logs') = Len(logs) + 1 /\ \A i \in 1 .. Len(logs) : logs'[i] = logs[i]
      /\ logs'[Len(logs) + 1] = Row(q) /\ logs' \in Seq(LogRow)
  BY <1>1, AppendProperties
<1>3. DOMAIN logs = 1 .. Len(logs) /\ Len(logs) \in Nat /\ DOMAIN logs' = 1 .. Len(logs') BY <1>1, <1>2
<1>4. 1 .. Len(logs) + 1 = (1 .. Len(logs)) \cup {Len(logs) + 1} /\ Len(logs) + 1 \notin 1 .. Len(logs) BY <1>3
<1> QED BY <1>2, <1>3, <1>4

\* A reset leaves the whole log behind it.
LEMMA LastResetMoves ==
  ASSUME Types
  PROVE  /\ resets' = resets => LastReset' = LastReset
         /\ resets' = Append(resets, Len(logs)) => LastReset' = Len(logs) /\ resets' # <<>>
<1>1. resets' = resets => LastReset' = LastReset BY DEF LastReset
<1>2. ASSUME resets' = Append(resets, Len(logs))
      PROVE  LastReset' = Len(logs) /\ resets' # <<>>
 <2>1. resets \in Seq(Nat) /\ Len(logs) \in Nat BY LogTypes DEF Types
 <2>2. resets' # <<>> /\ Len(resets') = Len(resets) + 1 /\ resets'[Len(resets) + 1] = Len(logs)
   BY <1>2, <2>1, AppendProperties
 <2> QED BY <2>2 DEF LastReset
<1> QED BY <1>1, <1>2

Recorded(q) == \E i \in DOMAIN logs : logs[i].by = q /\ logs[i].cost > 0

\* Rows are written by calls that have begun, an ingestion's once; what is
\* reported, or will be, is recorded.
Rows ==
  /\ LastReset \in 0 .. Len(logs)
  /\ \A i \in DOMAIN logs : call[logs[i].by].pc # "new"
  /\ \A q \in Calls : call[q].pc \in {"limit", "report"} => Recorded(q)
  /\ \A q \in Calls : call[q].pc \notin Over => meter[q] = 0
  /\ \A q \in Calls : meter[q] <= 1 /\ (meter[q] = 1 => Recorded(q))
  /\ \A i, k \in RowsOf("ingest") : i = k

\* There are no rows at first.
LEMMA RowsInit == Init => Rows
<1> SUFFICES ASSUME Init  PROVE Rows OBVIOUS
<1>1. logs = <<>> /\ resets = <<>> /\ \A q \in Calls : call[q].pc = "new" /\ meter[q] = 0 BY DEF Init, Idle
<1>2. DOMAIN logs = {} /\ Len(logs) = 0 BY <1>1
<1> QED BY <1>1, <1>2 DEF Rows, LastReset, RowsOf

\* No row is written.
LEMMA RowsKept ==
  ASSUME Types, Rows, UNCHANGED <<logs, meter, resets>>, NEW q \in Calls, Moved(q),
         call'[q].pc \in {"limit", "report"} => call[q].pc \in {"limit", "report"}
  PROVE  Rows'
<1>1. LastReset' = LastReset /\ Len(logs') = Len(logs) /\ RowsOf("ingest")' = RowsOf("ingest")
  BY LastResetMoves DEF RowsOf
<1>2. \A i \in DOMAIN logs : logs[i].by \in Calls BY LogTypes
<1>3. \A p \in Calls : /\ call[p].pc # "new" => call'[p].pc # "new"
                       /\ call'[p].pc \in {"limit", "report"} => call[p].pc \in {"limit", "report"}
                       /\ call'[p].pc \notin Over => call[p].pc \notin Over
  BY DEF Moved
<1>4. \A p \in Calls : Recorded(p)' <=> Recorded(p) BY DEF Recorded
<1> QED BY <1>1, <1>2, <1>3, <1>4 DEF Rows

\* Call q writes its row.
LEMMA RowsWritten ==
  ASSUME Types, Rows, UNCHANGED <<meter, resets>>, NEW q \in Calls, Moved(q), ~Duplicate(q),
         logs' = Append(logs, Row(q)), call'[q].pc \in {"limit", "done"},
         call'[q].pc = "limit" => call[q].cost > 0
  PROVE  Rows'
<1>1. /\ LastReset' = LastReset /\ Len(logs) \in Nat /\ LastReset \in 0 .. Len(logs)
      /\ Len(logs') = Len(logs) + 1
  BY LastResetMoves, LogGrows DEF Rows
<1>2. LastReset' \in 0 .. Len(logs') BY <1>1
<1>3. \A i \in DOMAIN logs : logs[i].by \in Calls BY LogTypes
<1>4. \A p \in Calls : /\ call[p].pc # "new" => call'[p].pc # "new"
                       /\ p # q => call'[p] = call[p]
                       /\ call'[p].pc \notin Over => call[p].pc \notin Over
  BY DEF Moved
<1>5. /\ DOMAIN logs' = DOMAIN logs \cup {Len(logs) + 1} /\ \A i \in DOMAIN logs : logs'[i] = logs[i]
      /\ logs'[Len(logs) + 1] = Row(q) /\ Row(q).by = q /\ Row(q).op = call[q].op
      /\ Row(q).cost = call[q].cost
  BY LogGrows, RowType
<1>6. \A p \in Calls : Recorded(p) => Recorded(p)' BY <1>5 DEF Recorded
<1>7. call[q].cost > 0 => Recorded(q)' BY <1>5 DEF Recorded
<1>8. \A i \in DOMAIN logs' : call'[logs'[i].by].pc # "new"
 <2>1. call'[q].pc # "new" BY DEF Moved
 <2> QED BY <1>3, <1>4, <1>5, <2>1 DEF Rows
<1>9. \A i, k \in RowsOf("ingest")' : i = k
 <2>1. call[q].op = "ingest" => RowsOf("ingest") = {} BY DEF Duplicate, RowsOf
 <2>2. RowsOf("ingest")' = RowsOf("ingest") \cup (IF call[q].op = "ingest" THEN {Len(logs) + 1} ELSE {})
   BY <1>5 DEF RowsOf
 <2> QED BY <2>1, <2>2 DEF Rows
<1>10. \A p \in Calls : call'[p].pc \in {"limit", "report"} => Recorded(p)' BY <1>4, <1>6, <1>7 DEF Rows
<1>11. \A p \in Calls : /\ call'[p].pc \notin Over => meter'[p] = 0
                        /\ meter'[p] <= 1 /\ (meter'[p] = 1 => Recorded(p)')
  BY <1>4, <1>6 DEF Rows
<1> QED BY <1>2, <1>8, <1>9, <1>10, <1>11 DEF Rows

\* What reaches the meter is recorded.
LEMMA RowsReported ==
  ASSUME Types, Ranges, Rows, NEW q \in Calls, ReportUsage(q)
  PROVE  Rows'
<1>1. /\ Moved(q) /\ UNCHANGED <<logs, resets>> /\ call[q].pc = "report" /\ call'[q].pc = "done"
      /\ meter' = meter \/ meter' = [meter EXCEPT ![q] = @ + 1]
  BY ReportUsageEffect
<1>2. LastReset' = LastReset /\ Len(logs') = Len(logs) /\ RowsOf("ingest")' = RowsOf("ingest")
  BY <1>1, LastResetMoves DEF RowsOf
<1>3. \A i \in DOMAIN logs : logs[i].by \in Calls BY LogTypes
<1>4. \A p \in Calls : /\ call'[p].pc # "new" \/ call[p].pc = "new"
                       /\ p # q => call'[p] = call[p]
  BY <1>1 DEF Moved
<1>5. \A p \in Calls : Recorded(p)' <=> Recorded(p) BY <1>1 DEF Recorded
<1>6. Recorded(q) /\ meter[q] = 0 BY <1>1 DEF Rows, Over
<1>7. \A p \in Calls : meter'[p] = meter[p] \/ (p = q /\ meter'[p] = 1) BY <1>1, <1>6 DEF Types
<1>8. \A p \in Calls : meter'[p] <= 1 /\ (meter'[p] = 1 => Recorded(p)') BY <1>5, <1>6, <1>7 DEF Rows
<1>9. \A p \in Calls : call'[p].pc \notin Over => meter'[p] = 0 BY <1>1, <1>4, <1>7 DEF Rows, Over
<1>10. \A p \in Calls : call'[p].pc \in {"limit", "report"} => Recorded(p)' BY <1>1, <1>4, <1>5 DEF Rows
<1> QED BY <1>1, <1>2, <1>3, <1>4, <1>8, <1>9, <1>10 DEF Rows

\* Rows is inductive.
LEMMA RowsHold ==
  ASSUME Types, Ranges, Begun, Rows, Next
  PROVE  Rows'
<1>1. CASE Outside /\ resets' = resets BY <1>1, LastResetMoves DEF Outside, Rows, Recorded, RowsOf
<1>2. CASE Outside /\ Resets
 <2>1. LastReset' = Len(logs) /\ Len(logs) \in Nat BY <1>2, LastResetMoves, LogTypes DEF Resets
 <2> QED BY <1>2, <2>1 DEF Outside, Rows, Recorded, RowsOf
<1>3. ASSUME NEW q \in Calls, TurnStep(q)
      PROVE  Rows'
 <2>1. Moved(q) BY <1>3, TurnStepEffect
 <2>2. CASE Quietly(q) BY <2>1, <2>2, RowsKept DEF Quietly, Keeps
 <2>3. CASE CommitUsage(q) BY <2>1, <2>3, CommitUsageEffect, RowsKept, RowsWritten
 <2>4. CASE CheckLimit(q) BY <2>1, <2>4, CheckLimitEffect, RowsKept DEF Goes
 <2>5. CASE WritePurchase(q) BY <2>1, <2>5, WritePurchaseEffect, RowsKept
 <2>6. CASE LogPurchase(q)
  <3>1. /\ call[q].pc = "note" /\ call'[q].pc = "done" /\ logs' = Append(logs, Row(q))
        /\ UNCHANGED <<meter, resets>>
    BY <2>6, LogPurchaseEffect
  <3>2. ~Duplicate(q) BY <3>1 DEF Begun, Duplicate
  <3> QED BY <2>1, <3>1, <3>2, RowsWritten
 <2> QED BY <1>3, <2>2, <2>3, <2>4, <2>5, <2>6, RowsReported, TurnCases
<1> QED BY <1>1, <1>2, <1>3, NextCases DEF Keeps, Relimits, Reallocates

--------------------
(* The counter and the log. *)

\* The sums over rows that were there stay, the new row adds its tokens.
LEMMA SumsGrow ==
  ASSUME Types, Types', NEW q \in Calls, logs' = Append(logs, Row(q)), NEW S \in SUBSET DOMAIN logs
  PROVE  /\ SumFunctionOnSet(Tokens', S) = SumFunctionOnSet(Tokens, S)
         /\ SumFunctionOnSet(Costs', S) = SumFunctionOnSet(Costs, S)
         /\ SumFunctionOnSet(Tokens', S \cup {Len(logs) + 1}) = SumFunctionOnSet(Tokens, S) + call[q].n
<1>1. IsFiniteSet(S) /\ \A i \in S : Tokens[i] \in Nat /\ Costs[i] \in Nat BY LogTypes, FS_Subset
<1>2. /\ \A i \in S : i \in DOMAIN logs' /\ logs'[i] = logs[i]
      /\ Len(logs) + 1 \notin S /\ Len(logs) + 1 \in DOMAIN logs' /\ logs'[Len(logs) + 1].n = call[q].n
  BY LogGrows, RowType
<1>3. \A i \in DOMAIN logs' : Tokens'[i] = logs'[i].n /\ Costs'[i] = logs'[i].cost BY DEF Tokens, Costs
<1>4. \A i \in S : Tokens'[i] = Tokens[i] /\ Costs'[i] = Costs[i] BY <1>2, <1>3 DEF Tokens, Costs
<1>5. Tokens'[Len(logs) + 1] = call[q].n /\ call[q].n \in Nat BY <1>2, <1>3 DEF Types, CallRow
<1>6. \A i \in S : Tokens[i] \in Int /\ Tokens[i] = Tokens'[i] /\ Costs[i] \in Int /\ Costs[i] = Costs'[i]
  BY <1>1, <1>4
<1>7. SumFunctionOnSet(Tokens, S) = SumFunctionOnSet(Tokens', S) BY <1>1, <1>6, SumSame
<1>8. SumFunctionOnSet(Costs, S) = SumFunctionOnSet(Costs', S) BY <1>1, <1>6, SumSame
<1>9. \A i \in S \cup {Len(logs) + 1} : Tokens'[i] \in Int BY <1>1, <1>4, <1>5
<1>10. SumFunctionOnSet(Tokens', S \cup {Len(logs) + 1}) = SumFunctionOnSet(Tokens', S) + Tokens'[Len(logs) + 1]
  BY <1>1, <1>2, <1>9, SumAdd
<1> QED BY <1>5, <1>7, <1>8, <1>10

Counted == {i \in RowsOf("chat") \cup RowsOf("ingest") : i > LastReset}

\* Nothing is used at first.
LEMMA LedgerInit == Init => LedgerBalanced
<1> SUFFICES ASSUME Init  PROVE LedgerBalanced OBVIOUS
<1>1. logs = <<>> /\ sub.used = 0 BY DEF Init, Customer
<1>2. {i \in RowsOf("chat") \cup RowsOf("ingest") : i > LastReset} = {} BY <1>1 DEF RowsOf
<1> QED BY <1>1, <1>2, SumEmpty DEF LedgerBalanced

\* The counter and the rows stay as they are.
LEMMA LedgerKept ==
  ASSUME Types, LedgerBalanced, UNCHANGED <<logs, resets>>, sub'.used = sub.used
  PROVE  LedgerBalanced'
<1>1. Tokens' = Tokens /\ LastReset' = LastReset BY LastResetMoves DEF Tokens
<1>2. RowsOf("chat")' = RowsOf("chat") /\ RowsOf("ingest")' = RowsOf("ingest") BY DEF RowsOf
<1> QED BY <1>1, <1>2 DEF LedgerBalanced

\* After a reset no row counts.
LEMMA LedgerReset ==
  ASSUME Types, UNCHANGED logs, Resets
  PROVE  LedgerBalanced'
<1>1. LastReset' = Len(logs) /\ DOMAIN logs = 1 .. Len(logs) /\ Len(logs) \in Nat
  BY LastResetMoves, LogTypes DEF Resets
<1>2. {i \in RowsOf("chat") \cup RowsOf("ingest") : i > LastReset}' = {} BY <1>1 DEF RowsOf
<1>3. SumFunctionOnSet(Tokens', {}) = 0 BY SumEmpty
<1> QED BY <1>2, <1>3 DEF LedgerBalanced, Resets

\* A row that is written counts when it is a turn's or an ingestion's.
LEMMA CountedGrows ==
  ASSUME Types, Rows, NEW q \in Calls, logs' = Append(logs, Row(q)), resets' = resets
  PROVE  /\ Counted \subseteq DOMAIN logs
         /\ Counted' = Counted \cup (IF call[q].op \in {"chat", "ingest"} THEN {Len(logs) + 1} ELSE {})
<1>1. /\ Len(logs) \in Nat /\ DOMAIN logs' = DOMAIN logs \cup {Len(logs) + 1}
      /\ \A i \in DOMAIN logs : logs'[i] = logs[i]
      /\ logs'[Len(logs) + 1].op = call[q].op /\ Len(logs) + 1 \notin DOMAIN logs
  BY LogGrows, RowType
<1>2. LastReset' = LastReset /\ Len(logs) + 1 > LastReset BY <1>1, LastResetMoves DEF Rows
<1>3. \A op : RowsOf(op)' = RowsOf(op) \cup (IF call[q].op = op THEN {Len(logs) + 1} ELSE {}) BY <1>1 DEF RowsOf
<1>4. Counted' = {i \in RowsOf("chat")' \cup RowsOf("ingest")' : i > LastReset'} BY DEF Counted
<1>5. Counted' = Counted \cup (IF call[q].op \in {"chat", "ingest"} THEN {Len(logs) + 1} ELSE {})
  BY <1>2, <1>3, <1>4 DEF Counted
<1>6. Counted \subseteq DOMAIN logs BY DEF Counted, RowsOf
<1> QED BY <1>5, <1>6

\* LedgerBalanced is kept by every step: the increment is in the transaction of the row.
LEMMA LedgerHolds ==
  ASSUME Types, Ranges, Begun, Rows, LedgerBalanced, Next
  PROVE  LedgerBalanced'
<1>1. ASSUME Outside, Keeps \/ Resets \/ Relimits \/ Reallocates
      PROVE  LedgerBalanced'
 <2>1. Resets \/ (resets' = resets /\ sub'.used = sub.used) BY <1>1 DEF Keeps, Relimits, Reallocates
 <2>2. logs' = logs BY <1>1 DEF Outside
 <2> QED BY <2>1, <2>2, LedgerKept, LedgerReset
<1>2. ASSUME NEW q \in Calls, TurnStep(q)
      PROVE  LedgerBalanced'
 <2>1. CASE Quietly(q) \/ CheckLimit(q) \/ ReportUsage(q)
   BY <2>1, CheckLimitEffect, ReportUsageEffect, LedgerKept DEF Quietly, Keeps, Goes
 <2>2. CASE WritePurchase(q)
  <3>1. sub'.used = sub.used /\ UNCHANGED <<logs, resets>> BY <2>2, WritePurchaseEffect DEF Types, SubRow
  <3> QED BY <3>1, LedgerKept
 <2>3. ASSUME logs' = Append(logs, Row(q)), resets' = resets,
              sub'.used = sub.used + (IF call[q].op \in {"chat", "ingest"} THEN call[q].n ELSE 0)
       PROVE  LedgerBalanced'
  <3>1. /\ Counted \subseteq DOMAIN logs
        /\ Counted' = Counted \cup (IF call[q].op \in {"chat", "ingest"} THEN {Len(logs) + 1} ELSE {})
    BY <2>3, CountedGrows
  <3>2. Types' BY NextCases
  <3>3. /\ SumFunctionOnSet(Tokens', Counted) = SumFunctionOnSet(Tokens, Counted)
        /\ SumFunctionOnSet(Tokens', Counted \cup {Len(logs) + 1})
             = SumFunctionOnSet(Tokens, Counted) + call[q].n
    BY <2>3, <3>1, <3>2, SumsGrow
  <3>4. sub.used = SumFunctionOnSet(Tokens, Counted) /\ sub.used \in Nat BY DEF LedgerBalanced, Counted, Types, SubRow
  <3>5. sub'.used = SumFunctionOnSet(Tokens', Counted')
   <4>1. CASE call[q].op \in {"chat", "ingest"} BY <2>3, <3>1, <3>3, <3>4, <4>1
   <4>2. CASE call[q].op \notin {"chat", "ingest"} BY <2>3, <3>1, <3>3, <3>4, <4>2
   <4> QED BY <4>1, <4>2
  <3> QED BY <3>5 DEF LedgerBalanced, Counted
 <2>4. CASE LogPurchase(q)
  <3>1. /\ logs' = Append(logs, Row(q)) /\ resets' = resets /\ sub' = sub /\ call[q].op = "buy"
        /\ sub.used \in Nat
    BY <2>4, LogPurchaseEffect DEF Begun, Types, SubRow
  <3> QED BY <2>3, <3>1
 <2>5. CASE CommitUsage(q)
  <3>1. CASE UNCHANGED <<logs, sub>> BY <2>5, <3>1, CommitUsageEffect, LedgerKept
  <3>2. CASE logs' = Append(logs, Row(q)) /\ sub' = [sub EXCEPT !.used = @ + call[q].n]
   <4>1. sub'.used = sub.used + call[q].n /\ call[q].op \in {"chat", "ingest"} /\ resets' = resets
     BY <2>5, <3>2, CommitUsageEffect DEF Begun, Types, SubRow
   <4> QED BY <2>3, <3>2, <4>1
  <3> QED BY <2>5, <3>1, <3>2, CommitUsageEffect
 <2> QED BY <1>2, <2>1, <2>2, <2>4, <2>5, TurnCases
<1> QED BY <1>1, <1>2, NextCases

\* What is reported is recorded, an ingestion once.
LEMMA RecordedOnce ==
  ASSUME Types, Rows
  PROVE  ReportedIsRecorded
<1>1. Cardinality(RowsOf("ingest")) <= 1
 <2>1. CASE RowsOf("ingest") = {} BY <2>1, FS_EmptySet
 <2>2. CASE RowsOf("ingest") # {}
  <3>1. PICK i : i \in RowsOf("ingest") BY <2>2
  <3>2. RowsOf("ingest") = {i} BY <3>1 DEF Rows
  <3>3. Cardinality({i}) = 1 BY FS_Singleton
  <3> QED BY <3>2, <3>3
 <2> QED BY <2>1, <2>2
<1>2. ASSUME NEW q \in Calls
      PROVE  meter[q] <= Cardinality({i \in DOMAIN logs : logs[i].by = q /\ logs[i].cost > 0})
 <2> DEFINE S == {i \in DOMAIN logs : logs[i].by = q /\ logs[i].cost > 0}
 <2>1. IsFiniteSet(S) BY LogTypes, FS_Subset
 <2>2. Cardinality(S) \in Nat /\ (S # {} => Cardinality(S) # 0) BY <2>1, FS_CardinalityType, FS_EmptySet
 <2>3. meter[q] \in Nat /\ meter[q] <= 1 /\ (meter[q] = 1 => S # {}) BY DEF Types, Rows, Recorded
 <2> HIDE DEF S
 <2>4. meter[q] <= Cardinality(S) BY <2>2, <2>3
 <2> QED BY <2>4 DEF S
<1> QED BY <1>1, <1>2 DEF ReportedIsRecorded

--------------------
(* The tokens bought. *)

\* A purchase that writes a sum the account has left behind has raced another.
Buying ==
  resets = <<>> => \A q \in Calls :
    call[q].pc = "pay" => Raced(q) \/ call[q].seen.bought = sub.bought

\* What a step of a call does to the tokens bought.
LEMMA TurnBuys ==
  ASSUME Types, Ranges, NEW q \in Calls, TurnStep(q)
  PROVE  /\ resets' = resets
         /\ sub'.bought = sub.bought \/ WritePurchase(q)
         /\ call'[q].pc = "pay" => call'[q].seen = sub
<1>1. CASE WritePurchase(q) BY <1>1, WritePurchaseEffect
<1>2. CASE \E n \in Amounts : Answer(q, n) \/ IngestionCompleted(q, n) \/ ReadPurchase(q, n)
  BY <1>2, AnswerEffect, IngestionCompletedEffect, ReadPurchaseEffect DEF Goes
<1>3. CASE CheckTokenQuota(q) \/ ReadUsage(q) \/ CheckLimit(q) \/ Die(q) \/ Subscribe(q)
  BY <1>3, CheckTokenQuotaEffect, ReadUsageEffect, CheckLimitEffect, DieEffect, SubscribeEffect DEF Goes
<1>4. CASE ReportUsage(q) \/ LogPurchase(q) BY <1>4, ReportUsageEffect, LogPurchaseEffect
<1>5. CASE CreateAtStripe(q) \/ PersistSubscription(q)
  BY <1>5, CreateAtStripeEffect, PersistSubscriptionEffect DEF Keeps
<1>6. CASE CommitUsage(q) BY <1>6, CommitUsageEffect DEF Types, SubRow
<1> QED BY <1>1, <1>2, <1>3, <1>4, <1>5, <1>6 DEF TurnStep

\* Buying is inductive.
LEMMA BuyingHolds ==
  /\ Init => Buying
  /\ Types /\ Ranges /\ Begun /\ Buying /\ Next => Buying'
<1>1. Init => Buying BY DEF Init, Idle, Buying
<1>2. ASSUME Types, Ranges, Begun, Buying, Next
      PROVE  Buying'
 <2> SUFFICES ASSUME resets' = <<>>, NEW q \in Calls, call'[q].pc = "pay"
              PROVE  Raced(q)' \/ call'[q].seen.bought = sub'.bought
   BY DEF Buying
 <2>1. CASE Outside /\ (Keeps \/ Resets \/ Relimits \/ Reallocates)
  <3>1. ~Resets BY LastResetMoves, <1>2 DEF Resets
  <3>2. /\ sub'.bought = sub.bought /\ resets' = resets /\ call' = call
    BY <2>1, <3>1 DEF Outside, Keeps, Relimits, Reallocates
  <3> QED BY <1>2, <3>2, RacedStays DEF Buying
 <2>2. ASSUME NEW p \in Calls, TurnStep(p)
       PROVE  Raced(q)' \/ call'[q].seen.bought = sub'.bought
  <3>1. /\ Moved(p) /\ resets' = resets
        /\ sub'.bought = sub.bought \/ WritePurchase(p)
    BY <1>2, <2>2, TurnStepEffect, TurnBuys
  <3>2. CASE q = p
   <4>1. call'[q].seen = sub /\ ~WritePurchase(p) BY <1>2, <2>2, <3>2, TurnBuys, WritePurchaseEffect
   <4> QED BY <3>1, <4>1
  <3>3. CASE q # p
   <4>1. call'[q] = call[q] /\ call[q].pc = "pay" BY <3>1, <3>3 DEF Moved
   <4>2. CASE WritePurchase(p)
    <5>1. call[p].op # "subscribe" BY <1>2, <4>2, WritePurchaseEffect DEF Begun
    <5> QED BY <1>2, <2>2, <3>3, <4>1, <5>1, StepRaces DEF Over
   <4>3. CASE sub'.bought = sub.bought BY <1>2, <3>1, <4>1, <4>3, RacedStays DEF Buying
   <4> QED BY <3>1, <4>2, <4>3
  <3> QED BY <3>2, <3>3
 <2> QED BY <1>2, <2>1, <2>2, NextCases
<1> QED BY <1>1, <1>2

Logged == SumFunctionOnSet(Tokens, RowsOf("buy"))
Unlogged == {q \in Calls : call[q].pc = "note"}
\* A purchase was disturbed by another, by a crash.
Blurred == \E q \in Calls : call[q].op = "buy" /\ (Raced(q) \/ call[q].pc = "dead")

\* PurchasesKept by the names above.
LEMMA PurchasesMean ==
  PurchasesKept <=> \/ Len(resets) > 0 \/ Blurred
                    \/ Unlogged = {} /\ sub.bought = Logged
                    \/ \E q \in Unlogged : sub.bought = Logged + call[q].n
BY DEF PurchasesKept, Logged, Unlogged, Blurred

\* A disturbed purchase stays one.
LEMMA BlurredStays ==
  ASSUME Types, Ranges, Begun, Next, Blurred
  PROVE  Blurred'
<1>1. PICK q \in Calls : call[q].op = "buy" /\ (Raced(q) \/ call[q].pc = "dead") BY DEF Blurred
<1>2. call'[q].op = call[q].op /\ (call[q].pc = "dead" => call'[q].pc = "dead")
  BY NextCases, TurnStepEffect DEF Outside, Moved, Over
<1> QED BY <1>1, <1>2, RacedStays DEF Blurred

\* Nothing happens to the tokens bought.
LEMMA PurchasesStay ==
  ASSUME Types, Ranges, Begun, Next, PurchasesKept, Logged' = Logged, sub'.bought = sub.bought,
         resets' = resets, Unlogged' = Unlogged, \A q \in Unlogged : call'[q].n = call[q].n
  PROVE  PurchasesKept'
<1>1. PurchasesKept' <=> \/ Len(resets') > 0 \/ Blurred'
                         \/ Unlogged' = {} /\ sub'.bought = Logged'
                         \/ \E q \in Unlogged' : sub'.bought = Logged' + call'[q].n
  BY DEF PurchasesKept, Logged, Unlogged, Blurred
<1> QED BY <1>1, BlurredStays, PurchasesMean

\* The rows of purchases, and their sum, after a row.
LEMMA LoggedGrows ==
  ASSUME Types, Types', NEW q \in Calls, logs' = Append(logs, Row(q))
  PROVE  Logged' = Logged + (IF call[q].op = "buy" THEN call[q].n ELSE 0) /\ Logged \in Int
<1>1. /\ DOMAIN logs' = DOMAIN logs \cup {Len(logs) + 1} /\ \A i \in DOMAIN logs : logs'[i] = logs[i]
      /\ logs'[Len(logs) + 1].op = call[q].op /\ Len(logs) + 1 \notin DOMAIN logs
  BY LogGrows, RowType
<1>2. RowsOf("buy")' = RowsOf("buy") \cup (IF call[q].op = "buy" THEN {Len(logs) + 1} ELSE {}) BY <1>1 DEF RowsOf
<1>3. RowsOf("buy") \in SUBSET DOMAIN logs BY DEF RowsOf
<1>4. /\ SumFunctionOnSet(Tokens', RowsOf("buy")) = Logged
      /\ SumFunctionOnSet(Tokens', RowsOf("buy") \cup {Len(logs) + 1}) = Logged + call[q].n
  BY <1>3, SumsGrow DEF Logged
<1>5. Logged \in Int
 <2>1. IsFiniteSet(RowsOf("buy")) /\ \A i \in RowsOf("buy") : Tokens[i] \in Int BY <1>3, LogTypes, FS_Subset
 <2> QED BY <2>1, SumType DEF Logged
<1>6. Logged' = SumFunctionOnSet(Tokens', RowsOf("buy")') BY DEF Logged
<1>7. CASE call[q].op = "buy" BY <1>2, <1>4, <1>5, <1>6, <1>7
<1>8. CASE call[q].op # "buy"
 <2>1. RowsOf("buy")' = RowsOf("buy") BY <1>2, <1>8
 <2>2. Logged' = Logged BY <1>4, <1>6, <2>1
 <2> QED BY <1>5, <1>8, <2>2
<1> QED BY <1>5, <1>7, <1>8

\* Only a purchase writes the note, only it or a crash ends it.
LEMMA NoteSteps ==
  ASSUME Types, Ranges, NEW q \in Calls, TurnStep(q)
  PROVE  /\ call'[q].pc = "note" => WritePurchase(q)
         /\ call[q].pc = "note" => LogPurchase(q) \/ call'[q].pc = "dead"
<1>1. CASE \E n \in Amounts : Answer(q, n) \/ IngestionCompleted(q, n) \/ ReadPurchase(q, n)
  BY <1>1, AnswerEffect, IngestionCompletedEffect, ReadPurchaseEffect
<1>2. CASE CheckTokenQuota(q) \/ ReadUsage(q) \/ CheckLimit(q) \/ Die(q) \/ Subscribe(q)
  BY <1>2, CheckTokenQuotaEffect, ReadUsageEffect, CheckLimitEffect, DieEffect, SubscribeEffect
<1>3. CASE \/ CommitUsage(q) \/ ReportUsage(q) \/ WritePurchase(q) \/ LogPurchase(q)
           \/ CreateAtStripe(q) \/ PersistSubscription(q)
  BY <1>3, CommitUsageEffect, ReportUsageEffect, WritePurchaseEffect, LogPurchaseEffect,
     CreateAtStripeEffect, PersistSubscriptionEffect
<1> QED BY <1>1, <1>2, <1>3 DEF TurnStep

\* Nothing is bought at first.
LEMMA PurchasesInit == Init => PurchasesKept
<1> SUFFICES ASSUME Init  PROVE PurchasesKept OBVIOUS
<1>1. logs = <<>> /\ sub.bought = 0 /\ \A q \in Calls : call[q].pc = "new" BY DEF Init, Customer, Idle
<1>2. RowsOf("buy") = {} /\ {q \in Calls : call[q].pc = "note"} = {} BY <1>1 DEF RowsOf
<1> QED BY <1>1, <1>2, SumEmpty DEF PurchasesKept

\* PurchasesKept is kept by every step.
LEMMA PurchasesHold ==
  ASSUME Types, Ranges, Begun, Buying, PurchasesKept, Next
  PROVE  PurchasesKept'
<1>1. PurchasesKept' <=> \/ Len(resets') > 0 \/ Blurred'
                         \/ Unlogged' = {} /\ sub'.bought = Logged'
                         \/ \E q \in Unlogged' : sub'.bought = Logged' + call'[q].n
  BY DEF PurchasesKept, Logged, Unlogged, Blurred
<1>2. ASSUME Outside, Resets
      PROVE  PurchasesKept'
 <2>1. resets \in Seq(Nat) /\ resets' = Append(resets, Len(logs)) /\ Len(logs) \in Nat
   BY <1>2, LogTypes DEF Types, Resets
 <2>2. Len(resets') > 0 BY <2>1
 <2> QED BY <1>1, <2>2
<1>3. ASSUME Outside, Keeps \/ Relimits \/ Reallocates
      PROVE  PurchasesKept'
 <2>1. Logged' = Logged /\ Unlogged' = Unlogged /\ call' = call BY <1>3 DEF Outside, Logged, Unlogged, Tokens, RowsOf
 <2>2. sub'.bought = sub.bought /\ resets' = resets BY <1>3 DEF Keeps, Relimits, Reallocates
 <2> QED BY <2>1, <2>2, PurchasesStay
<1>4. ASSUME NEW p \in Calls, TurnStep(p)
      PROVE  PurchasesKept'
 <2>0. /\ Moved(p) /\ resets' = resets /\ Types'
       /\ sub'.bought = sub.bought \/ WritePurchase(p)
   BY <1>4, TurnStepEffect, TurnBuys
 <2>1. ASSUME Logged' = Logged, call[p].pc # "note", call'[p].pc # "note", sub'.bought = sub.bought
       PROVE  PurchasesKept'
  <3>1. Unlogged' = Unlogged /\ \A q \in Unlogged : call'[q].n = call[q].n BY <2>0, <2>1 DEF Unlogged, Moved
  <3> QED BY <2>0, <2>1, <3>1, PurchasesStay
 <2>2. ASSUME NEW q \in Unlogged, q # p, call[p].op # "subscribe"
       PROVE  Blurred'
  <3>1. q \in Calls /\ call[q].pc = "note" /\ call[q].pc \notin Over \cup {"new"} /\ call[q].op = "buy"
    BY <2>2 DEF Unlogged, Begun, Over
  <3>2. Raced(q)' BY <1>4, <2>2, <3>1, StepRaces
  <3>3. call'[q].op = "buy" BY <2>0, <2>2, <3>1 DEF Moved
  <3> QED BY <3>1, <3>2, <3>3 DEF Blurred
 <2>3. CASE WritePurchase(p)
  <3>1. /\ call[p].pc = "pay" /\ call'[p].pc = "note" /\ call'[p].n = call[p].n /\ call[p].op = "buy"
        /\ sub' = [sub EXCEPT !.bought = call[p].seen.bought + call[p].n] /\ logs' = logs
    BY <2>3, WritePurchaseEffect DEF Begun
  <3>2. sub'.bought = call[p].seen.bought + call[p].n /\ Logged' = Logged /\ p \in Unlogged'
    BY <3>1 DEF Types, SubRow, Logged, Unlogged, Tokens, RowsOf
  <3>3. CASE Len(resets) > 0 \/ Blurred BY <1>1, <2>0, <3>3, BlurredStays
  <3>4. CASE \E q \in Unlogged : sub.bought = Logged + call[q].n BY <1>1, <2>2, <3>1, <3>4 DEF Unlogged
  <3>5. CASE Unlogged = {} /\ sub.bought = Logged /\ ~(Len(resets) > 0)
   <4>1. resets = <<>> BY <3>5 DEF Types
   <4>2. CASE Raced(p)
    <5>1. Blurred BY <3>1, <4>2 DEF Blurred
    <5> QED BY <1>1, <5>1, BlurredStays
   <4>3. CASE call[p].seen.bought = sub.bought BY <1>1, <3>1, <3>2, <3>5, <4>3
   <4> QED BY <3>1, <4>1, <4>2, <4>3 DEF Buying
  <3> QED BY <3>3, <3>4, <3>5, PurchasesMean
 <2>4. CASE LogPurchase(p)
  <3>1. /\ call[p].pc = "note" /\ call'[p].pc = "done" /\ call[p].op = "buy" /\ p \in Unlogged
        /\ logs' = Append(logs, Row(p)) /\ sub' = sub
    BY <2>4, LogPurchaseEffect DEF Begun, Unlogged
  <3>2. Logged' = Logged + call[p].n BY <2>0, <3>1, LoggedGrows
  <3>3. CASE Len(resets) > 0 \/ Blurred BY <1>1, <2>0, <3>3, BlurredStays
  <3>4. CASE \E q \in Unlogged : q # p BY <1>1, <2>2, <3>1, <3>4
  <3>5. CASE Unlogged = {p} /\ \E q \in Unlogged : sub.bought = Logged + call[q].n
   <4>1. Unlogged' = {} BY <2>0, <3>1, <3>5 DEF Unlogged, Moved
   <4>2. sub'.bought = Logged' BY <3>1, <3>2, <3>5
   <4> QED BY <1>1, <4>1, <4>2
  <3> QED BY <3>1, <3>3, <3>4, <3>5, PurchasesMean
 <2>5. CASE CommitUsage(p)
  <3>1. call[p].pc = "commit" /\ call'[p].pc # "note" /\ call[p].op # "buy" /\ sub'.bought = sub.bought
    BY <2>0, <2>5, CommitUsageEffect, WritePurchaseEffect DEF Begun
  <3>2. Logged' = Logged
   <4>1. CASE logs' = logs BY <4>1 DEF Logged, Tokens, RowsOf
   <4>2. CASE logs' = Append(logs, Row(p)) BY <2>0, <3>1, <4>2, LoggedGrows
   <4> QED BY <2>5, <4>1, <4>2, CommitUsageEffect
  <3> QED BY <2>1, <3>1, <3>2
 <2>6. CASE logs' = logs /\ ~WritePurchase(p) /\ ~LogPurchase(p)
  <3>1. Logged' = Logged /\ call'[p].pc # "note" /\ sub'.bought = sub.bought
    BY <1>4, <2>0, <2>6, NoteSteps DEF Logged, Tokens, RowsOf
  <3>2. CASE call[p].pc = "note"
   <4>1. call'[p].pc = "dead" /\ call'[p].op = "buy" BY <1>4, <2>0, <2>6, <3>2, NoteSteps DEF Begun, Moved
   <4> QED BY <1>1, <4>1 DEF Blurred
  <3> QED BY <2>1, <3>1, <3>2
 <2> QED BY <1>4, <2>3, <2>4, <2>5, <2>6, TurnCases, CheckLimitEffect, ReportUsageEffect DEF Quietly, Goes
<1> QED BY <1>2, <1>3, <1>4, NextCases

--------------------
(* Beyond the allocation. *)

\* What a step of a call does to the row of the account.
LEMMA TurnSub ==
  ASSUME Types, Ranges, NEW q \in Calls, TurnStep(q)
  PROVE  /\ sub'.tier = sub.tier /\ sub'.alloc = sub.alloc /\ sub'.limit = sub.limit
         /\ sub.newest <= sub'.newest
         /\ sub.period <= sub.newest => sub'.period <= sub'.newest
         /\ (sub'.used = sub.used /\ sub'.bought = sub.bought) \/ CommitUsage(q) \/ WritePurchase(q)
<1>1. sub \in SubRow /\ sub.newest \in Nat BY Settled
<1>2. CASE Quietly(q) BY <1>2 DEF Quietly, Keeps
<1>3. CASE sub' = sub BY <1>1, <1>3
<1>4. CASE CommitUsage(q)
 <2>1. sub' = sub \/ sub' = [sub EXCEPT !.used = @ + call[q].n] BY <1>4, CommitUsageEffect
 <2> QED BY <1>1, <1>4, <2>1 DEF SubRow
<1>5. CASE WritePurchase(q)
 <2>1. sub' = [sub EXCEPT !.bought = call[q].seen.bought + call[q].n] BY <1>5, WritePurchaseEffect
 <2> QED BY <1>1, <1>5, <2>1 DEF SubRow
<1> QED BY <1>2, <1>3, <1>4, <1>5, TurnCases, CheckLimitEffect, ReportUsageEffect, LogPurchaseEffect DEF Goes

\* Where a row comes from.
LEMMA LogSteps ==
  ASSUME Types, Ranges, Begun, Next
  PROVE  \/ logs' = logs
         \/ \E q \in Calls : /\ TurnStep(q) /\ logs' = Append(logs, Row(q))
                             /\ call[q].pc = "commit" \/ call[q].op = "buy"
<1>1. CASE Outside BY <1>1 DEF Outside
<1>2. ASSUME NEW q \in Calls, TurnStep(q)
      PROVE  logs' = logs \/ (logs' = Append(logs, Row(q)) /\ (call[q].pc = "commit" \/ call[q].op = "buy"))
 <2>1. CASE Quietly(q) BY <2>1 DEF Quietly
 <2>2. CASE CommitUsage(q) \/ CheckLimit(q) \/ ReportUsage(q)
   BY <2>2, CommitUsageEffect, CheckLimitEffect, ReportUsageEffect DEF Goes
 <2>3. CASE WritePurchase(q) \/ LogPurchase(q) BY <2>3, WritePurchaseEffect, LogPurchaseEffect DEF Begun
 <2> QED BY <1>2, <2>1, <2>2, <2>3, TurnCases
<1> QED BY <1>1, <1>2, NextCases

\* The allocation is that of the tier, but for the administrator.
Allotted == "alloc" \notin plan.settings => sub.alloc = IF sub.tier = "FREE" THEN Free ELSE Premium

\* Allotted is inductive.
LEMMA AllottedHolds ==
  /\ Init => Allotted
  /\ Types /\ Ranges /\ Allotted /\ Next => Allotted'
<1>1. Init => Allotted BY DEF Init, Customer, Allotted
<1>2. ASSUME Types, Ranges, Allotted, Next
      PROVE  Allotted'
 <2>1. plan' = plan BY <1>2, NextCases
 <2>2. CASE sub'.tier = sub.tier /\ sub'.alloc = sub.alloc BY <1>2, <2>1, <2>2 DEF Allotted
 <2>3. CASE Resets BY <1>2, <2>1, <2>3 DEF Allotted, Resets
 <2>4. CASE Reallocates BY <2>1, <2>4 DEF Allotted, Reallocates
 <2> QED BY <1>2, <2>2, <2>3, <2>4, NextCases, TurnSub DEF Keeps, Relimits
<1> QED BY <1>1, <1>2

\* An answered turn that raced nobody is within the limit of a free owner, and
\* charged in full beyond the allocation of a premium one.
Within(q) ==
  /\ call[q].pc = "commit" /\ sub.tier = "PREMIUM" /\ sub.used >= Premium /\ sub.used > 0
       => call[q].cost = call[q].n
  /\ call[q].pc \in {"answer", "track", "commit"} /\ sub.tier = "FREE"
       => sub.used < Free + sub.bought \/ sub.used = 0
Beyond == "alloc" \notin plan.settings => \A q \in Calls : call[q].op = "chat" => Raced(q) \/ Within(q)

\* The turn's own steps.
LEMMA TurnWithin ==
  ASSUME Types, Ranges, Allotted, "alloc" \notin plan.settings, NEW q \in Calls, TurnStep(q),
         call[q].op = "chat", call[q].pc # "new" => Within(q)
  PROVE  Within(q)'
<1>1. CASE CheckTokenQuota(q)
 <2>1. sub' = sub /\ call'[q].pc \in {"answer", "done"} /\ (call'[q].pc = "answer" => Allowed)
   BY <1>1, CheckTokenQuotaEffect DEF Goes
 <2> QED BY <2>1 DEF Within, Allowed, Allotted
<1>2. CASE ReadUsage(q)
 <2>1. /\ sub' = sub /\ call[q].pc = "track" /\ call'[q].n = call[q].n
       /\ sub.tier = "PREMIUM" /\ sub.used >= sub.alloc => call'[q].cost = call[q].n
   BY <1>2, ReadUsageEffect DEF Goes
 <2> QED BY <2>1 DEF Within, Allotted
<1>3. CASE \E n \in Amounts : Answer(q, n) BY <1>3, AnswerEffect DEF Within, Goes
<1>4. CASE \E n \in Amounts : IngestionCompleted(q, n) \/ ReadPurchase(q, n)
  BY <1>4, IngestionCompletedEffect, ReadPurchaseEffect
<1>5. CASE CheckLimit(q) \/ Die(q) \/ Subscribe(q) BY <1>5, CheckLimitEffect, DieEffect, SubscribeEffect DEF Within
<1>6. CASE \/ CommitUsage(q) \/ ReportUsage(q) \/ WritePurchase(q) \/ LogPurchase(q)
           \/ CreateAtStripe(q) \/ PersistSubscription(q)
  BY <1>6, CommitUsageEffect, ReportUsageEffect, WritePurchaseEffect, LogPurchaseEffect,
     CreateAtStripeEffect, PersistSubscriptionEffect DEF Within
<1> QED BY <1>1, <1>2, <1>3, <1>4, <1>5, <1>6 DEF TurnStep

\* Beyond is inductive: only another call that races it takes a turn beyond.
LEMMA BeyondHolds ==
  /\ Init => Beyond
  /\ Types /\ Ranges /\ Begun /\ Allotted /\ Beyond /\ Next => Beyond'
<1>1. Init => Beyond BY DEF Init, Idle, Beyond, Within
<1>2. ASSUME Types, Ranges, Begun, Allotted, Beyond, Next
      PROVE  Beyond'
 <2>1. plan' = plan BY <1>2, NextCases
 <2> SUFFICES ASSUME "alloc" \notin plan.settings, NEW q \in Calls, call'[q].op = "chat"
              PROVE  Raced(q)' \/ Within(q)'
   BY <2>1 DEF Beyond
 <2>2. CASE Outside /\ (Keeps \/ Resets \/ Relimits \/ Reallocates)
  <3>1. call'[q] = call[q] BY <2>2 DEF Outside
  <3>2. CASE Resets BY <3>1, <3>2 DEF Resets, Within
  <3>3. CASE sub'.tier = sub.tier /\ sub'.used = sub.used /\ sub'.bought = sub.bought
    BY <1>2, <3>1, <3>3, RacedStays DEF Beyond, Within
  <3> QED BY <2>2, <3>2, <3>3 DEF Keeps, Relimits, Reallocates
 <2>3. ASSUME NEW p \in Calls, TurnStep(p)
       PROVE  Raced(q)' \/ Within(q)'
  <3>1. Moved(p) /\ call[q].op = "chat" BY <1>2, <2>3, TurnStepEffect DEF Moved
  <3>2. CASE p = q BY <1>2, <2>3, <3>1, <3>2, TurnWithin, RacedStays DEF Beyond
  <3>3. CASE p # q
   <4>1. call'[q] = call[q] BY <3>1, <3>3 DEF Moved
   <4>2. CASE call[q].pc \notin {"answer", "track", "commit"} BY <4>1, <4>2 DEF Within
   <4>3. CASE call[q].pc \in {"answer", "track", "commit"} /\ (CommitUsage(p) \/ WritePurchase(p))
    <5>1. call[p].op # "subscribe" /\ call[q].pc \notin Over \cup {"new"}
      BY <1>2, <4>3, CommitUsageEffect, WritePurchaseEffect DEF Begun, Over
    <5> QED BY <1>2, <2>3, <3>3, <5>1, StepRaces
   <4>4. CASE sub'.used = sub.used /\ sub'.bought = sub.bought
    <5>1. sub'.tier = sub.tier BY <1>2, <2>3, TurnSub
    <5> QED BY <1>2, <3>1, <4>1, <4>4, <5>1, RacedStays DEF Beyond, Within
   <4> QED BY <1>2, <2>3, <4>2, <4>3, <4>4, TurnSub
  <3> QED BY <3>2, <3>3
 <2> QED BY <1>2, <2>2, <2>3, NextCases
<1> QED BY <1>1, <1>2

\* Row i was charged, and answered, as the properties say.
Fair(i) ==
  /\ logs[i].tier = "PREMIUM" /\ logs[i].used >= Premium /\ logs[i].used > 0
       => logs[i].cost = logs[i].n \/ Raced(logs[i].by)
  /\ logs[i].tier = "FREE" /\ logs[i].used >= Free + logs[i].bought /\ logs[i].used > 0
       => Raced(logs[i].by)

\* OverageCharged and OverrunOnlyRacing, row by row.
LEMMA FairMeans ==
  (OverageCharged /\ OverrunOnlyRacing) <=> ("alloc" \notin plan.settings => \A i \in RowsOf("chat") : Fair(i))
BY DEF OverageCharged, OverrunOnlyRacing, Fair

\* OverageCharged and OverrunOnlyRacing are kept by every step.
LEMMA OverageHolds ==
  ASSUME Types, Ranges, Begun, Beyond, Next, OverageCharged, OverrunOnlyRacing
  PROVE  OverageCharged' /\ OverrunOnlyRacing'
<1>1. plan' = plan BY NextCases
<1>2. ASSUME "alloc" \notin plan.settings, NEW i \in RowsOf("chat")'
      PROVE  Fair(i)'
 <2>1. CASE i \in DOMAIN logs /\ logs'[i] = logs[i]
  <3>1. i \in RowsOf("chat") /\ logs[i].by \in Calls BY <1>2, <2>1, LogTypes DEF RowsOf
  <3>2. Raced(logs[i].by) => Raced(logs[i].by)'
   <4> SUFFICES ASSUME NEW q \in Calls, q = logs[i].by, Raced(q)
                PROVE  Raced(logs[i].by)'
     BY <3>1
   <4>1. Raced(q)' BY RacedStays
   <4>2. logs'[i].by = q BY <2>1
   <4> QED BY <4>1, <4>2 DEF Raced, Overlap
  <3>3. Fair(i) BY <1>2, <3>1, FairMeans
  <3> QED BY <2>1, <3>2, <3>3 DEF Fair
 <2>2. ASSUME NEW q \in Calls, logs'[i] = Row(q), call[q].pc = "commit" \/ call[q].op = "buy"
       PROVE  Fair(i)'
  <3>1. /\ Row(q).op = "chat" /\ Row(q).by = q /\ Row(q).op = call[q].op /\ Row(q).n = call[q].n
        /\ Row(q).cost = call[q].cost /\ Row(q).used = sub.used /\ Row(q).bought = sub.bought
        /\ Row(q).tier = sub.tier
    BY <1>2, <2>2, RowType DEF RowsOf
  <3>2. call[q].pc = "commit" /\ (Raced(q) \/ Within(q)) BY <1>2, <2>2, <3>1 DEF Beyond
  <3>3. CASE Raced(q)
   <4>1. Raced(q)' BY <3>3, RacedStays
   <4>2. logs'[i].by = q BY <2>2, <3>1
   <4>3. Raced(logs[i].by)' BY <4>1, <4>2 DEF Raced, Overlap
   <4> QED BY <4>3 DEF Fair
  <3>4. CASE Within(q)
   <4>1. Free \in Nat /\ sub.used \in Nat /\ sub.bought \in Nat BY PlanAssumption DEF Types, SubRow
   <4>2. /\ sub.tier = "PREMIUM" /\ sub.used >= Premium /\ sub.used > 0 => call[q].cost = call[q].n
         /\ sub.tier = "FREE" => ~(sub.used >= Free + sub.bought /\ sub.used > 0)
     BY <3>2, <3>4, <4>1 DEF Within
   <4>3. /\ logs'[i].tier = sub.tier /\ logs'[i].used = sub.used /\ logs'[i].bought = sub.bought
         /\ logs'[i].cost = call[q].cost /\ logs'[i].n = call[q].n
     BY <2>2, <3>1
   <4> QED BY <4>2, <4>3 DEF Fair
  <3> QED BY <3>2, <3>3, <3>4
 <2>3. CASE logs' = logs BY <1>2, <2>1, <2>3 DEF RowsOf
 <2>4. ASSUME NEW q \in Calls, logs' = Append(logs, Row(q)), call[q].pc = "commit" \/ call[q].op = "buy"
       PROVE  (i \in DOMAIN logs /\ logs'[i] = logs[i]) \/ logs'[i] = Row(q)
   BY <1>2, <2>4, LogGrows DEF RowsOf
 <2> QED BY <2>1, <2>2, <2>3, <2>4, LogSteps
<1>3. (OverageCharged' /\ OverrunOnlyRacing')
        <=> ("alloc" \notin plan'.settings => \A i \in RowsOf("chat")' : Fair(i)')
  BY DEF OverageCharged, OverrunOnlyRacing, Fair
<1> QED BY <1>1, <1>2, <1>3

--------------------
(* The spending limit. *)

\* The rows of the latest period that are reported, or will be.
Billed ==
  {i \in DOMAIN logs : /\ logs[i].at >= sub.newest
                       /\ meter[logs[i].by] > 0 \/ call[logs[i].by].pc = "report"}

\* They are within the limit, which nobody changes: the limit a turn was checked
\* against is the limit still.
Limited ==
  /\ sub.period <= sub.newest
  /\ "limit" \notin plan.settings =>
       /\ \A q \in Calls : call[q].pc \in {"commit", "limit"} => call[q].seen.limit = sub.limit
       /\ sub.limit # 0 => SumFunctionOnSet(Costs, Billed) <= sub.limit

\* Where a turn gets the limit from, and the step that lets it report.
LEMMA TurnLimits ==
  ASSUME Types, Ranges, NEW q \in Calls, TurnStep(q)
  PROVE  /\ call'[q].pc = "commit" => call'[q].seen = sub
         /\ call'[q].pc = "limit" => call[q].pc = "commit" /\ call'[q].seen = call[q].seen
         /\ call'[q].pc = "report" => CheckLimit(q)
         /\ meter' = meter \/ ReportUsage(q)
<1>1. CASE \E n \in Amounts : Answer(q, n) \/ IngestionCompleted(q, n) \/ ReadPurchase(q, n)
  BY <1>1, AnswerEffect, IngestionCompletedEffect, ReadPurchaseEffect DEF Goes
<1>2. CASE CheckTokenQuota(q) \/ ReadUsage(q) \/ CheckLimit(q) \/ Die(q) \/ Subscribe(q)
  BY <1>2, CheckTokenQuotaEffect, ReadUsageEffect, CheckLimitEffect, DieEffect, SubscribeEffect DEF Goes
<1>3. CASE \/ CommitUsage(q) \/ ReportUsage(q) \/ WritePurchase(q) \/ LogPurchase(q)
           \/ CreateAtStripe(q) \/ PersistSubscription(q)
  BY <1>3, CommitUsageEffect, ReportUsageEffect, WritePurchaseEffect, LogPurchaseEffect,
     CreateAtStripeEffect, PersistSubscriptionEffect
<1> QED BY <1>1, <1>2, <1>3 DEF TurnStep

\* The limit stays, but for the owner.
LEMMA LimitKept ==
  ASSUME Types, Ranges, Next, "limit" \notin plan.settings
  PROVE  sub'.limit = sub.limit
<1>1. CASE Outside /\ (Keeps \/ Resets \/ Relimits \/ Reallocates) BY <1>1 DEF Keeps, Resets, Relimits, Reallocates
<1>2. CASE \E q \in Calls : TurnStep(q) BY <1>2, TurnSub
<1> QED BY <1>1, <1>2, NextCases

\* A step that adds no row to those billed.
LEMMA BilledShrinks ==
  ASSUME Types, Types', NEW S \in SUBSET Billed, logs' = logs \/ \E q \in Calls : logs' = Append(logs, Row(q))
  PROVE  /\ SumFunctionOnSet(Costs', S) <= SumFunctionOnSet(Costs, Billed)
         /\ SumFunctionOnSet(Costs', S) \in Int /\ SumFunctionOnSet(Costs, Billed) \in Int
<1>1. /\ Billed \subseteq DOMAIN logs /\ IsFiniteSet(Billed) /\ IsFiniteSet(S) /\ S \subseteq DOMAIN logs
      /\ \A i \in DOMAIN logs : Costs[i] \in Nat
  BY LogTypes, FS_Subset DEF Billed
<1>2. /\ SumFunctionOnSet(Costs, S) <= SumFunctionOnSet(Costs, Billed)
      /\ SumFunctionOnSet(Costs, Billed) \in Int /\ SumFunctionOnSet(Costs, S) \in Int
  BY <1>1, SumOfPart, SumType
<1>3. SumFunctionOnSet(Costs', S) = SumFunctionOnSet(Costs, S)
 <2>1. CASE logs' = logs BY <2>1 DEF Costs
 <2>2. ASSUME NEW q \in Calls, logs' = Append(logs, Row(q))
       PROVE  SumFunctionOnSet(Costs', S) = SumFunctionOnSet(Costs, S)
   BY <1>1, <2>2, SumsGrow
 <2> QED BY <2>1, <2>2
<1> QED BY <1>2, <1>3

\* A turn is let report only when all the rows of the period are within the limit.
LEMMA CheckedWithin ==
  ASSUME Types, Ranges, Limited, "limit" \notin plan.settings, sub.limit # 0,
         NEW q \in Calls, CheckLimit(q), call'[q].pc = "report"
  PROVE  SumFunctionOnSet(Costs', Billed') <= sub.limit
<1> DEFINE ofPeriod == {i \in DOMAIN logs : logs[i].at >= sub.period}
<1>1. /\ sub' = sub /\ logs' = logs /\ call[q].pc = "limit"
      /\ call[q].seen.limit # 0 => MonthCost + call[q].cost <= call[q].seen.limit
  BY CheckLimitEffect DEF Goes
<1>2. call[q].seen.limit = sub.limit BY <1>1 DEF Limited
<1>3. MonthCost + call[q].cost <= sub.limit BY <1>1, <1>2
<1>4. sub.newest \in Nat /\ sub.period \in Nat /\ call[q].cost \in Nat /\ sub.limit \in Nat
  BY Settled DEF Types, SubRow, CallRow
<1>5. Billed' \subseteq ofPeriod BY <1>1, <1>4, LogTypes DEF Billed, Limited
<1>6. /\ IsFiniteSet(ofPeriod) /\ \A i \in ofPeriod : Costs[i] \in Nat BY LogTypes, FS_Subset
<1>7. MonthCost = SumFunctionOnSet(Costs, ofPeriod) BY DEF MonthCost
<1> HIDE DEF ofPeriod
<1>8. /\ SumFunctionOnSet(Costs, Billed') <= MonthCost /\ MonthCost \in Int
      /\ SumFunctionOnSet(Costs, Billed') \in Int
 <2>1. IsFiniteSet(Billed') /\ \A i \in Billed' : Costs[i] \in Nat BY <1>5, <1>6, FS_Subset
 <2> QED BY <2>1, <1>5, <1>6, <1>7, SumOfPart, SumType
<1>9. Costs' = Costs BY <1>1 DEF Costs
<1>10. SumFunctionOnSet(Costs, Billed') <= sub.limit BY <1>3, <1>4, <1>8
<1> QED BY <1>9, <1>10

\* The other steps of a turn bill nothing new.
LEMMA TurnBills ==
  ASSUME Types, Ranges, Begun, Rows, NEW q \in Calls, TurnStep(q), ~(CheckLimit(q) /\ call'[q].pc = "report")
  PROVE  Billed' \subseteq Billed
<1>1. /\ Moved(q) /\ sub.newest <= sub'.newest /\ sub.newest \in Nat /\ sub'.newest \in Nat
 <2>1. Types' /\ Ranges' BY TurnStepEffect
 <2>2. sub'.newest \in Nat BY <2>1 DEF Types, SubRow
 <2> QED BY <2>2, TurnStepEffect, TurnSub, Settled
<1>2. call'[q].pc # "report" BY TurnLimits
<1>3. ASSUME NEW i \in Billed', i \in DOMAIN logs, logs'[i] = logs[i]
      PROVE  i \in Billed
 <2>1. logs[i].by \in Calls /\ logs[i].at \in Nat /\ logs[i].at >= sub'.newest
       /\ (meter'[logs[i].by] > 0 \/ call'[logs[i].by].pc = "report")
   BY <1>3, LogTypes DEF Billed
 <2>2. logs[i].at >= sub.newest BY <1>1, <2>1
 <2>3. CASE meter' = meter
  <3>1. CASE call'[logs[i].by].pc = "report" BY <1>1, <1>2, <2>1, <2>2, <1>3, <3>1 DEF Moved, Billed
  <3>2. CASE meter'[logs[i].by] > 0 BY <2>2, <2>3, <1>3, <3>2 DEF Billed
  <3> QED BY <2>1, <3>1, <3>2
 <2>4. CASE ReportUsage(q)
  <3>1. call[q].pc = "report" /\ (meter' = meter \/ meter' = [meter EXCEPT ![q] = @ + 1]) BY <2>4, ReportUsageEffect
  <3>2. CASE logs[i].by = q BY <1>3, <2>2, <3>1, <3>2 DEF Billed
  <3>3. CASE logs[i].by # q
   <4>1. meter'[logs[i].by] = meter[logs[i].by] /\ call'[logs[i].by] = call[logs[i].by]
     BY <1>1, <2>1, <3>1, <3>3 DEF Types, Moved
   <4> QED BY <1>3, <2>1, <2>2, <4>1 DEF Billed
  <3> QED BY <3>2, <3>3
 <2> QED BY <2>3, <2>4, TurnLimits
<1>4. CASE logs' = logs BY <1>3, <1>4 DEF Billed
<1>5. CASE logs' = Append(logs, Row(q))
 <2>1. /\ DOMAIN logs' = DOMAIN logs \cup {Len(logs) + 1} /\ \A i \in DOMAIN logs : logs'[i] = logs[i]
       /\ logs'[Len(logs) + 1].by = q
   BY <1>5, LogGrows, RowType
 <2>2. meter'[q] = 0
  <3>1. meter[q] = 0 BY <1>1 DEF Moved, Rows
  <3>2. ~ReportUsage(q) BY <1>5, ReportUsageEffect, LogGrows
  <3> QED BY <3>1, <3>2, TurnLimits
 <2>3. Len(logs) + 1 \notin Billed' BY <1>2, <2>1, <2>2 DEF Billed
 <2>4. \A i \in Billed' : i \in DOMAIN logs /\ logs'[i] = logs[i] BY <2>1, <2>3 DEF Billed
 <2> QED BY <1>3, <2>4
<1>6. logs' = logs \/ logs' = Append(logs, Row(q))
  BY TurnCases, CommitUsageEffect, CheckLimitEffect, ReportUsageEffect, WritePurchaseEffect, LogPurchaseEffect
     DEF Quietly, Goes
<1> QED BY <1>4, <1>5, <1>6

\* Limited is inductive.
LEMMA LimitedHolds ==
  /\ Init => Limited
  /\ Types /\ Ranges /\ Begun /\ Rows /\ Limited /\ Next => Limited'
<1>1. Init => Limited
 <2> SUFFICES ASSUME Init  PROVE Limited OBVIOUS
 <2>1. /\ sub.period = 0 /\ sub.newest = 0 /\ logs = <<>> /\ \A q \in Calls : call[q].pc = "new"
   BY DEF Init, Customer, Idle
 <2>2. sub.limit \in Nat BY InitTypes DEF Types, SubRow
 <2>3. Billed = {} BY <2>1 DEF Billed
 <2>4. SumFunctionOnSet(Costs, Billed) = 0 BY <2>3, SumEmpty
 <2> QED BY <2>1, <2>2, <2>4 DEF Limited
<1>2. ASSUME Types, Ranges, Begun, Rows, Limited, Next
      PROVE  Limited'
 <2>1. Types' /\ Ranges' /\ plan' = plan BY <1>2, NextCases
 <2>2. sub'.period <= sub'.newest
  <3>1. CASE Outside /\ (Keeps \/ Resets \/ Relimits \/ Reallocates)
    BY <1>2, <3>1 DEF Limited, Keeps, Resets, Relimits, Reallocates
  <3>2. CASE \E q \in Calls : TurnStep(q) BY <1>2, <3>2, TurnSub DEF Limited
  <3> QED BY <1>2, <3>1, <3>2, NextCases
 <2>3. ASSUME "limit" \notin plan.settings, NEW q \in Calls, call'[q].pc \in {"commit", "limit"}
       PROVE  call'[q].seen.limit = sub'.limit
  <3>1. sub'.limit = sub.limit BY <1>2, <2>3, LimitKept
  <3>2. CASE call'[q] = call[q] BY <1>2, <2>3, <3>1, <3>2 DEF Limited
  <3>3. CASE TurnStep(q) BY <1>2, <2>3, <3>1, <3>3, TurnLimits DEF Limited
  <3>4. ASSUME NEW p \in Calls, TurnStep(p), p # q
        PROVE  call'[q] = call[q]
    BY <1>2, <3>4, TurnStepEffect DEF Moved
  <3> QED BY <1>2, <3>2, <3>3, <3>4, NextCases DEF Outside
 <2>4. ASSUME "limit" \notin plan.settings, sub'.limit # 0
       PROVE  SumFunctionOnSet(Costs', Billed') <= sub'.limit
  <3>1. sub'.limit = sub.limit /\ sub.limit \in Nat BY <1>2, <2>4, LimitKept DEF Types, SubRow
  <3>2. SumFunctionOnSet(Costs, Billed) <= sub.limit BY <1>2, <2>4, <3>1 DEF Limited
  <3>3. CASE Billed' \subseteq Billed /\ (logs' = logs \/ \E q \in Calls : logs' = Append(logs, Row(q)))
   <4>1. /\ SumFunctionOnSet(Costs', Billed') <= SumFunctionOnSet(Costs, Billed)
         /\ SumFunctionOnSet(Costs', Billed') \in Int /\ SumFunctionOnSet(Costs, Billed) \in Int
     BY <1>2, <2>1, <3>3, BilledShrinks
   <4> QED BY <3>1, <3>2, <4>1
  <3>4. logs' = logs \/ \E q \in Calls : logs' = Append(logs, Row(q)) BY <1>2, LogSteps
  <3>5. CASE Outside /\ (Keeps \/ Resets \/ Relimits \/ Reallocates)
   <4>1. sub.newest <= sub'.newest /\ sub.newest \in Nat /\ sub'.newest \in Nat
    <5>1. sub.newest \in Nat /\ sub'.newest \in Nat BY <1>2, <2>1 DEF Types, SubRow
    <5> QED BY <3>5, <5>1 DEF Keeps, Resets, Relimits, Reallocates
   <4>2. logs' = logs /\ meter' = meter /\ call' = call BY <3>5 DEF Outside
   <4>3. \A i \in DOMAIN logs : logs[i].at >= sub'.newest => logs[i].at >= sub.newest BY <1>2, <4>1, LogTypes
   <4>4. Billed' \subseteq Billed BY <4>2, <4>3 DEF Billed
   <4> QED BY <3>3, <3>4, <4>4
  <3>6. ASSUME NEW q \in Calls, TurnStep(q)
        PROVE  SumFunctionOnSet(Costs', Billed') <= sub'.limit
   <4>1. CASE CheckLimit(q) /\ call'[q].pc = "report" BY <1>2, <2>4, <3>1, <4>1, CheckedWithin
   <4>2. CASE ~(CheckLimit(q) /\ call'[q].pc = "report") BY <1>2, <3>3, <3>4, <3>6, <4>2, TurnBills
   <4> QED BY <4>1, <4>2
  <3> QED BY <1>2, <3>5, <3>6, NextCases
 <2> QED BY <2>1, <2>2, <2>3, <2>4 DEF Limited
<1> QED BY <1>1, <1>2

\* What is reported is some of what is billed.
LEMMA LimitedMeans ==
  ASSUME Types, Limited
  PROVE  BilledWithinLimit
<1> DEFINE billed == {i \in DOMAIN logs : logs[i].at >= sub.newest /\ meter[logs[i].by] > 0}
<1> SUFFICES ASSUME sub.limit # 0, "limit" \notin plan.settings
             PROVE  SumFunctionOnSet(Costs, billed) <= sub.limit
  BY DEF BilledWithinLimit
<1>1. billed \in SUBSET Billed BY DEF Billed
<1> HIDE DEF billed
<1>2. IsFiniteSet(Billed) /\ (\A i \in Billed : Costs[i] \in Nat) /\ IsFiniteSet(billed)
  BY <1>1, LogTypes, FS_Subset DEF Billed
<1>3. /\ SumFunctionOnSet(Costs, billed) <= SumFunctionOnSet(Costs, Billed)
      /\ SumFunctionOnSet(Costs, billed) \in Int /\ SumFunctionOnSet(Costs, Billed) \in Int
  BY <1>1, <1>2, SumOfPart, SumType
<1>4. SumFunctionOnSet(Costs, Billed) <= sub.limit /\ sub.limit \in Nat BY DEF Limited, Types, SubRow
<1> QED BY <1>3, <1>4

--------------------
(* The resets. *)

\* The payments and cancellations that have had their effect.
Spent ==
  {e \in DOMAIN events : /\ events[e].type \in {"succeeded", "deleted"}
                         /\ e \notin outstanding \/ \E h \in handling : h.e = e /\ h.pc = "migrate"}

\* As long as no event was handled again, each handler has a payment of its own
\* that is not acknowledged, and each reset an event.
Single ==
  /\ \A h \in handling : h.e \in outstanding /\ events[h.e].type = "succeeded"
  /\ \A g, h \in handling : g.e = h.e => g = h
Once == repeats = 0 => Single /\ Len(resets) <= Cardinality(Spent)

\* There are finitely many events.
LEMMA SpentFinite ==
  ASSUME Types
  PROVE  IsFiniteSet(Spent) /\ Cardinality(Spent) \in Nat /\ Len(resets) \in Nat
<1>1. DOMAIN events = 1 .. Len(events) /\ Len(events) \in Nat /\ Len(resets) \in Nat BY DEF Types
<1>2. IsFiniteSet(DOMAIN events) BY <1>1, FS_Interval
<1> QED BY <1>1, <1>2, FS_Subset, FS_CardinalityType DEF Spent

\* An event that has had its effect keeps it; a reset takes one more.
LEMMA SpentGrows ==
  ASSUME Types, Types', Once, repeats = 0, Single', Spent \subseteq Spent',
         \/ resets' = resets
         \/ resets' = Append(resets, Len(logs)) /\ \E e : e \in Spent' /\ e \notin Spent
  PROVE  Once'
<1>0. IsFiniteSet(Spent') /\ Cardinality(Spent') \in Nat
 <2>1. DOMAIN events' = 1 .. Len(events') /\ Len(events') \in Nat BY DEF Types
 <2>2. IsFiniteSet(DOMAIN events') BY <2>1, FS_Interval
 <2> QED BY <2>2, FS_Subset, FS_CardinalityType DEF Spent
<1>1. /\ Len(resets) <= Cardinality(Spent) /\ Len(resets) \in Nat
      /\ Cardinality(Spent) \in Nat /\ Cardinality(Spent') \in Nat /\ IsFiniteSet(Spent')
      /\ IsFiniteSet(Spent)
  BY <1>0, SpentFinite DEF Once
<1>2. CASE resets' = resets
 <2>1. Cardinality(Spent) <= Cardinality(Spent') BY <1>1, FS_Subset
 <2>2. Len(resets') <= Cardinality(Spent') BY <1>1, <1>2, <2>1
 <2> QED BY <2>2 DEF Once
<1>3. ASSUME resets' = Append(resets, Len(logs)), NEW e, e \in Spent', e \notin Spent
      PROVE  Once'
 <2>1. Len(resets') = Len(resets) + 1
  <3>1. resets \in Seq(Nat) /\ Len(logs) \in Nat BY LogTypes DEF Types
  <3> QED BY <1>3, <3>1
 <2>2. Spent \cup {e} \subseteq Spent' BY <1>3
 <2>3. Cardinality(Spent \cup {e}) = Cardinality(Spent) + 1 BY <1>1, <1>3, FS_AddElement
 <2>4. Cardinality(Spent \cup {e}) <= Cardinality(Spent') BY <1>1, <2>2, FS_Subset
 <2>5. Len(resets') <= Cardinality(Spent') BY <1>1, <2>1, <2>3, <2>4
 <2> QED BY <2>5 DEF Once
<1> QED BY <1>2, <1>3

\* Events arrive, or nothing of theirs changes.
LEMMA OnceSent ==
  ASSUME Types, Ranges, Types', Once, NEW s, Sent(s), resets' = resets
  PROVE  Once'
<1> SUFFICES ASSUME repeats' = 0  PROVE Once' BY DEF Once
<1>1. repeats = 0 /\ Single /\ handling' = handling BY DEF Once, Sent
<1>2. DOMAIN events \subseteq DOMAIN events' BY DEF Sent, Types
<1>3. Single' BY <1>1, <1>2 DEF Single, Sent, Types
<1>4. Spent \subseteq Spent' BY <1>1, <1>2 DEF Spent, Sent
<1> QED BY <1>1, <1>3, <1>4, SpentGrows

\* A step that leaves the events alone.
LEMMA OnceKept ==
  ASSUME Once, UNCHANGED hooks, resets' = resets
  PROVE  Once'
  BY DEF Once, Single, Spent, hooks

\* An event handled once is acknowledged.
LEMMA Acknowledged ==
  ASSUME Types, NEW e, Acknowledge(e), repeats' = 0
  PROVE  repeats = 0 /\ outstanding' = outstanding \ {e}
<1>1. repeats \in Nat /\ repeats' \in Nat /\ repeats <= repeats'
      /\ (repeats' = repeats => outstanding' = outstanding \ {e})
  BY AcknowledgeEffect DEF Types
<1> QED BY <1>1

\* A handler starts for a payment that has none.
LEMMA OnceReadPayment ==
  ASSUME Types, Ranges, Types', Once, NEW e \in outstanding, ReadPayment(e)
  PROVE  Once'
<1> SUFFICES ASSUME repeats' = 0  PROVE Once' BY DEF Once
<1>1. repeats = 0 /\ ~Twice(e) BY DEF ReadPayment, Types
<1> DEFINE new == [e |-> e, pc |-> "write", tier |-> sub.tier, scheduled |-> sub.scheduled,
                   period |-> stripe[events[e].s].period]
<1>2. /\ handling' = handling \cup {new} /\ UNCHANGED <<events, outstanding, resets>>
      /\ events[e].type = "succeeded" /\ new.e = e
  BY DEF ReadPayment
<1> HIDE DEF new
<1>3. Single /\ \A h \in handling : h.e # e BY <1>1 DEF Once, Twice
<1>4. Single' BY <1>2, <1>3 DEF Single
<1>5. Spent \subseteq Spent' BY <1>2 DEF Spent
<1> QED BY <1>1, <1>2, <1>4, <1>5, SpentGrows

\* The first payment has its effect.
LEMMA OnceActivated ==
  ASSUME Types, Ranges, Types', Once, NEW h \in handling, ActivatePremium(h)
  PROVE  Once'
<1> SUFFICES ASSUME repeats' = 0  PROVE Once' BY DEF Once
<1>1. /\ Acknowledge(h.e) /\ handling' = handling \ {h} /\ events' = events /\ h.pc = "write"
      /\ resets' = Append(resets, Len(logs))
  BY DEF ActivatePremium
<1>2. repeats = 0 /\ outstanding' = outstanding \ {h.e} BY <1>1, Acknowledged
<1>3. Single BY <1>2 DEF Once
<1>4. Single' BY <1>1, <1>2, <1>3 DEF Single
<1>5. Spent \subseteq Spent' BY <1>1, <1>2 DEF Spent
<1>6. h.e \in Spent' /\ h.e \notin Spent BY <1>1, <1>2, <1>3 DEF Spent, Single, Ranges
<1> QED BY <1>1, <1>2, <1>4, <1>5, <1>6, SpentGrows

\* Another payment has its effect before its migration is done.
LEMMA OnceRenewed ==
  ASSUME Types, Ranges, Types', Once, NEW h \in handling, RenewPremium(h)
  PROVE  Once'
<1> SUFFICES ASSUME repeats' = 0  PROVE Once' BY DEF Once
<1> DEFINE next == [h EXCEPT !.pc = "migrate"]
<1>1. /\ handling' = (handling \ {h}) \cup {next} /\ h.pc = "write"
      /\ resets' = Append(resets, Len(logs)) /\ UNCHANGED <<events, outstanding, repeats>>
  BY DEF RenewPremium
<1>2. next.e = h.e /\ next.pc = "migrate" BY EventTypesHold DEF Handler
<1> HIDE DEF next
<1>3. Single /\ repeats = 0 BY <1>1 DEF Once
<1>4. Single' BY <1>1, <1>2, <1>3 DEF Single
<1>5. Spent \subseteq Spent' BY <1>1, <1>2 DEF Spent
<1>6. h.e \in Spent' /\ h.e \notin Spent BY <1>1, <1>2, <1>3 DEF Spent, Single, Ranges
<1> QED BY <1>1, <1>3, <1>4, <1>5, <1>6, SpentGrows

\* The payment is acknowledged.
LEMMA OnceMigrated ==
  ASSUME Types, Ranges, Types', Once, NEW h \in handling, MigratePrice(h)
  PROVE  Once'
<1> SUFFICES ASSUME repeats' = 0  PROVE Once' BY DEF Once
<1>1. Acknowledge(h.e) /\ handling' = handling \ {h} /\ events' = events /\ resets' = resets BY DEF MigratePrice
<1>2. repeats = 0 /\ outstanding' = outstanding \ {h.e} BY <1>1, Acknowledged
<1>3. Single BY <1>2 DEF Once
<1>4. Single' BY <1>1, <1>2, <1>3 DEF Single
<1>5. Spent \subseteq Spent' BY <1>1, <1>2 DEF Spent
<1> QED BY <1>1, <1>2, <1>4, <1>5, SpentGrows

\* The events handled in one step.
LEMMA OnceHandled ==
  ASSUME Types, Ranges, Types', Once, NEW e \in outstanding, Acknowledge(e), UNCHANGED <<events, handling>>,
         events[e].type # "succeeded",
         resets' = resets \/ (events[e].type = "deleted" /\ resets' = Append(resets, Len(logs)))
  PROVE  Once'
<1> SUFFICES ASSUME repeats' = 0  PROVE Once' BY DEF Once
<1>1. repeats = 0 /\ outstanding' = outstanding \ {e} /\ e \in DOMAIN events BY Acknowledged DEF Types
<1>2. Single /\ \A h \in handling : h.e # e BY <1>1 DEF Once, Single
<1>3. Single' BY <1>1, <1>2 DEF Single
<1>4. Spent \subseteq Spent' BY <1>1 DEF Spent
<1>5. events[e].type = "deleted" => e \in Spent' /\ e \notin Spent BY <1>1, <1>2 DEF Spent
<1> QED BY <1>1, <1>3, <1>4, <1>5, SpentGrows

\* A handler that dies makes Stripe send its event again.
LEMMA OnceDropped ==
  ASSUME Types, NEW h \in handling, DropHandler(h)
  PROVE  Once'
<1>1. repeats \in Nat /\ repeats' = repeats + 1 BY DEF DropHandler, Types
<1>2. repeats' # 0 BY <1>1
<1> QED BY <1>2 DEF Once

\* The steps of a call leave the events alone.
LEMMA TurnHooks ==
  ASSUME NEW q \in Calls, TurnStep(q)
  PROVE  hooks' = hooks /\ resets' = resets
<1>1. CASE \E n \in Amounts : Answer(q, n) \/ IngestionCompleted(q, n) \/ ReadPurchase(q, n)
  BY <1>1 DEF Answer, IngestionCompleted, ReadPurchase
<1>2. CASE CheckTokenQuota(q) \/ ReadUsage(q) \/ CheckLimit(q) \/ Die(q) \/ Subscribe(q)
  BY <1>2 DEF CheckTokenQuota, ReadUsage, CheckLimit, Die, Subscribe
<1>3. CASE CommitUsage(q) \/ ReportUsage(q) \/ WritePurchase(q) \/ LogPurchase(q)
  BY <1>3 DEF CommitUsage, ReportUsage, WritePurchase, LogPurchase
<1>4. CASE CreateAtStripe(q) \/ PersistSubscription(q) BY <1>4 DEF CreateAtStripe, PersistSubscription
<1> QED BY <1>1, <1>2, <1>3, <1>4 DEF TurnStep

\* Once is inductive.
LEMMA OnceHolds ==
  /\ Init => Once
  /\ Types /\ Ranges /\ Once /\ Next => Once'
<1>1. Init => Once
 <2> SUFFICES ASSUME Init  PROVE Once OBVIOUS
 <2>1. Types BY InitTypes
 <2>2. resets = <<>> /\ Len(resets) = 0 /\ handling = {} BY DEF Init
 <2>3. Cardinality(Spent) \in Nat BY <2>1, SpentFinite
 <2> QED BY <2>2, <2>3 DEF Once, Single
<1>2. ASSUME Types, Ranges, Once, Next
      PROVE  Once'
 <2>0. Types' BY <1>2, NextCases
 <2>1. ASSUME NEW q \in Calls, TurnStep(q)
       PROVE  Once'
   BY <1>2, <2>1, TurnHooks, OnceKept
 <2>2. ASSUME NEW s \in DOMAIN stripe, StripeStep(s)
       PROVE  Once'
   BY <1>2, <2>0, <2>2, StripeStepEffect, OnceSent
 <2>3. ASSUME NEW e \in outstanding, ReadPayment(e) \/ PaymentFailed(e) \/ SubscriptionUpdated(e) \/ SubscriptionDeleted(e)
       PROVE  Once'
  <3>1. CASE ReadPayment(e) BY <1>2, <2>0, <3>1, OnceReadPayment
  <3>2. CASE PaymentFailed(e)
   <4>1. Acknowledge(e) /\ UNCHANGED <<events, handling, resets>> /\ events[e].type = "failed"
     BY <3>2 DEF PaymentFailed
   <4> QED BY <1>2, <2>0, <4>1, OnceHandled
  <3>3. CASE SubscriptionUpdated(e)
   <4>1. Acknowledge(e) /\ UNCHANGED <<events, handling, resets>> /\ events[e].type = "updated"
     BY <3>3 DEF SubscriptionUpdated
   <4> QED BY <1>2, <2>0, <4>1, OnceHandled
  <3>4. CASE SubscriptionDeleted(e)
   <4>1. /\ Acknowledge(e) /\ UNCHANGED <<events, handling>> /\ events[e].type = "deleted"
         /\ resets' = resets \/ resets' = Append(resets, Len(logs))
     BY <3>4 DEF SubscriptionDeleted
   <4> QED BY <1>2, <2>0, <4>1, OnceHandled
  <3> QED BY <2>3, <3>1, <3>2, <3>3, <3>4
 <2>4. ASSUME NEW h \in handling, ActivatePremium(h) \/ RenewPremium(h) \/ MigratePrice(h) \/ DropHandler(h)
       PROVE  Once'
   BY <1>2, <2>0, <2>4, OnceActivated, OnceRenewed, OnceMigrated, OnceDropped
 <2>5. ASSUME OwnerStep
       PROVE  Once'
  <3>1. CASE CancelSubscription \/ UpdatePaymentMethod
    BY <1>2, <2>0, <3>1, CancelSubscriptionEffect, UpdatePaymentMethodEffect, OnceSent DEF Keeps
  <3>2. CASE (\E l \in Limits : SetSpendingLimit(l)) \/ (\E n \in {Free, Premium} : SetAllocation(n))
    BY <1>2, <3>2, OnceKept DEF SetSpendingLimit, SetAllocation
  <3> QED BY <2>5, <3>1, <3>2 DEF OwnerStep
 <2>6. ASSUME CreatePrices \/ PublishPlans \/ PublisherDies \/ SyncStripeToActive \/ NextMonth
       PROVE  Once'
   BY <1>2, <2>6, OnceKept DEF CreatePrices, PublishPlans, PublisherDies, SyncStripeToActive, NextMonth
 <2> QED BY <1>2, <2>1, <2>2, <2>3, <2>4, <2>5, <2>6 DEF Next, WebhookStep
<1> QED BY <1>1, <1>2

\* The payments that had their effect are payments.
LEMMA OnceMeans ==
  ASSUME Types, Once
  PROVE  ResetOncePerPayment
<1> DEFINE all == {e \in DOMAIN events : events[e].type \in {"succeeded", "deleted"}}
<1> SUFFICES ASSUME repeats = 0  PROVE Len(resets) <= Cardinality(all) BY DEF ResetOncePerPayment
<1>1. DOMAIN events = 1 .. Len(events) /\ Len(events) \in Nat BY DEF Types
<1>2. IsFiniteSet(DOMAIN events) BY <1>1, FS_Interval
<1>3. IsFiniteSet(all) /\ Spent \subseteq all BY <1>2, FS_Subset DEF Spent
<1> HIDE DEF all
<1>4. Cardinality(Spent) <= Cardinality(all) /\ Cardinality(all) \in Nat BY <1>3, FS_Subset, FS_CardinalityType
<1>5. Len(resets) <= Cardinality(Spent) /\ Len(resets) \in Nat /\ Cardinality(Spent) \in Nat BY SpentFinite DEF Once
<1> QED BY <1>4, <1>5

--------------------
(* The invariant, and the theorems. *)

IInv ==
  /\ Types /\ Ranges /\ Begun /\ Rows
  /\ LedgerBalanced /\ Buying /\ PurchasesKept /\ Once
  /\ Allotted /\ Beyond /\ OverageCharged /\ OverrunOnlyRacing /\ Limited

\* The initial states satisfy the invariant.
LEMMA InitIInv == Init => IInv
<1>1. Init => OverageCharged /\ OverrunOnlyRacing BY DEF Init, OverageCharged, OverrunOnlyRacing, RowsOf
<1> QED
  BY <1>1, InitTypes, BegunHolds, RowsInit, LedgerInit, BuyingHolds, PurchasesInit, OnceHolds,
     AllottedHolds, BeyondHolds, LimitedHolds DEF IInv

\* It is about the variables only.
LEMMA StutterIInv == IInv /\ UNCHANGED vars => IInv'
<1> SUFFICES ASSUME IInv, UNCHANGED vars  PROVE IInv' OBVIOUS
<1>1. /\ UNCHANGED <<plan, month, sub, blocked, level, logs, call, stripe, meter, events, outstanding>>
      /\ UNCHANGED <<handling, repeats, version, publishing, usable, resets, disturbed, unsettled>>
  BY DEF vars
<1>2. Types' /\ Ranges' /\ Begun' /\ Once' BY <1>1 DEF IInv, Types, Ranges, Begun, Once, Single, Spent
<1>3. Rows' /\ LedgerBalanced' BY <1>1 DEF IInv, Rows, LedgerBalanced, LastReset, RowsOf, Tokens, Recorded
<1>4. Buying' /\ PurchasesKept' BY <1>1 DEF IInv, Buying, PurchasesKept, RowsOf, Tokens, Raced, Overlap
<1>5. Allotted' /\ Beyond' /\ OverageCharged' /\ OverrunOnlyRacing'
  BY <1>1 DEF IInv, Allotted, Beyond, Within, OverageCharged, OverrunOnlyRacing, RowsOf, Raced, Overlap
<1>6. Limited' BY <1>1 DEF IInv, Limited, Billed, Costs
<1> QED BY <1>2, <1>3, <1>4, <1>5, <1>6 DEF IInv

\* Every step keeps it.
LEMMA NextIInv == IInv /\ [Next]_vars => IInv'
<1>1. IInv /\ Next => IInv'
  BY NextCases, BegunHolds, RowsHold, LedgerHolds, BuyingHolds, PurchasesHold, OnceHolds,
     AllottedHolds, BeyondHolds, OverageHolds, LimitedHolds DEF IInv
<1> QED BY <1>1, StutterIInv

\* The conjunction of them is an invariant of every behaviour, for every value of
\* the constants: any number of calls, months, batches of events and versions.
THEOREM AccountInvariant == Spec => []IInv
  BY InitIInv, NextIInv, PTL DEF Spec

\* TypeOK says less than Types and Ranges.
LEMMA TypesMean == Types /\ Ranges => TypeOK
<1> SUFFICES ASSUME Types, Ranges  PROVE TypeOK OBVIOUS
<1>1. /\ sub.tier \in {"FREE", "PREMIUM"} /\ sub.status \in {"ACTIVE", "INACTIVE", "PAST_DUE"}
      /\ sub.used \in Nat /\ sub.bought \in Nat
  BY DEF Types, SubRow, Tiers
<1>2. \A q \in Calls : call[q].pc \in Pcs BY DEF Types, CallRow
<1>3. \A s \in DOMAIN stripe : stripe[s].status \in {"incomplete", "active", "past_due", "canceled"} BY StripeTypes
<1> QED BY <1>1, <1>2, <1>3 DEF Types, Ranges, TypeOK, Pcs, Tiers

\* Every variable keeps its type: the row names a subscription Stripe has, and
\* what is acknowledged was sent.
THEOREM TypeCorrect == Spec => []TypeOK
  BY AccountInvariant, TypesMean, PTL DEF IInv

\* trackTokenUsage's counter is the sum of the rows since the last reset, an
\* ingestion is charged once and reported once, purchaseTokens loses no tokens
\* but by overlapping, and the month is reset once per payment: however turns,
\* notices, purchases, renewals and deaths of pods interleave.
THEOREM UsageAccountedHolds == Spec => []UsageAccounted
<1>1. IInv => UsageAccounted BY RecordedOnce, OnceMeans DEF IInv, UsageAccounted
<1> QED BY <1>1, AccountInvariant, PTL

\* checkTokenQuota lets nobody beyond the allocation for nothing but by calls that
\* race, and trackTokenUsage reports nothing beyond the spending limit to Stripe
\* even then.
THEOREM LimitsHold == Spec => []LimitsHoldUnraced
<1>1. IInv => LimitsHoldUnraced BY LimitedMeans DEF IInv, LimitsHoldUnraced
<1> QED BY <1>1, AccountInvariant, PTL
=============================================================================
