---------------------------- MODULE TokenBilling ----------------------------
(***************************************************************************)
(* The token account of one owner: the quota gate in front of a bot's      *)
(* turn, the usage recorded after it, the tokens bought, the subscription  *)
(* at Stripe and the webhooks by which the database follows it, and the    *)
(* price plans subscribers are moved to.                                   *)
(*                                                                         *)
(* A call is one turn, ingestion notice or purchase on some pod, a handler *)
(* the processing of one payment; their steps lie between the awaits at    *)
(* which others can change what they read.  Stripe is the environment: it  *)
(* changes its own records and queues events, delivered in any order and,  *)
(* when the plan says so, more than once.  One token stands for a thousand,*)
(* and costs 1; a month is one billing period of a monthly subscriber.     *)
(***************************************************************************)
EXTENDS Integers, Sequences, FiniteSets, FiniteSetsExt

CONSTANTS
  Calls,      \* turns, notices, purchases and subscriptions; each is made at most once
  Plans,      \* what an instance may do
  Free,       \* FREE_TOKEN_LIMIT
  Premium,    \* PREMIUM_MONTHLY_TOKEN_LIMIT
  Amounts,    \* tokens a turn takes or a purchase buys
  Limits,     \* spending limits an owner may set
  None

Ops == {"chat", "ingest", "buy", "subscribe", "none"}
ASSUME PlanAssumption ==
  /\ Free \in Nat /\ Premium \in Nat /\ Amounts \subseteq Nat \ {0} /\ Limits \subseteq Nat \ {0}
  /\ None \notin Nat
  /\ Plans \subseteq [ops : [Calls -> Ops], months : Nat, batches : Nat, versions : Nat \ {0},
                      limit : Nat, settings : SUBSET {"limit", "alloc", "stripe"}, repeats : Nat,
                      failures : BOOLEAN, premium : BOOLEAN]

VARIABLES
  plan,
  month,      \* the clock
  sub,        \* the Subscription row
  blocked,    \* User.accountBlocked
  level,      \* the tier the team's FILE and BOT quotas are set for
  logs,       \* Seq(row) of TokenUsageLog
  call,       \* [Calls -> local state]
  stripe,     \* Seq(subscription) at Stripe, all of one customer
  meter,      \* [Calls -> Nat] how often a call reported to the billing meter
  events,     \* Seq(event) Stripe has sent
  outstanding,\* those not acknowledged
  handling,   \* the payments being processed
  version,    \* the ACTIVE price plan
  publishing, \* new prices are made, their plans not yet ACTIVE
  usable,     \* Stripe accepts the prices of the ACTIVE plans
  resets,     \* history: the length of logs at each reset of the month's usage
  repeats,    \* events handled again: delivered twice, or dropped by a dead pod
  disturbed,  \* history: whether an event was handled out of order or twice
  unsettled   \* history: whether plans were published before the account had settled

vars == <<plan, month, sub, blocked, level, logs, call, stripe, meter, events, outstanding,
          handling, repeats, version, publishing, usable, resets, disturbed, unsettled>>
prices == <<version, publishing, usable, unsettled>>
hooks == <<events, outstanding, handling, repeats, disturbed>>

\* newest: history, the latest period the row has had.
Customer(tier, id) ==
  [tier |-> tier, status |-> "ACTIVE", alloc |-> IF tier = "FREE" THEN Free ELSE Premium,
   bought |-> 0, used |-> 0, limit |-> IF tier = "FREE" THEN 0 ELSE plan.limit, stripe |-> id,
   period |-> 0, newest |-> 0, cancel |-> FALSE, plan |-> 1, scheduled |-> 0]
Idle(op) == [op |-> op, pc |-> "new", n |-> 0, cost |-> 0, seen |-> Customer("FREE", None),
             end |-> "none", since |-> {}]
AtStripe(status, p, q) ==
  [status |-> status, period |-> 0, cancel |-> FALSE, price |-> p, by |-> q, again |-> FALSE]

Init ==
  /\ plan \in Plans /\ month = 0
  /\ sub = IF plan.premium THEN Customer("PREMIUM", 1) ELSE Customer("FREE", None)
  /\ stripe = IF plan.premium THEN <<AtStripe("active", 1, None)>> ELSE <<>>
  /\ blocked = FALSE /\ level = sub.tier /\ logs = <<>> /\ meter = [q \in Calls |-> 0]
  /\ call = [q \in Calls |-> Idle(plan.ops[q])]
  /\ events = <<>> /\ outstanding = {} /\ handling = {}
  /\ version = 1 /\ publishing = FALSE /\ usable = TRUE /\ resets = <<>> /\ repeats = 0 /\ disturbed = FALSE /\ unsettled = FALSE

Over == {"done", "dead"}
Starts(q, op, local) ==
  /\ call[q].pc = "new" /\ call[q].op = op
  /\ call' = [call EXCEPT ![q] = [local EXCEPT !.since = {r \in Calls : call[r].pc \in Over}]]
Moves(q, from, local) == call[q].pc = from /\ call' = [call EXCEPT ![q] = local]
Ends(q, from, how) == Moves(q, from, [call[q] EXCEPT !.pc = "done", !.end = how])

Costs == [i \in DOMAIN logs |-> logs[i].cost]
Tokens == [i \in DOMAIN logs |-> logs[i].n]

\* getCurrentMonthCost: everything logged in the period, purchases included.
MonthCost == SumFunctionOnSet(Costs, {i \in DOMAIN logs : logs[i].at >= sub.period})

-----------------------------------------------------------------------------
(* A turn: checkTokenQuota, the answer, trackTokenUsage.                   *)

\* The gate: never for a blocked account, always while tokens are left, and
\* beyond them for a premium owner below the spending limit.
Allowed ==
  /\ ~blocked
  /\ \/ sub.used < sub.alloc + sub.bought
     \/ sub.tier = "PREMIUM" /\ (sub.limit = 0 \/ MonthCost < sub.limit)

CheckTokenQuota(q) ==
  /\ Starts(q, "chat", [call[q] EXCEPT !.pc = IF Allowed THEN "answer" ELSE "done",
                                       !.end = IF Allowed THEN "none" ELSE "refused"])
  /\ UNCHANGED <<plan, month, sub, blocked, level, logs, stripe, meter, hooks, prices, resets>>

\* External: what the model took.
Answer(q, n) ==
  /\ Moves(q, "answer", [call[q] EXCEPT !.pc = "track", !.n = n])
  /\ UNCHANGED <<plan, month, sub, blocked, level, logs, stripe, meter, hooks, prices, resets>>

\* The notice of a finished ingestion reaches every pod; all of them charge it.
IngestionCompleted(q, n) ==
  /\ \A r \in Calls : call[r].op = "ingest" /\ call[r].n # 0 => call[r].n = n
  /\ Starts(q, "ingest", [call[q] EXCEPT !.pc = "track", !.n = n])
  /\ UNCHANGED <<plan, month, sub, blocked, level, logs, stripe, meter, hooks, prices, resets>>

\* Mutation: tokens beyond the allocation are free until it has been passed.
ReadUsageStrict(q) ==
  LET n == call[q].n
      overage == IF sub.tier = "PREMIUM" /\ sub.used > sub.alloc THEN n ELSE 0
  IN /\ Moves(q, "track", [call[q] EXCEPT !.pc = "commit", !.cost = overage, !.seen = sub])
     /\ UNCHANGED <<plan, month, sub, blocked, level, logs, stripe, meter, hooks, prices, resets>>

\* The row is read and the cost computed from it: all of the tokens once the
\* allocation is used up, none of a turn that crosses it.
ReadUsage(q) ==
  LET n == call[q].n
      overage == IF sub.tier = "PREMIUM" /\ sub.used >= sub.alloc
                 THEN Min({n, sub.used + n - sub.alloc}) ELSE 0
  IN /\ Moves(q, "track", [call[q] EXCEPT !.pc = "commit", !.cost = overage, !.seen = sub])
     /\ UNCHANGED <<plan, month, sub, blocked, level, logs, stripe, meter, hooks, prices, resets>>

\* used, bought, tier: history, the account when the row was written.
Row(q) == [by |-> q, op |-> call[q].op, n |-> call[q].n, cost |-> call[q].cost, at |-> month,
           used |-> sub.used, bought |-> sub.bought, tier |-> sub.tier]
Duplicate(q) == call[q].op = "ingest" /\ \E i \in DOMAIN logs : logs[i].op = "ingest"

\* Mutation: the counter is overwritten with a sum instead of incremented.
CommitUsageStale(q) ==
  /\ IF Duplicate(q) THEN Ends(q, "commit", "duplicate") /\ UNCHANGED <<logs, sub>>
     ELSE /\ Moves(q, "commit", [call[q] EXCEPT
               !.pc = IF call[q].cost > 0 THEN "limit" ELSE "done",
               !.end = IF call[q].cost > 0 THEN "none" ELSE "tracked"])
          /\ logs' = Append(logs, Row(q))
          /\ sub' = [sub EXCEPT !.used = call[q].seen.used + call[q].n]
  /\ UNCHANGED <<plan, month, blocked, level, stripe, meter, hooks, prices, resets>>

\* The transaction; a second row for a task violates the unique index.
CommitUsage(q) ==
  /\ IF Duplicate(q) THEN Ends(q, "commit", "duplicate") /\ UNCHANGED <<logs, sub>>
     ELSE /\ Moves(q, "commit", [call[q] EXCEPT
               !.pc = IF call[q].cost > 0 THEN "limit" ELSE "done",
               !.end = IF call[q].cost > 0 THEN "none" ELSE "tracked"])
          /\ logs' = Append(logs, Row(q))
          /\ sub' = [sub EXCEPT !.used = @ + call[q].n]
  /\ UNCHANGED <<plan, month, blocked, level, stripe, meter, hooks, prices, resets>>

\* The limit as it was read, against a sum that has the new row in it already:
\* the call throws, the row stays.
CheckLimit(q) ==
  LET limit == call[q].seen.limit
  IN /\ IF limit # 0 /\ MonthCost + call[q].cost > limit
        THEN Ends(q, "limit", "threw")
        ELSE Moves(q, "limit", [call[q] EXCEPT !.pc = "report"])
     /\ UNCHANGED <<plan, month, sub, blocked, level, logs, stripe, meter, hooks, prices, resets>>

\* A failure of the meter is logged and swallowed.
ReportUsage(q) ==
  /\ \E ok \in BOOLEAN :
       /\ ~ok => plan.failures \/ call[q].seen.stripe = None
       /\ ok => call[q].seen.stripe # None
       /\ Ends(q, "report", IF ok THEN "reported" ELSE "unreported")
       /\ meter' = IF ok THEN [meter EXCEPT ![q] = @ + 1] ELSE meter
  /\ UNCHANGED <<plan, month, sub, blocked, level, logs, stripe, hooks, prices, resets>>

-----------------------------------------------------------------------------
(* purchaseTokens: the row is read, then overwritten with a sum, then the  *)
(* cost is logged.                                                         *)
ReadPurchase(q, n) ==
  LET goes == sub.tier = "PREMIUM" /\ (sub.limit = 0 \/ MonthCost + n <= sub.limit)
  IN /\ Starts(q, "buy", [call[q] EXCEPT !.n = n, !.cost = n, !.seen = sub,
                            !.pc = IF goes THEN "pay" ELSE "done",
                            !.end = IF goes THEN "none" ELSE "refused"])
     /\ UNCHANGED <<plan, month, sub, blocked, level, logs, stripe, meter, hooks, prices, resets>>

WritePurchase(q) ==
  /\ Moves(q, "pay", [call[q] EXCEPT !.pc = "note"])
  /\ sub' = [sub EXCEPT !.bought = call[q].seen.bought + call[q].n]
  /\ UNCHANGED <<plan, month, blocked, level, logs, stripe, meter, hooks, prices, resets>>

LogPurchase(q) ==
  /\ Moves(q, "note", [call[q] EXCEPT !.pc = "done", !.end = "bought"])
  /\ logs' = Append(logs, Row(q))
  /\ UNCHANGED <<plan, month, sub, blocked, level, stripe, meter, hooks, prices, resets>>

-----------------------------------------------------------------------------
(* The owner and the administrator.                                        *)

SetSpendingLimit(l) ==
  /\ "limit" \in plan.settings /\ sub.tier = "PREMIUM" /\ l # sub.limit
  /\ sub' = [sub EXCEPT !.limit = l]
  /\ UNCHANGED <<plan, month, blocked, level, logs, call, stripe, meter, hooks, prices, resets>>

\* updateUserQuota("TOKEN"): the allocation itself is overwritten.
SetAllocation(n) ==
  /\ "alloc" \in plan.settings /\ n # sub.alloc
  /\ sub' = [sub EXCEPT !.alloc = n]
  /\ UNCHANGED <<plan, month, blocked, level, logs, call, stripe, meter, hooks, prices, resets>>

\* Stripe sends what happened to subscription s in one batch, in no order.
Send(s, types, new) ==
  LET b == IF events = <<>> THEN 1 ELSE events[Len(events)].batch + 1
      one == [type |-> "updated", s |-> s, batch |-> b, status |-> new.status,
              cancel |-> new.cancel, period |-> new.period]
      more == [i \in 1 .. Len(types) |-> [one EXCEPT !.type = types[i]]]
  IN /\ b <= plan.batches
     /\ events' = events \o more
     /\ outstanding' = outstanding \cup (Len(events) + 1 .. Len(events) + Len(types))
     /\ UNCHANGED <<handling, repeats, disturbed>>
Became(s, types, new) == stripe' = [stripe EXCEPT ![s] = new] /\ Send(s, types, new)

\* cancelSubscription.
CancelSubscription ==
  /\ sub.tier = "PREMIUM" /\ sub.stripe # None /\ ~sub.cancel
  /\ stripe[sub.stripe].status # "canceled"
  /\ Became(sub.stripe, <<"updated">>, [stripe[sub.stripe] EXCEPT !.cancel = TRUE])
  /\ sub' = [sub EXCEPT !.cancel = TRUE]
  /\ UNCHANGED <<plan, month, blocked, level, logs, call, meter, prices, resets>>

\* updatePaymentMethod: nothing of ours changes, but Stripe sends the update.
UpdatePaymentMethod ==
  /\ sub.stripe # None /\ "stripe" \in plan.settings /\ stripe[sub.stripe].status # "canceled"
  /\ Send(sub.stripe, <<"updated">>, stripe[sub.stripe])
  /\ UNCHANGED <<plan, month, sub, blocked, level, logs, call, stripe, meter, prices, resets>>

\* createSubscription: the row is read, ...
Subscribe(q) ==
  LET again == sub.tier = "PREMIUM" /\ sub.stripe # None
  IN /\ Starts(q, "subscribe", [call[q] EXCEPT !.seen = sub, !.pc = IF again THEN "done" ELSE "create",
                                  !.end = IF again THEN "refused" ELSE "none"])
     /\ UNCHANGED <<plan, month, sub, blocked, level, logs, stripe, meter, hooks, prices, resets>>

\* ... an attempt that was never paid is cancelled, and a subscription created at
\* the current price; Stripe refuses one that is archived.
Abandons(q) == call[q].seen.stripe # None /\ stripe[call[q].seen.stripe].status = "incomplete"
Live == {"active", "past_due"}
\* Mutation: the id is written whether or not Stripe accepted.
CreateAtStripeEager(q) ==
  /\ Moves(q, "create", [call[q] EXCEPT !.pc = "persist", !.n = Len(stripe) + 1])
  /\ sub' = [sub EXCEPT !.stripe = Len(stripe) + 1]
  /\ stripe' = IF usable THEN Append(stripe, AtStripe("incomplete", version, q)) ELSE stripe
  /\ UNCHANGED <<plan, month, blocked, level, logs, meter, hooks, prices, resets>>
CreateAtStripe(q) ==
  LET kept == IF Abandons(q) THEN [stripe EXCEPT ![call[q].seen.stripe].status = "canceled"]
              ELSE stripe
      new == [AtStripe("incomplete", version, q) EXCEPT
                !.again = \E s \in DOMAIN stripe : stripe[s].status \in Live]
  IN /\ call[q].pc = "create"
     /\ IF usable
        THEN Moves(q, "create", [call[q] EXCEPT !.pc = "persist", !.n = Len(stripe) + 1])
             /\ stripe' = Append(kept, new)
        ELSE Ends(q, "create", "refused") /\ stripe' = kept
     /\ sub' = IF Abandons(q) THEN [sub EXCEPT !.stripe = None] ELSE sub
     /\ UNCHANGED <<plan, month, blocked, level, logs, meter, hooks, prices, resets>>

\* ... whose id is written before its secret is handed out.
PersistSubscription(q) ==
  /\ Ends(q, "persist", "subscribed") /\ sub' = [sub EXCEPT !.stripe = call[q].n]
  /\ UNCHANGED <<plan, month, blocked, level, logs, stripe, meter, hooks, prices, resets>>

-----------------------------------------------------------------------------
(* Stripe, as the handlers of its events see it (external).                *)

Payable(s) == stripe[s].status = "incomplete" /\ call[stripe[s].by].end = "subscribed"
PayFirst(s) ==
  /\ Payable(s)
  /\ Became(s, <<"succeeded", "updated">>, [stripe[s] EXCEPT !.status = "active", !.period = month])
  /\ UNCHANGED <<plan, month, sub, blocked, level, logs, call, meter, prices, resets>>
DeclineFirst(s) ==
  /\ Payable(s) /\ Became(s, <<"failed">>, stripe[s])
  /\ UNCHANGED <<plan, month, sub, blocked, level, logs, call, meter, prices, resets>>
Renew(s) ==
  /\ stripe[s].status = "active" /\ ~stripe[s].cancel /\ stripe[s].period < month
  /\ \/ Became(s, <<"succeeded", "updated">>, [stripe[s] EXCEPT !.period = month])
     \/ Became(s, <<"failed", "updated">>, [stripe[s] EXCEPT !.period = month, !.status = "past_due"])
  /\ UNCHANGED <<plan, month, sub, blocked, level, logs, call, meter, prices, resets>>
Retry(s) ==
  /\ stripe[s].status = "past_due"
  /\ \/ Became(s, <<"succeeded", "updated">>, [stripe[s] EXCEPT !.status = "active"])
     \/ Became(s, <<"deleted">>, [stripe[s] EXCEPT !.status = "canceled"])
  /\ UNCHANGED <<plan, month, sub, blocked, level, logs, call, meter, prices, resets>>
EndOfPeriod(s) ==
  /\ stripe[s].status = "active" /\ stripe[s].cancel /\ stripe[s].period < month
  /\ Became(s, <<"deleted">>, [stripe[s] EXCEPT !.status = "canceled"])
  /\ UNCHANGED <<plan, month, sub, blocked, level, logs, call, meter, prices, resets>>

-----------------------------------------------------------------------------
(* handleWebhook.  An event is acknowledged when its handler returns.      *)

Early(e) == \E d \in outstanding : events[d].batch < events[e].batch
Acknowledge(e) ==
  /\ \/ outstanding' = outstanding \ {e} /\ UNCHANGED repeats
     \/ repeats < plan.repeats /\ repeats' = repeats + 1 /\ UNCHANGED outstanding
  /\ disturbed' = (disturbed \/ Early(e) \/ e \notin outstanding \/ repeats' # repeats)
Twice(e) == \E h \in handling : h.e = e

\* handlePaymentSucceeded: the row is found, the account unblocked, the
\* subscription fetched from Stripe.
ReadPayment(e) ==
  /\ events[e].type = "succeeded" /\ (Twice(e) => repeats < plan.repeats)
  /\ repeats' = IF Twice(e) THEN repeats + 1 ELSE repeats
  /\ blocked' = FALSE
  /\ handling' = handling \cup
       {[e |-> e, pc |-> "write", tier |-> sub.tier, scheduled |-> sub.scheduled,
         period |-> stripe[events[e].s].period]}
  /\ disturbed' = (disturbed \/ Early(e) \/ Twice(e))
  /\ UNCHANGED <<plan, month, sub, level, logs, call, stripe, meter, events, outstanding,
                 prices, resets>>

\* The first payment of a FREE owner, with the plan ACTIVE by now and the
\* team's quotas.
ActivatePremium(h) ==
  /\ h.pc = "write" /\ h.tier = "FREE"
  /\ sub' = [sub EXCEPT !.tier = "PREMIUM", !.status = "ACTIVE", !.stripe = events[h.e].s,
                        !.period = h.period, !.newest = Max({@, h.period}), !.alloc = Premium,
                        !.used = 0, !.plan = version]
  /\ level' = "PREMIUM" /\ resets' = Append(resets, Len(logs))
  /\ handling' = handling \ {h} /\ Acknowledge(h.e)
  /\ UNCHANGED <<plan, month, blocked, logs, call, stripe, meter, events, prices>>

\* Any other: the month's usage and the tokens bought are reset.
RenewPremium(h) ==
  /\ h.pc = "write" /\ h.tier = "PREMIUM"
  /\ sub' = [sub EXCEPT !.status = "ACTIVE", !.used = 0, !.bought = 0, !.period = h.period,
                        !.newest = Max({@, h.period})]
  /\ resets' = Append(resets, Len(logs))
  /\ handling' = (handling \ {h}) \cup {[h EXCEPT !.pc = "migrate"]}
  /\ UNCHANGED <<plan, month, blocked, level, logs, call, stripe, meter, events, outstanding,
                 repeats, disturbed, prices>>

\* applyScheduledPriceMigration, with the plan scheduled when the row was read:
\* the price at Stripe, then the row; a failure is swallowed.
MigratePrice(h) ==
  /\ h.pc = "migrate" /\ handling' = handling \ {h} /\ Acknowledge(h.e)
  /\ \/ h.scheduled = 0 /\ UNCHANGED <<stripe, sub>>
     \/ /\ h.scheduled # 0 /\ stripe' = [stripe EXCEPT ![events[h.e].s].price = h.scheduled]
        /\ \/ sub' = [sub EXCEPT !.plan = h.scheduled, !.scheduled = 0]
           \/ plan.failures /\ UNCHANGED sub
     \/ h.scheduled # 0 /\ plan.failures /\ UNCHANGED <<stripe, sub>>
  /\ UNCHANGED <<plan, month, blocked, level, logs, call, meter, events, prices, resets>>

\* handlePaymentFailed: whoever owns the customer is blocked.
PaymentFailed(e) ==
  /\ events[e].type = "failed" /\ Acknowledge(e)
  /\ blocked' = TRUE /\ sub' = [sub EXCEPT !.status = "PAST_DUE"]
  /\ UNCHANGED <<plan, month, level, logs, call, stripe, meter, events, handling, prices, resets>>

\* handleSubscriptionUpdated: anything but active or trialing is INACTIVE.
SubscriptionUpdated(e) ==
  /\ events[e].type = "updated" /\ Acknowledge(e)
  /\ sub' = IF sub.stripe # events[e].s THEN sub
            ELSE [sub EXCEPT !.status = IF events[e].status = "active" THEN "ACTIVE" ELSE "INACTIVE",
                             !.period = events[e].period, !.newest = Max({@, events[e].period}),
                             !.cancel = events[e].cancel]
  /\ UNCHANGED <<plan, month, blocked, level, logs, call, stripe, meter, events, handling, prices,
                 resets>>

\* handleSubscriptionDeleted.
SubscriptionDeleted(e) ==
  /\ events[e].type = "deleted" /\ Acknowledge(e)
  /\ IF sub.stripe # events[e].s THEN UNCHANGED <<sub, level, resets>>
     ELSE /\ sub' = [sub EXCEPT !.tier = "FREE", !.status = "INACTIVE", !.stripe = None,
                                !.alloc = Free, !.used = 0, !.bought = 0]
          /\ level' = "FREE" /\ resets' = Append(resets, Len(logs))
  /\ UNCHANGED <<plan, month, blocked, logs, call, stripe, meter, events, handling, prices>>

-----------------------------------------------------------------------------
(* publishPricePlans: new prices at Stripe, where a failure takes back the   *)
(* ones made, and the old ones archived; then the rows, with a migration for *)
(* every active subscriber.                                                  *)
CreatePrices ==
  /\ ~publishing /\ version < plan.versions
  /\ publishing' = TRUE /\ usable' = FALSE
  /\ UNCHANGED <<plan, month, sub, blocked, level, logs, call, stripe, meter, hooks, unsettled, version, resets>>

Unsettled ==
  \/ outstanding # {} \/ handling # {}
  \/ sub.tier = "PREMIUM" /\ sub.status # "ACTIVE"
  \/ sub.tier = "FREE" /\ \E s \in DOMAIN stripe : stripe[s].status # "canceled"
  \/ \E q \in Calls : call[q].pc \in {"create", "persist"}
\* Mutation: nobody is told to migrate.
PublishUnscheduled ==
  /\ publishing /\ publishing' = FALSE /\ version' = version + 1 /\ usable' = TRUE
  /\ unsettled' = (unsettled \/ Unsettled)
  /\ UNCHANGED <<plan, month, sub, blocked, level, logs, call, stripe, meter, hooks, resets>>

PublishPlans ==
  /\ publishing /\ publishing' = FALSE /\ version' = version + 1 /\ usable' = TRUE
  /\ sub' = IF sub.tier = "PREMIUM" /\ sub.status = "ACTIVE"
            THEN [sub EXCEPT !.scheduled = version'] ELSE sub
  /\ unsettled' = (unsettled \/ Unsettled)
  /\ UNCHANGED <<plan, month, blocked, level, logs, call, stripe, meter, hooks, resets>>
PublisherDies ==
  /\ plan.failures /\ publishing /\ publishing' = FALSE
  /\ UNCHANGED <<plan, month, sub, blocked, level, logs, call, stripe, meter, hooks, unsettled, version, usable, resets>>

\* syncStripeToActive: prices Stripe no longer accepts are made anew; after a
\* failure those made are deactivated again, and the rows keep them.
SyncStripeToActive ==
  /\ ~usable /\ usable' \in {TRUE, ~plan.failures}
  /\ UNCHANGED <<plan, month, sub, blocked, level, logs, call, stripe, meter, hooks, unsettled, version, publishing,
                 resets>>

-----------------------------------------------------------------------------
NextMonth ==
  /\ month < plan.months /\ month' = month + 1
  /\ UNCHANGED <<plan, sub, blocked, level, logs, call, stripe, meter, hooks, prices, resets>>

\* A pod dies in the middle of a call or of a handler.
Die(q) ==
  /\ plan.failures /\ call[q].pc \notin Over \cup {"new"}
  /\ Moves(q, call[q].pc, [call[q] EXCEPT !.pc = "dead", !.end = "lost"])
  /\ UNCHANGED <<plan, month, sub, blocked, level, logs, stripe, meter, hooks, prices, resets>>
DropHandler(h) ==
  /\ plan.failures /\ repeats < plan.repeats /\ repeats' = repeats + 1
  /\ handling' = handling \ {h}
  /\ UNCHANGED <<plan, month, sub, blocked, level, logs, call, stripe, meter, events, outstanding,
                 disturbed, prices, resets>>

TurnStep(q) ==
  \/ CheckTokenQuota(q) \/ ReadUsage(q) \/ CommitUsage(q) \/ CheckLimit(q) \/ ReportUsage(q)
  \/ WritePurchase(q) \/ LogPurchase(q) \/ Die(q)
  \/ \E n \in Amounts : Answer(q, n) \/ IngestionCompleted(q, n) \/ ReadPurchase(q, n)
  \/ Subscribe(q) \/ CreateAtStripe(q) \/ PersistSubscription(q)
StripeStep(s) ==
  PayFirst(s) \/ DeclineFirst(s) \/ Renew(s) \/ Retry(s) \/ EndOfPeriod(s)
WebhookStep ==
  \/ \E e \in outstanding : \/ ReadPayment(e) \/ PaymentFailed(e)
                            \/ SubscriptionUpdated(e) \/ SubscriptionDeleted(e)
  \/ \E h \in handling : \/ ActivatePremium(h) \/ RenewPremium(h) \/ MigratePrice(h)
                         \/ DropHandler(h)
OwnerStep ==
  \/ \E l \in Limits : SetSpendingLimit(l)
  \/ \E n \in {Free, Premium} : SetAllocation(n)
  \/ CancelSubscription \/ UpdatePaymentMethod

Next ==
  \/ \E q \in Calls : TurnStep(q)
  \/ \E s \in DOMAIN stripe : StripeStep(s)
  \/ WebhookStep \/ OwnerStep
  \/ CreatePrices \/ PublishPlans \/ PublisherDies \/ SyncStripeToActive \/ NextMonth

Spec == Init /\ [][Next]_vars

-----------------------------------------------------------------------------
(* Properties.                                                             *)

LastReset == IF resets = <<>> THEN 0 ELSE resets[Len(resets)]
RowsOf(op) == {i \in DOMAIN logs : logs[i].op = op}
Overlap(q, r) == q # r /\ q \notin call[r].since /\ r \notin call[q].since
Raced(q) ==
  /\ call[q].pc # "new"
  /\ \E r \in Calls : call[r].pc # "new" /\ call[r].op # "subscribe" /\ Overlap(q, r)
Quiet == outstanding = {} /\ handling = {} /\ ~disturbed

TypeOK ==
  /\ plan \in Plans /\ month \in 0 .. plan.months /\ blocked \in BOOLEAN
  /\ level \in {"FREE", "PREMIUM"} /\ sub.tier \in {"FREE", "PREMIUM"}
  /\ sub.status \in {"ACTIVE", "INACTIVE", "PAST_DUE"}
  /\ sub.stripe \in {None} \cup DOMAIN stripe /\ sub.used \in Nat /\ sub.bought \in Nat
  /\ \A q \in Calls : call[q].pc \in Over \cup
       {"new", "answer", "track", "commit", "limit", "report", "pay", "note", "create", "persist"}
  /\ \A s \in DOMAIN stripe : stripe[s].status \in {"incomplete", "active", "past_due", "canceled"}
  /\ meter \in [Calls -> Nat] /\ outstanding \subseteq DOMAIN events
  /\ version \in 1 .. plan.versions /\ {publishing, usable} \subseteq BOOLEAN /\ disturbed \in BOOLEAN

\* The counter of the month is the sum of the rows logged since it was last
\* reset, however turns, notices and renewals interleave (trackTokenUsage's
\* transaction).
LedgerBalanced ==
  sub.used = SumFunctionOnSet(Tokens, {i \in RowsOf("chat") \cup RowsOf("ingest") : i > LastReset})

\* An ingestion is charged once although its notice reaches every pod, and what
\* is reported to Stripe is in the log, once (the bug trackTokenUsage's comment
\* says its previous version had).
ReportedIsRecorded ==
  /\ Cardinality(RowsOf("ingest")) <= 1
  /\ \A q \in Calls : meter[q] <= Cardinality({i \in DOMAIN logs : logs[i].by = q /\ logs[i].cost > 0})

\* A premium owner pays for every token of a turn that ends beyond the
\* allocation, unless it raced another call across it (nothing is used yet when
\* a reset comes in the middle of the turn).
OverageCharged ==
  "alloc" \notin plan.settings => \A i \in RowsOf("chat") :
    logs[i].tier = "PREMIUM" /\ logs[i].used >= Premium /\ logs[i].used > 0
      => logs[i].cost = logs[i].n \/ Raced(logs[i].by)

\* A free owner's turn is answered beyond the limit, and the tokens bought, only
\* when it raced another call: one turn after the other, the first that crosses
\* it is the last.
OverrunOnlyRacing ==
  "alloc" \notin plan.settings => \A i \in RowsOf("chat") :
    logs[i].tier = "FREE" /\ logs[i].used >= Free + logs[i].bought /\ logs[i].used > 0
      => Raced(logs[i].by)

\* However turns race, what is reported to Stripe in a period stays within the
\* spending limit: the check sees every row committed before it.  The period is
\* the latest the row has had: a payment that is handled late reads the period
\* from Stripe, and its own update takes the row back to an earlier one.
BilledWithinLimit ==
  LET billed == {i \in DOMAIN logs : logs[i].at >= sub.newest /\ meter[logs[i].by] > 0}
  IN sub.limit # 0 /\ "limit" \notin plan.settings => SumFunctionOnSet(Costs, billed) <= sub.limit

\* The tokens bought since the last reset are on the account, unless two
\* purchases overlapped or a reset or a crash came in the middle of one.
PurchasesKept ==
  LET logged == SumFunctionOnSet(Tokens, RowsOf("buy"))
      unlogged == {q \in Calls : call[q].pc = "note"}
  IN \/ Len(resets) > 0
     \/ \E q \in Calls : call[q].op = "buy" /\ (Raced(q) \/ call[q].pc = "dead")
     \/ unlogged = {} /\ sub.bought = logged
     \/ \E q \in unlogged : sub.bought = logged + call[q].n

\* A customer is charged for two subscriptions only when the second was asked
\* for while the payment of the first was on its way, or by overlapping calls.
OneSubscription ==
  \A s, t \in DOMAIN stripe :
    s < t /\ {stripe[s].status, stripe[t].status} \subseteq Live
      => stripe[t].again \/ (stripe[s].by # None /\ Overlap(stripe[s].by, stripe[t].by))

\* Handled once and batch by batch, in any order within a batch, the events
\* leave the database where Stripe is: the tier and the team's quotas with it,
\* the status, and the block with the last attempt to collect.
Simple == \A s \in DOMAIN stripe : ~stripe[s].again /\ Cardinality({q \in Calls : call[q].op = "subscribe"}) <= 1
Converged ==
  Quiet /\ Simple /\ ~plan.failures =>
    /\ level = sub.tier
    /\ (sub.tier = "PREMIUM") = (\E s \in DOMAIN stripe : stripe[s].status \in Live)
    /\ sub.tier = "PREMIUM" =>
         /\ (stripe[sub.stripe].status = "active") = (sub.status = "ACTIVE")
         /\ (stripe[sub.stripe].status = "active") = ~blocked
         /\ sub.cancel = stripe[sub.stripe].cancel \/ sub.cancel

\* The month's usage is reset once per payment or cancellation, unless its event
\* was handled more than once.
ResetOncePerPayment ==
  repeats = 0 =>
    Len(resets) <= Cardinality({e \in DOMAIN events : events[e].type \in {"succeeded", "deleted"}})

\* The plan a subscriber's row names is the price Stripe charges, unless plans
\* were published between the subscription's creation and its activation or a
\* migration failed half-way.
RowFollowsPrice ==
  sub.tier = "PREMIUM" /\ Quiet /\ Simple /\ ~plan.failures /\ sub.plan # stripe[sub.stripe].price
    => stripe[sub.stripe].by # None /\ stripe[sub.stripe].price < sub.plan

\* A subscriber who pays another price than the ACTIVE plan's is scheduled to
\* migrate, unless the plan was published while a payment or the first activation
\* was on its way or the account was behind: publishPricePlans' answer,
\* "Subscribers will migrate at their next billing cycle", holds for the rest.
Migrates ==
  sub.tier = "PREMIUM" /\ Quiet /\ ~plan.failures /\ ~unsettled /\ sub.plan # version
    => sub.scheduled = version

\* The counter, the log, Stripe's meter and the tokens bought tell the same
\* story, whatever interleaves, dies or arrives twice.
UsageAccounted == LedgerBalanced /\ ReportedIsRecorded /\ PurchasesKept /\ ResetOncePerPayment

\* Nobody goes beyond a limit, and nobody gets tokens beyond the allocation for
\* nothing, but by calls that race.
LimitsHoldUnraced == OverageCharged /\ OverrunOnlyRacing /\ BilledWithinLimit

\* The database follows Stripe: one paid subscription, its tier, its status and
\* the block, the price it is charged and the one it will move to.
FollowsStripe == OneSubscription /\ Converged /\ RowFollowsPrice /\ Migrates
=============================================================================
