# Formal models of the Chatbu backend

The repository is a NestJS backend for chat bots: visitors talk to a customer's
bot through a web widget, Messenger, Instagram or WhatsApp; the bot's answers
come from an external gateway (`INGEST_ENPOINT`); the customer's agents can take
a conversation over. State lives in PostgreSQL (Prisma) and, for short-lived
markers, in Redis. Production runs several replicas ("pods") of the same
process: every `@Cron` fires on every pod, every webhook and request may land on
any of them, and almost no handler uses a transaction. Each `await` is
therefore a point where another handler may run, and that is what these modules
are about.

    tlc -workers 2 -config LiveChat_turns.cfg MCLiveChat.tla    # any run below
    tlapm LiveChatProofs.tla                                    # the proofs
    tlapm AppointmentsProofs.tla
    tlapm OtpFlowProofs.tla
    tlapm FiniteSums.tla
    tlapm TokenBillingProofs.tla
    tlapm WorkspaceProofs.tla
    tlapm AccountsProofs.tla
    tlapm ServicesProofs.tla

## 1. Inventory

For every part: the state it keeps, what it does, what it talks to, what is
hard about it, what makes it correct.  Paths are relative to `src/src/`.

| part | state | operations | interacts with |
|---|---|---|---|
| Bot turn pipeline `bot/bot.service.ts` | `CustomerChats`, `CustomerChatDetails` | `chat`, `chatStream`, `findRacedChat`, auto-handover | gateway, subscription, handoff, chat-flow, broadcast |
| Live chat dashboard `report/report.service.ts`, `events/conversation-broadcast.service.ts` | status, `agentUserId`, `agentUnreadCount`, `isDeleted` | `handoverChat`, `sendAgentMessage`, `closeChat`, `deleteChat`, `markConversationRead` | the same rows as the pipeline |
| Auto-close and survey `widget/widget.service.ts` | status, rating | `autoCloseInactiveBotChats`, `autoCloseStaleHandoffChats`, `recordFeedback` | the same rows |
| Owner echo `meta/`, `meta-whatsapp/` | status | `handleOwnerEcho` | the same rows, sent registry |
| Per-chat flow state `chat-flow/` | `PerChatFlowState` (LEAD, BOOKING, HANDOFF, FEEDBACK) | `transition`, `safeTransition`, `getVerifiedPhoneForChat` | lead, booking, bot, widget |
| Handoff roster `handoff/`, `team/` | `TeamMember`, `lastLiveChatAgentId` | `resolveAssigneeId`, `recordLiveChatAssignment`, `updateLiveChatConfig`, `removeMember` | bot, report |
| Reminders `appointment/appointment-reminder.service.ts` | `Appointment.reminderStates` | `dispatchDueReminders`, `claimOffset`, `recordOutcome` | SMS |
| Appointments `appointment/` | `Appointment` | `createFromMcp`, `updateReminderOffsets`, availability | Google Calendar, SMS, chat-flow |
| Leads, consents, codes `lead/`, `integration/booking/` | `LeadPrivacyConsent`, `LeadVerification`, `LeadSmsVerification`, `BookingSmsVerification` | `recordPrivacyConsent`, `requestSmsVerification`, `verifySmsCode`, `submit`, `verifySms` | SMS, chat-flow, widget |
| SMS and its fallback `sms/`, `twilio-status/` | Redis: channel choice, fallback contexts | `sendOtpSms`, `consumeForOtp`, `take` | Twilio, NETGSM |
| Meta inbound `meta/`, `meta-*`, `whatsapp/` | `CustomerChats`, Redis: chat cursor, loop counters, sent ids, disclosure | webhook, `resolveChatId`, `shouldRateLimit`, `recordReply`, `withDisclosure`, echoes | bot, integrations |
| Token usage `subscription/subscription.service.ts`, `events/events.service.ts` | `Subscription`, `TokenUsageLog` | `checkTokenQuota`, `trackTokenUsage`, `purchaseTokens`, ingestion notices | Stripe, bot |
| Billing webhooks `subscription/billing.service.ts`, price plans | tier, status, allocation, `accountBlocked`, `PricePlan` | payment succeeded/failed, subscription updated/deleted, `publishPricePlans`, migrations | Stripe |
| Stripe bootstrap `subscription/stripe-bootstrap.service.ts` | `StripeProduct`, a `SystemSettings` row | `ensureProduct`, `ensureMeter` at every start of a pod | Stripe |
| Visitors `widget/widget.service.ts` | `WidgetVisitor` counters, risk score, block; `ChatFeedback` | `createSession`, `chat`, `chatStream`, `recordFeedback`, `resetDailyVisitorStats` | bot, admin, chat-flow |
| Quotas, files, bots, pages `quota/`, `file/`, `content/`, `bot/` | `Quota.used`, `Storage`, objects, `Content`, vectors, the team lock in a pod's memory | uploads, attachments, deletions, `createBot`, `deleteBot` and its cascade, pages added, edited, dropped, ingested again, failure notices (`LISTEN`) | MinIO, ingestion service |
| Accounts and teams `authentication/`, `team/`, `handoff/`, `admin/` | `User`, `Team`, `TeamMember`, codes and attempt counters in a pod's memory | registration, codes, sign-in, sessions, resets, address changes, deletion and its nightly cleanup, invitations, roster, handover | mail, Google |
| Integrations `integration/` | `Integrations`, page subscriptions, the pod's OAuth client, the gateway's copy, shop codes | connect, leave, deauthorise, `getTokenForBot`, `syncMcpConfig`, `exchangeCodeForToken` | Meta, Google, Shopify, MCP gateway |
| Legal documents `legal-document/` | `LegalDocument`, versions, translations, acceptances | drafts, edits, translations, approval, `publishVersion`, `accept`, sign-up acceptances | authentication |
| Tickets, feedback forms, mail, push, analytics | their own tables | request handlers | - |

Hard behaviour and what correctness means, part by part:

* **Conversation** (pipeline, dashboard, crons, echo). Nothing in the database
  makes the row of a `chatId` unique; a turn reads the row, waits seconds for the
  gateway and writes by id; agents, crons, the survey and echoes write the same
  row meanwhile. Correct: no visitor message lost or stored twice, one row per
  conversation unless two turns really raced, an open human chat has an agent,
  agents write only where they were assigned, the bot falls silent after a
  takeover, the chat returns to the bot only by an old turn, every chat ends.
* **Flow state.** `transition` checks in one query and writes in the next, and
  `safeTransition` swallows refusals. Correct: the flow never claims more than
  the feature has done (an ASSIGNED flow names an agent the row had; a verified
  phone was verified).
* **Reminders.** The cron runs on every pod and on overlapping ticks; the claim
  is atomic, the outcome is a whole-map overwrite with what the tick read before.
  Correct: at most one dispatch per (appointment, offset); exactly one when a
  tick falls in the window and no pod dies.
* **Codes and consents.** Attempts, use and expiry are checked in one query and
  updated in another; a flow marker is written after the SMS has left. Correct:
  a code is used once, at most `MAX_VERIFY_ATTEMPTS` guesses, a verified visitor
  ends in OTP_VERIFIED.
* **Tokens and billing.** Usage is logged and counted in one transaction with a
  unique key for ingestion, but cost is computed from an earlier read, and the
  spending limit refuses after the commit. Stripe events are duplicated and
  reordered. Correct: the counter is the sum of the log, ingestion is charged
  once, limits are exceeded only by races, the database ends where Stripe is.
* **Workspace.** Counters are read, then overwritten by some callers and
  incremented by others; a deletion works on rows, objects and vectors one after
  the other; the lock is the memory of one pod. Correct: the counter drifts only
  for a reason that can be told, and rows, objects, index and tasks agree.
* **Accounts.** One-time codes, attempt counters and sessions are read, then
  written; an invitation is followed over two writes; the cleanup works on a
  list it made before. Correct: an account is its mailbox's and has a team, a
  lock locks, what was restored is kept, what was revoked stays revoked, the
  rotation goes round.
* **Meta inbound.** Webhooks are redelivered and run concurrently; Redis
  helpers check before and record after. Correct: at most N replies a window,
  one cursor per visitor, one disclosure per conversation, our own echo never
  takes a chat from the bot, the owner's always does.
* **Visitors.** Counters and the risk score are computed from a row read before
  the answer. Correct: one browser is one visitor, the counter counts, a block
  stays.
* **Integrations, documents, bootstrap.** Look, then create; check a status,
  then write; the same on every pod. Correct: one row, one published version,
  one product, unless two really raced, and what is outside agrees with it.

`PROJECT.json` lists the hazards at their lines, each with the properties that
would catch it going wrong.

## 2. Plan

In order; each module gets an MC module, its runs and, in a `*Proofs` module,
its theorems.

1. `LiveChat` - the conversation (modelled, checked, proved).
2. `Appointments` implementing `AtMostOnce` - bookings, confirmations and the
   reminder cron on many pods (modelled, checked, proved).
3. `OtpFlow` - codes, attempts, consents, leads and the fallback of a message
   that WhatsApp did not deliver (modelled, checked; `TypeOK`, `ProofsHold`,
   `LimitsHoldUnraced` and `OneCodeAtATime` proved in `OtpFlowProofs`).
4. `TokenBilling` - ledger, quota gate, spending limit, purchases, Stripe events
   in any order, price plans (modelled, checked; `TypeOK`, `UsageAccounted` and
   `LimitsHoldUnraced` proved in `TokenBillingProofs` with the laws of sums in
   `FiniteSums`).
5. `Workspace` - quotas, files, bots, pages (modelled, checked; `TypeOK`,
   `QuotasKept` and the notices of `StoresAgree` proved in `WorkspaceProofs`).
6. `Accounts` - accounts, teams, roster (modelled, checked; `TypeOK`, `AccountsSound`,
   `AccountsKept` and `HandoversFair` proved in `AccountsProofs`).
7. `Services` - composes `MetaInbound`, `Visitors`, `Integrations`,
   `LegalDocuments` and `StripeBootstrap` over the calls of `Requests`: they run
   on the same pods, and a webhook finds its bot through the integrations' rows
   (modelled, checked; `OneConnection`, `DocumentsAreEvidence`, `BootstrapSettles` and
   two parts of `ConnectionsAgree`, `DeauthorizedGone` and `ShopGone`, proved in
   `ServicesProofs`).

Theorems worth proving next: the rest of `StoresAgree` and of `ConnectionsAgree`; that a block holds and a
browser is one visitor (`VisitorsKept`).

Sums over the log are within the prover's reach although the library's induction
theorems, which take an operator, are not: `FiniteSums` states each claim as the
*set* of the subsets it holds for, and takes a smallest counterexample from the
well-founded order of their cardinalities (`StrongInduction`).

## 3. LiveChat

### What it models

One conversation: a `chatId` of one bot and team. Its rows, transcripts, HANDOFF
flow, and every handler that changes them.

| variables | code |
|---|---|
| `status`, `agent`, `unread`, `deleted`, `idle` | `CustomerChats` (`chatStatus`, `agentUserId`, `agentUnreadCount`, `isDeleted`, age of `updatedAt`) |
| `userSaved`, `botSaved`, `spoke` | `CustomerChatDetails`: copies of a turn's message and reply per row; the agents who wrote |
| `billed` | `TokenUsageLog` |
| `flow` | `PerChatFlowState`, kind HANDOFF |
| `turn`, `desk`, `survey`, `echo`, `scan` | the local variables of handlers in flight |
| `creator`, `rivals`, `before`, `taken`, `assignees` | history, read by properties only |

| actions | code |
|---|---|
| `Lookup` .. `PromoteHandoff`, `TurnFails` | `chat()` and `chatStream()`, one action per stretch between awaits that matter |
| `DeskRead`, then `HandoverChat`, `SendAgentMessage`+`ClearUnread`, `CloseChat`, `DeleteChat` | `report.service.ts` |
| `MarkRead` | `markConversationRead` / `markRead` |
| `FeedbackRead`, `FeedbackClose` | `recordFeedback` |
| `EchoRead`, `EchoTakesOver` | `handleOwnerEcho` and its WhatsApp twin |
| `CronScan`, `CronClose` | both crons, on every pod |
| `Age` | time |

Abstractions, all of them named here:

* `idle` has three values: fresh, at least 10 minutes, at least 30. `Age` may move
  one row and not another, which over-approximates time; nothing a property says
  depends on two rows ageing together.
* Two consecutive writes are one action where no other handler can tell them
  apart: the early message and the `updatedAt` touch after it, the appended
  transcript and the totals, the gateway's answer and `trackTokenUsage`.
* Who is assigned by an automatic handover is any agent, or nobody
  (`NobodyToAssign`): how the roster chooses is in `Accounts`.
* `EchoRead` does not say why the echo was not recognised as ours: an owner's
  echo and a missed one of ours do the same from there on.  `MetaInbound` says
  when either happens.
* Message text, attachments, geo data, e-mails, sockets and analytics are left
  out: no stored state depends on them.
* A failed cron query is a cron step that does not happen; a failed query of a
  turn is `TurnFails`, which also stands for quota refusals, gateway errors,
  "spending limit exceeded" and a pod restart.
* `HUMAN_REQUESTED` and `HUMAN_ASSIGNED` are in the enum and in queries but no
  code writes them, so they are not values of `status`.

Every `Turns` element is one message and is sent at most once, every `Desk`
element one request: these two bound the behaviours. `Rows` bounds the rows that
can be created. There is no other bound.

### What the runs show

| run | instance | what it shows |
|---|---|---|
| `live_chat_turns` | 1 row, 2 turns (batch or stream), 1 request of 4 kinds, 1 pod | `TypeOK`, `MessageSavedOnce`, `LiveChatHasAgent`, `BackToBotOnlyByStaleReopen` |
| `live_chat_agents` | echo takeover on, 1 row, 1 turn, 2 requests, 2 agents, 1 pod | `AgentsSpeakWhereAssigned`, `AssignedFlowNamesAssignee`, `UnreadNeedsHuman`, `BotSilentAfterTakeover` |
| `live_chat_forks` | 2 rows, none at first, 2 turns, 1 request | `ForksOnlyFromRacingCreates`, `ReplyAnswersBilledTurn` |
| `live_chat_liveness` | fair, echo takeover on; 1 row, 1 turn, 1 request, 2 pods | `ChatsEnd` |

The instances are small because each hazard needs few actors: a lost or double
save needs one turn and one interferer, a fork two turns and two rows, a stale
reopen two turns and an agent or the auto-handover, a reassignment two agents.
Two pods matter only to liveness (a cron of one closing while the other holds an
old scan); for safety one pod's old scan against everybody else is the same
hazard, and the theorems below hold for any number.

With streaming, a client that waits for its answer can still fork its own
conversation: `chatStream()` ends the response and stores the turn afterwards,
so the next turn races the creation of the row; `Answered` says so.  With
`Overlap = FALSE` every client waits.

Four sentences in the code promise more than it keeps; the properties above
state what is kept:

* The bot cron excludes chats with an agent (`widget.service.ts:540`), but
  updates by id (`:560`): a chat handed over between its query and its update is
  closed.  No property claims otherwise.
* The bot does not answer once a human has the chat (`bot.service.ts:688`), except
  in a turn that was waiting for the gateway (`:967`): `BotSilentAfterTakeover`.
* The optimistic lock guards against concurrent handovers (`bot.service.ts:1034`),
  but flow and row may still name two agents: `AssignedFlowNamesAssignee` asks
  for an agent the row had.
* Chats without a message for 30 minutes are closed (`widget.service.ts:579`), but
  opening the conversation, or an owner's echo, bumps `updatedAt`: the premise of
  `ChatsEnd`.

### Fairness

`FairSpec` assumes that time passes (`Age`) and that each cron keeps running on
each pod (`Cron`, weakly fair: the Nest scheduler starts it every minute, and a
tick that found rows goes on to close them). Nothing is assumed of visitors,
agents, owners or turns in flight: a turn may hang for ever (the gateway client
has no timeout), an agent may never answer.

`ChatsEnd` is about a chat that people eventually leave alone. It has two premises:
agents do not keep opening the conversation for ever (`markRead` bumps
`updatedAt`), and with `META_ECHO_TAKEOVER_ENABLED`, or a coexistence number, the
owner does not keep answering it from the Meta app for ever (every such echo
makes the row a human's again and bumps `updatedAt`). Without either the property
is false. A third restriction is the instance's: turns and requests are finite.
Everything they leave behind, a turn that hangs, a request half done, an echo
that was read and never applied, may come to anything at any time.

### What is proved

`LiveChatProofs` proves, for any rows, turns, requests, agents and pods, the
type invariant (`TypeCorrect`) and every safety property of the passing runs,
each as a theorem `Spec => ...`. They rest on `IInv`, the inductive
invariant (`Invariance`):

| conjunct | why it is needed |
|---|---|
| `HandlesInv` | a handler in flight holds a row that exists; without it a write by id could create state out of nothing |
| `StepsInv` | what a turn's place says of its `early` flag, its row and whether it is billed |
| `SavedInv` | how many copies of a message there are at each place of its turn, and that they are in the turn's row: `MessageSavedOnce` only speaks of the outcome |
| `ReplyInv` | a reply exists only after the append, beside its message |
| `ForkInv` | any two live rows were created by racing turns, and a turn about to create one knows no row or is a rival of all created since it looked |
| `SilenceInv` | a turn that can still answer in a human's chat, or still reopen it, was in flight at the takeover |
| `AssignedInv` | `agent` is in `assignees`, and so is what a request or turn in flight has checked |
| `TakenInv`, `HumanInv` | who may count a message as unread, and which rows have been with a human |

Assumptions: the named `ConstantsAssumption` of `LiveChat`, which TLC evaluates on
every run. The proof that a step preserves a conjunct has one step per action;
what an action does to one turn or one row is stated once as an effect lemma.

Model-checked only: `ChatsEnd`, since liveness under fairness is out of the
prover's reach.

## 4. Appointments

### What it models

`Appointments` is `createFromMcp` and `updateReminderOffsets` of
`appointment.service.ts` and the whole of `appointment-reminder.service.ts`:

| code | module |
|---|---|
| `Appointment` rows, unique on (botId, calendarEventId) | `created` |
| `reminderStates`, an absent key | `states`, the value `"none"` |
| `appointmentReminderOffsets` of the bot | `enabled` |
| a request of the MCP server, retries included | `hop`: `Insert`, `InsertRefused` (P2002), `InsertFails`, `Confirm`, `Book` (the BOOKING transition, refused or not), `HopDies` |
| one firing of the cron on one pod | `pc`, `at` (its `now`), `seen` (the rows it read), `todo`, `cur`, `outcome` |
| `findMany` with the bot's offsets, and the tests of the loop that depend only on what was read | `TickScans`, `Due` |
| `claimOffset` | `ClaimWon`, `ClaimNotWon`: refused, failed, or committed with the answer lost |
| `dispatchOne` | `Send`: accepted, rejected, or accepted with an error |
| `recordOutcome` | `Record`: the tick's copy of the row's whole map with one key set, or nothing if the write fails |
| a pod that dies, a query that throws | `TickDies` |

Every `await` is a step of its own; ticks overlap, on the same pod or another.
Time counts units of `DUE_WINDOW_MS`.  `tried`, `delivered` and `steady` are
history: how often a message was handed to `SmsService`, which ones the provider
accepted, and which reminders had a row and an enabled offset during the whole
time in which a tick could find them.

`AtMostOnce` is what the senders promise: a message is claimed once and for
ever, and a claimed message is handed over at most once.  A confirmation is
claimed by inserting the row, a reminder by its key (`Claimed`).  The atomic
claim alone does not give this: `recordOutcome` writes back a map that may be
older than another tick's claim.  That this never undoes a claim or an outcome
(`OutcomesAreFinal`) rests on `TimeAssumption`: two offsets of a booking are
further apart (1440 and 60 minutes) than two windows and the age a tick can
reach.  With a third offset close to another, or with a cron that catches up on
missed slots (the mutation `DueOrMissed`), it is false.

### What the runs show

| run | instance | shows |
|---|---|---|
| `appointments_pods` | 1 booking, 2 offsets, 2 ticks, 2 requests, failures | `TypeOK`, `OutcomesAreTrue`, `ImplementsAtMostOnce`, `OutcomesAreFinal` |
| `appointments_ontime` | as `pods`, nothing fails, 1 request, ticks start at most 2 windows apart | `SlotGetsOneAttempt`, `ClaimsAreResolved` |

Bounds: `Window = 1`, `MaxTick = 1` and offsets 4 units apart, the tightest case
`TimeAssumption` admits.  `Horizon` lies past the last moment at which
`SlotGetsOneAttempt` asks for an attempt (in `pods`, past every tick that finds a
reminder due).  `Scan` is larger than any distance between a tick and the booking,
as in the code (25 hours against 24).  Two ticks suffice for a race over a row;
several bookings share nothing but the loop that works on them one after the
other, whose delays the clock and the interleaving already contain with one.
The theorems below hold for any number of either.  Ticks, and requests
that report the same booking, are interchangeable (`SYMMETRY`, not in the run
with liveness).  The clock is discrete, so a gap of `2 * Window + 1` units would
still hit every window; the real bound is `2 * Window`, which is the one the
run uses.  Beyond it a late tick loses the slot (`appointment-reminder.service.ts:94`
looks one window back, and the cron's period is as long, `:7`).  Runs with failures do
not follow `steady`, which only the runs without failures ask about.

The comment at `appointment-reminder.service.ts:228` fears that after a failed
`recordOutcome` the next tick sends again.  It does not: the claim's `pending` is
still in the row, and `ImplementsAtMostOnce` covers exactly that case.

### Fairness

`FairSpec` assumes that a started tick goes on (`TickGoesOn`, weakly fair): its
loop awaits calls that return or throw.  It says nothing of requests, of new ticks
or of the clock.  The clock waits for ticks (`Advance`): a running tick is at
most `MaxTick` old, and a tick starts at least every `Period`.  The first is
the named bound above; only `SlotGetsOneAttempt` needs the second.

### What is proved

`AppointmentsProofs` proves, for any bookings, offsets, requests, ticks and
bounds that meet `TimeAssumption` and `NamesAssumption`: `TypeCorrect`,
`OutcomesTrue`, `OutcomesFinal`, `Refinement` (the specification implements
`AtMostOnce`), and `SlotsGetOneAttempt`: `SlotGetsOneAttempt` under `OnTime`, which
says that ticks start at most two windows apart, and that every offset is further
from the appointment than a window and within the scan (the values of the code meet
it, with a cron that is never late).  The inductive invariant `IInv`:

| conjunct | why it is needed |
|---|---|
| `Ages` | a tick under way is at most `MaxTick` old, so two of them started close together |
| `Lists` | what a tick still has to do is due at its start |
| `Owners` | a busy tick is alone with its reminder, whose key is `pending` and which was not handed over before `Send` |
| `Copies` | a tick's copy differs from the row only at reminders whose target is within `Window + MaxTick` of its start |
| `Rows`, `Confirmers` | what the row, and the request between insert and confirmation, say of the messages handed over |

The argument: a key of the same row that changed since a tick read it has its
target near the tick's start (`NearbyTicks`, `Copies`); the key the tick records
has too (`Owners`); two offsets cannot both (`OffsetsApart`); so recording changes
one key (`RecordEffect`), and a step claims an absent key, resolves a pending one,
or leaves the rows alone (`RowSteps`).  The theorems about the rows and the
refinement follow from that.

`SlotsGetOneAttempt` needs a second invariant, `SlotInv`: the last tick started at
most `Period` ago (`Paced`), and for each slot of `steady` (`Slot`), once a tick has
started in its window, the reminder is claimed, or a tick that will find it due is
about to scan, or has it on its list (`Served`); who has claimed it hands it over
(`HandedOver`).  A tick is over `MaxTick` after it started, so past the window the
slot has had its attempt.

Model-checked only: `ClaimsAreResolved`, a liveness property.

Left out: the deletion of a bot with its appointments (the cron's writes then
match no row), the wording and channel of a message, the working-hours window.

## 5. The other modules: conventions

The modules below share one way of modelling.  A *call* is one request, webhook,
notice, cron run or dashboard action on some pod; it is made at most once, and its
steps lie between the awaits at which others can change what it has read.
`call[q].pc` names its next step, and `call[q].since` the calls that were over
when it began: two calls *overlap* when neither was over when the other began.
Most properties say what holds for calls that follow one another and name the
overlaps that break it, so that both halves are checked.

What the calls of an instance are is its *plan*, an element of the constant
`Plans`, chosen by `Init`; a run checks all plans of its `Cases` at once.  A plan
also bounds what the environment may do (`months`, `batches`, `windows`, `days`,
`repeats`, ...), says whether pods die and other services fail (`failures`), and in
`Services` which call follows which (`after`).  Order, interleaving and outcomes
stay open.  Two calls suffice for a race and a third for what it does to someone
else; plans have three or four calls.  Outside services are environment: they
answer in every way the code tells apart.

These specifications state no fairness and have no liveness property: every
promise they are about is of the form "never, unless".  Deadlock is not checked,
because an instance ends when its calls are over.

Several properties of one kind are stated apart, each with its comment, and
conjoined under the name a run lists (the part that is an action formula makes the
conjunction a `PROPERTY`, its state formulas under `[]`).

## 6. OtpFlow

| variables | code |
|---|---|
| `codes` | `LeadVerification`, `LeadSmsVerification`, `BookingVerification`, `BookingSmsVerification`; a code is its position |
| `consents`, `leads` | `LeadPrivacyConsent`, `BotLeads` |
| `flow` | `PerChatFlowState`, kinds LEAD and BOOKING |
| `pref`, `pending` | Redis `lead:otp-channel:*`, `otp:wa-sid:*` |
| `tokens` | the verification tokens signed (they live nowhere but with the client) |
| `call` | requests in flight |

| actions | code |
|---|---|
| `RequestCode`, `Issue`, `Send`, `NoteSent` | `requestVerification`, `requestSmsVerification` of both services |
| `Callback`, `Claim` | `twilio-status.controller.ts`, `take`, and the flow's own entry point again |
| `LookUp`, `Try`, `LookUpBooking`, `MarkUsed`, `Grant` | `verifyCode`, `verifySmsCode`, `verify`, `verifySms` |
| `RecordConsent`, `BindConsent`, `SetOtpChannel`, `Submit`, `Book` | consents, the choice of channel, `submit`, `createFromMcp`'s transition |

Abstractions: time counts units of the code's minutes scaled to the bounds, with the
order of the windows kept, and all of it lies within the life of a Redis key.
`transition()` is atomic here (its race is LiveChat's subject).  A provider's
failure is one of three kinds: retried, not retried, or ambiguous.

Run `otp_codes`: fourteen plans of three calls, two chats (one without a widget), two
addresses (one plan gives both), `MaxTries = 1`, at most 2 codes a window, clock up to 2.  Groups:

* `ProofsHold`: `ProvenPhones` (used codes, tokens, remembered phones, flow states
  and leads go back to a code that was sent to the address and given back),
  `Remembered`, `LeadsCarryConsent`.
* `LimitsHoldUnraced`: `TokenTwiceOnlyRacing`, `TriesBounded`, `RateBounded`,
  `SpacedUnlessSwitching`.
* `OneCodeAtATime`: `RescuesOnlyRace`, `ChoiceUsedOnce`, `StandDown`.

Met while modelling: a second phone in the same chat overwrites the phone of a
consent that is verified already (`lead.service.ts:1236`, against
`docs/LEAD_SMS_VERIFICATION.md:105`); `take` is a GET and a DEL
(`otp-delivery-fallback.service.ts:107`), so a repeated callback can send two codes
although `twilio-status.controller.ts:56` counts on it not to.

### What is proved

For any plans, chats, addresses, requests and bounds that meet
`SettingsAssumption`: `TypesHold` (`TypeOK`), `PhonesAreProven` (`ProvenPhones` and
`LeadsCarryConsent`), `ProofsAlwaysHold` (`ProofsHold`, which adds `Remembered`),
`LimitsAlwaysHold` (`LimitsHoldUnraced`) and `OneCodeAlways` (`OneCodeAtATime`).
`OtpFlowProofs` states first what each action changes, one lemma an action, and that no
step takes back a row, its author, a used mark or a token (`NextSteady`), then derives
where a new token, flow state, consent or lead comes from, and then the inductive
invariant:

| conjunct | why it is needed |
|---|---|
| `Types`, `Begun`, `Holding`, `Ranges` | types that do not depend on the state; a verification under way names a code for its address; nothing points past its table |
| `Proofs` | a call that reaches `Grant` typed the code it found, which was sent; a lead under way showed a token |
| `Carrying` | the consent a gate found is still the chat's when the lead is written |
| `Memory` | in which chat and on which consent each code was asked for; a consent's phone was sent a code there |
| `LeadFlows` | why the lead flow is in its state: a consent exists, a lead was sent, the phone it names was asked for |
| `Askers` | no request for a code began after the verification of that code was over |
| `Verifieds`, `Granted` | a verified consent, and a token, leave their flow in OTP_VERIFIED unless one of the excuses of `Remembered` holds |
| `Once` | no verification goes on with a code that gave a token to a call that had ended when it began |
| `Requesting`, `Counted` | a row's counter is at least the number of calls that have tried it; what a verification knows of earlier tries was below the limit when it looked |
| `Unissued`, `Room` | a call before `Issue` has no code; the codes of the window it knows of leave room for its own |
| `Spaced` | a code within the cooldown of one the call knows of, and the mark `whatsapp_used`, go back to a choice of WhatsApp |
| `Rescued` | a key belongs to a message that went out; unless something fails, a claimed message has lost its key, so a later callback is about another |
| `Choices` | a code that went out by WhatsApp used its choice up: the mark is gone, or another choice was counted since |
| `Authors`, `Bookings` | a code is its author's; the flow of a booking that noted its code waits for it, dated no earlier than the code, until a booking's code was given back or another booking noted one |

The crux is `GrantSettles`: a request that noted its code before the visitor gave it
back has moved the flow past CONSENT_OK, so the flow is in OTP_SENT or verified;
the consent `verifySmsCode` marks is the newest with the phone, which is the
request's own unless the phone or the chat is shared or the chat has two consents.

The limits compare what a call does with what had ended when it began (`since`).
That set never changes once the call has begun, and a call that has ended adds no
code, tries none and reads no choice (`EarlierCalls`), so the counts a gate takes
from the tables bound the counts of the earlier calls for good: each earlier call
owns a row the gate counted (`GatesCount`), or an attempt the row counted
(`TriersCounted`).  `StandDown` is an action property: at the gate
`getPendingOtpFlowForChat` has read the flow that `Bookings` speaks of.

All properties of the run are proved.

## 7. TokenBilling

| variables | code |
|---|---|
| `sub`, `blocked`, `level` | `Subscription`, `User.accountBlocked`, the tier of the team's quotas |
| `logs` | `TokenUsageLog` |
| `stripe`, `events`, `outstanding`, `meter` | Stripe: subscriptions, events sent and not yet acknowledged, reported usage |
| `handling` | payments being processed on some pod |
| `version`, `publishing`, `usable` | the ACTIVE price plan, plans in the making, their prices |
| `resets`, `repeats`, `disturbed`, `unsettled` | history |

| actions | code |
|---|---|
| `CheckTokenQuota`, `Answer`, `ReadUsage`, `CommitUsage`, `CheckLimit`, `ReportUsage`, `IngestionCompleted` | a turn or notice: `checkTokenQuota`, `trackTokenUsage` |
| `ReadPurchase`, `WritePurchase`, `LogPurchase` | `purchaseTokens` |
| `Subscribe`, `CreateAtStripe`, `PersistSubscription` | `createSubscription` |
| `ReadPayment`, `ActivatePremium`, `RenewPremium`, `MigratePrice`, `PaymentFailed`, `SubscriptionUpdated`, `SubscriptionDeleted`, `DropHandler` | the webhooks, and a pod that dies in one |
| `CreatePrices`, `PublishPlans`, `PublisherDies`, `SyncStripeToActive` | `price-plan.service.ts` |
| `PayFirst` .. `EndOfPeriod`, `NextMonth`, the owner's settings | Stripe, time, the owner |

One token stands for a thousand and costs 1; a month is one billing period.  Run
`billing_ledger`: thirteen plans, at most two months, three batches of events, two
versions of the price plans.  Groups:

* `UsageAccounted`: `LedgerBalanced` (the counter is the sum of the log since the
  last reset), `ReportedIsRecorded`, `PurchasesKept`, `ResetOncePerPayment`.
* `LimitsHoldUnraced`: `OverageCharged`, `OverrunOnlyRacing`, `BilledWithinLimit`.
* `FollowsStripe`: `OneSubscription`, `Converged`, `RowFollowsPrice`, `Migrates`.

Met while modelling: the spending limit adds the turn's cost to a sum that already
holds it (`subscription.service.ts:704`), so it refuses early, never late; that is why
`BilledWithinLimit` holds although turns race.

Met while proving, each a statement the runs' small instances had let pass:

* A payment that is handled late reads the period from Stripe as it is by then, and
  the update sent with that payment takes the row back to an earlier period
  (`billing.service.ts:160`, `:391`).  Usage that had been reported before the newer
  period then counts again: `BilledWithinLimit` speaks of the latest period the row
  has had (`newest`), for which it holds.
* A reset in the middle of a turn leaves it with nothing used: `OverageCharged` and
  `OverrunOnlyRacing` say so.  A row keeps the tokens bought when it was written
  (`bought`), because a renewal clears them.
* `OneSubscription` is true of the plans of the run, with at most two calls of
  `createSubscription`, and no more: a third that begins when the first two are over
  may pay while both of them are live.

### What is proved

For any plans, calls, amounts and limits that meet `PlanAssumption`, so for any number
of turns, months, batches of events and versions: `TypeCorrect` (`TypeOK`),
`UsageAccountedHolds` (`UsageAccounted`), `LimitsHold` (`LimitsHoldUnraced`).  One
lemma per action says what it does; `NextCases` what any step does: one call moves,
or the calls and the log stay and the row keeps what it is charged by, has its month
reset, or gets another limit or allocation.  The inductive invariant (`IInv`):

| conjunct | why it is needed |
|---|---|
| `Types`, `Ranges` | the fields of every row, event and local state; no id points past what Stripe has |
| `Begun` | a call began after calls that are over, so that an overlap is never undone (`RacedStays`) and a step makes every call under way one that raced (`StepRaces`); a call is where its kind goes |
| `Rows` | a row is written once an ingestion; a call before or at the meter has a row that costs; the last reset is a length the log has had |
| `LedgerBalanced`, `PurchasesKept`, `OverageCharged`, `OverrunOnlyRacing` | inductive with the others: the row and the counter are one transaction |
| `Buying` | a purchase about to write has read the tokens bought as they are, or raced |
| `Allotted` | the allocation is that of the tier, but for an administrator's |
| `Beyond` | a turn under way was let in, and charged, by the account it will be written to, or raced |
| `Limited` | the rows reported *or about to be* are within the limit, the limit a turn read is the limit still, and the period never goes beyond the latest |
| `Once` | while no event is handled twice, each payment has one handler, and a reset one event that has had its effect |

`Limited` is the step from a check to what it protects: `CheckLimit` compares the sum
of *all* rows of the period, its own included, with the limit it read at the start, so
that whoever passes last has counted everybody who passed before.

Model-checked only: `FollowsStripe`, because it is not true of every plan, so that no
theorem can state it: `OneSubscription` fails for three calls (above), and `Migrates`
for three versions of the price plans in two months.  What breaks it: nothing but a
migration clears `scheduledPricePlanId` (`billing.service.ts:281`), the handler of a
deleted subscription included.  A subscriber scheduled for version 2 who cancels before
the renewal, and subscribes again once version 3 is ACTIVE, starts at version 3 and is
taken back to version 2 by the next payment that is handled.  TLC finds both; the run
has at most two calls of `createSubscription` and two versions, for which they hold.

## 8. Workspace

| variables | code |
|---|---|
| `bot`, `botUsed`, `chats` | bots, the BOT quota, whose chats are listed |
| `cascade`, `sweep` | where `performBotCascadeCleanup` is for each deleted bot; the files it has still to take, the one in hand, and those whose row it could not hide |
| `file`, `used`, `lock` | `Storage` rows and objects, the FILE quota, the team lock in a pod's cache |
| `page`, `vectors`, `task`, `notices` | `Content`, the index, the ingestion service's tasks, notices of failures on their way to each pod |

Actions follow the code's handlers: `uploadSingle` and the agent's and widget's
attachments, the three deletions, `createBot`, `deleteBot`, pages added one by one or
by list, dropped, edited and ingested again, the ingestion service's steps, and the
notice on each pod.  A page counts 1 in the quota, a file its size.

Object and row are two awaits wherever a file goes, and two steps here: in `delete`
(`DeleteObject`, `DeleteRow`), in `deleteChatAttachment`, which hides the row whether
or not the object went (`DeleteObject`, `HideAttachment`: `file.service.ts:760`,
`:765`), in `deleteAll`'s loop (`DropObject`, `DeleteNext`) and in the loop of the
bot's cascade (`SweepObject`, `SweepRow`: `bot.service.ts:347`, `:348`).  A pod may die
and a store may fail between the two.  The cascade lists the bot's files
(`FindFiles`), goes through them, then hides the contents (`CascadeContents`), the
chats (`CascadeChats`) and asks the service to drop the bot's index, which may
answer that it knows no such endpoint (`CascadeIndex`).  A row the loop cannot hide is
logged and skipped; a step that throws ends the cleanup where it is.

`editContent` writes the body it is sent.  So an edit names the page it is for and the
address it gives it (`to`), which may be another one: the row moves there, nobody looks
for a row that has it, and the vectors that are dropped are those of the *new* address
(`content.service.ts:385-403`).  Those of the old one stay in the index, counted.

Run `workspace`: nineteen plans of three calls, each without and with failures (of
storage, of the ingestion service, of pods), two pods, two bots, three files, two
pages.  Groups:

* `QuotasKept`: `UsageExplained`, `OverfullOnlyRacing`, `BotsWithinQuota`.
* `StoresAgree`: `ListedHasObject`, `CleanupComplete`, `OneRowPerPage`, `NoGhosts`,
  `IndexedIsThere`, `NoticesHitTheirOwn`.

What these excuse is what the code leaves open, and named one by one.
`ListedHasObject`: only a file that a deletion or a cleanup has in hand, or has left
between its object and its row, is listed without an object.  `CleanupComplete` excuses
no plan for its failures: a cleanup that has come to its end has left nothing listed
that was there before, page, chat or file, but the files whose own row could not be
hidden (`sweep[b].kept`); a cleanup that stopped makes no claim.  `OneRowPerPage` and
`IndexedIsThere` name the edit that gives two rows one address (`MadeOneByEdit`).

`PlanAssumption` asks of a plan what the code guarantees: an upload and `createBot`
make rows of their own (`OwnRows`), and the single deletions are about one file.

Met while proving, each a statement the runs' small instances had let pass:

* `deleteChatAttachment` hides a row and subtracts its size; `delete` and `deleteAll`
  do not look at `isDeleted` (`file.service.ts:158`, `:302`) and subtract it again.
  `UsageExplained` names this as one more reason of a drift (`Twice`).
* A quota may be lower than what is stored already, when a subscription has ended: it
  binds only what is added, and `OverfullOnlyRacing` says so.

### What is proved

For any plans, calls, files, bots, pages and pods that meet `PlanAssumption`:
`TypeCorrect` (`TypeOK`), `QuotasHold` (`QuotasKept`) and `NoticesHold`
(`NoticesHitTheirOwn`, an action property).  The inductive invariant (`WorkspaceInv`):

| conjunct | why it is needed |
|---|---|
| `Types`, `Places`, `PageTasks` | the fields of every row and local state; a call is where its kind goes and keeps rows there are |
| `TasksEnd`, `Sinces`, `Noticed` | whoever dispatched a task is done; what was over when a call began stays over, so that two calls on their way overlap; a notice is of a failed task |
| `NewBots`, `BotsCounted` | the bot of a creation is new; while no two calls about bots overlapped, the row and the counter differ by the one call on its way |
| `Cleared`, `Made` | a cleanup is of a deleted bot; every row was there at first or an upload stored it |
| `Lost` or `Truth` | until something is lost that `Excused` names: what is stored and not counted (`Uncounted`) is kept, what is taken away and still counted (`Owed`) is not, a hidden row was hidden by a deletion that keeps it, and whoever overwrites the counter has read it as it is |
| `Lost`, a dead upload, or `Balance` | the counter is the size of what is `Booked` plus the pages in the index, or more by what dead calls left counted |
| `Fitting`, `Within` | an upload past its check fits, unless uploads raced; so what is kept fits, or is no more than at first |

The crux: two calls on their way overlap, so before anything is lost a call that
overwrites the counter is the only one of those that count.  Every step then leaves
the books as they are (`Stands`), or stores, counts, takes away or pays off one set of
files (`Effects`), and the sums follow from `FiniteSums`.

Model-checked only: the parts of `StoresAgree` about rows, objects and the index
(`ListedHasObject`, `CleanupComplete`, `OneRowPerPage`, `NoGhosts`, `IndexedIsThere`).

## 9. Accounts

`user`, `team` and `member` are the rows, `mailed` the codes an address was sent,
`tries` and `locked` the attempt counters and locks in a pod's cache, `spent`, a history
variable, the wrong answers whose count began anew.  The actions are the
handlers of `authentication.service.ts`, `account-cleanup.service.ts`,
`team.service.ts`, `handoff.service.ts` and the user operations of
`admin.service.ts`, split where they await.  A user makes at most one team; the
grace period passes at any time.

Counters and locks live `LOCK_TTL_MS`, fifteen minutes from their last write
(`authentication.service.ts:421`, `:439`, `:446`, and the same constant in the other
five handlers).  There is no clock in the model: each may expire at any time
(`CountExpires`, `LockExpires`), which includes every timing the code has, and then
guessing starts again.  So the locks slow guessing down and do not bound it, and
`GuessesBounded` says no more than what they give: *since the count last began anew*,
by an expiry or a right answer, a pod has taken no more wrong answers of a kind about a
subject than the lock allows, unless two of them overlapped.

Run `accounts`: twenty-four plans of up to four calls, three users, three addresses,
two pods, `MaxTries = 2`, counters and locks
that expire.  Groups:

* `AccountsSound`: `VerifiedMailbox`, `TeamForEveryone`, `PendingForStrangers`.
* `HandoversFair`: `RotationFair`, `AssigneeActive`.
* `AccountsKept`: `GuessesBounded`, `OneResetPerCode`, `LoginRestores`,
  `RefreshRevivesOnlyRacing`, `RestoredIsKept`.

Run `accounts_cascade` ends in a counterexample to `ManagedTeamKept`:
`permanentlyDeleteUser` says it deletes a team only if nobody else is active in it
(`account-cleanup.service.ts:78`), skips it, and then deletes the owner's row, which
takes the team along (`schema.prisma:97`, `onDelete: Cascade`).

Met while modelling: `activateRegistration` answers with a refresh token it does not
store; an administrator's restore keeps `deletionScheduledFor`; an account an
administrator creates ignores pending invitations and has no default agent.

`PlanAssumption` asks of a plan what the code guarantees: the accounts there are at
first have addresses of their own (`User.email` is unique), and a member has a team
(`Populated`).  `Users` is finite.

Met while proving, each a statement the runs' small instances had let pass (two of the
plans are the counterexamples, kept as cases):

* `register` and `googleLogin` look an invitation up, and take it two writes later
  without looking again (`authentication.service.ts:262`, `:329`).  Two sign-ups with
  one address that overlap can take the same row, when the first account's address
  moves before the second is created: the second overwrites its `userId`, and the
  first has no team.  `TeamForEveryone` and `AssigneeActive` name it (`SharedRow`).
* An address that two teams invited, and that took one of the invitations, leaves the
  other one pending: `PendingForStrangers` says so, and now speaks of calls about that
  address only.
* `requestAccountDeletion` looks at `isDeleted` and writes later.  An account that is
  marked in between, with an old date that an administrator's restore has kept, then
  gets a new one; a cleanup that has listed it deletes it all the same.  So
  `RestoredIsKept` counts the request among the `Restorers`.
* `VerifiedMailbox` let any call about the address stand for the proof.  It now asks
  for a call that was about *this* account: the provider's or an administrator's word
  (`Vouched`), or a code it gave back that was sent to the address it has (`GaveCode`).

### What is proved

For any plans, calls, users, addresses, pods and limits that meet `PlanAssumption`:
`TypeCorrect` (`TypeOK`), `SoundAccounts` (`AccountsSound`), `DeletionGuarded`
(`RestoredIsKept`), `SessionsStayRevoked` (`RefreshRevivesOnlyRacing`), `KeptAccounts`
(`AccountsKept`) and `FairHandovers` (`HandoversFair`), that is everything the run
checks.  The inductive invariant (`IInv`):

| conjunct | why it is needed |
|---|---|
| `Types`, `Places` | the fields of every row and local state; a call is where its kind goes, and its place says what it holds |
| `Accounted`, `Known`, `Sinces` | a live account has an address, an active row a user; who is referred to has existed, so a new account is nobody's yet; what was over when a call began stays over |
| `Apart`, `Codes`, `Verifying`, `Mailbox` | one account for an address; a call that is about to verify or to move an address has given back a code that was sent there |
| `OwnRow`, `OneRow`, `NoRow`, `Owned` | whose row is whose: an owner's has no address, nobody has two, who is between account and team has none, every team has its owner's row |
| `Joining` | the invitation a sign-up found is still pending, or was taken by another one, or withdrawn, meanwhile |
| `Inviting`, `Uninvited`, `Taken` | an invitation is written for a stranger; a sign-up that found none leaves none behind; what was taken does not wait |
| `Doom`, `Signed`, `Renewing` | what the cleanup, a login and a refresh read a moment ago is still so, or a call that undoes it overlaps |
| `Resets` | a reset code belongs to one account, is used up by the call that set a password with it, and whoever else read it overlaps that call |
| `GuessInv` | while the wrong answers on a pod about one subject follow one another, the counter, what a call on its way has read of it, or the lock, covers all of them since the count began anew |
| `LastIs`, `Rotates` | the team's last agent is the one of the latest handover, when nothing came between |

The argument has three layers.  `Base` says what a call holds at each place.  `Stepped`
describes every step once: how its own call moves (`Turn`), and what may become of
accounts, codes, rows, teams and counters (`UsersMove`, `OutboxMoves`, `MembersMove`,
`TeamsMove`, `CacheMoves`); one lemma an action shows that it is such a step.  Each
part of the invariant is kept by such a step, whichever action took it.  The excuses
come from one fact: two calls on their way overlap (`RacingNow`), and go on having
overlapped (`RacingStays`).

Model-checked only: `ManagedTeamKept`, which is not true.

## 10. Services

`Requests` is what the five modules share: `plan`, `call` and the steps of a call.
Each module has its variables, its actions and its properties, and `Services` runs
them together: a step of one leaves the others' variables alone, and a webhook is
taken only where the rows of `Integrations` route it (`Routed`), which
`AnswersOnlyConnected` is about.

| module | state | actions |
|---|---|---|
| `MetaInbound` | conversations, chat cursor, loop guard, last replies, disclosure, sent ids, voice minutes, the review's test contact | message events of Messenger, Instagram, WhatsApp and the legacy adapter, echoes (own, agent's, owner's), the dashboard's takeover, message and close, keys that expire |
| `Visitors` | `WidgetVisitor`, session tokens, feedback in three places | sessions, both transports of a message, block and unblock, the nightly reset, feedback |
| `Integrations` | rows, page subscriptions, the pod's OAuth client, the gateway's copy, shop codes | connecting, leaving, deauthorisation, CRUD with the sync, token refresh, schedules, shops |
| `LegalDocuments` | documents, versions with source and translation, acceptances | the administrators' handlers, acceptances, sign-up |
| `StripeBootstrap` | products, meters, the rows that name them | `ensureProduct`, `ensureMeter`, somebody's hand in Stripe's dashboard |

Abstractions: the bot's turn takes its time, answers or fails (LiveChat models
it); chat ids are minted from the millisecond and are distinct here; the review's
test contact has a cursor of its own; timers (echo window, loop guard, idle window)
run out at any moment within the plan's `windows`; the disclosure's week never ends.

A row of `Integrations` names its bot twice, as in the table: in the column (`bot`) and in
its configuration (`cfg.bot`), and the code is not of one mind which of them counts.

* Who connects looks in the configuration (`google-calendar.service.ts:321`,
  `meta-embedded.service.ts:201`, `whatsapp-embedded.service.ts:168`), and writes both;
  a shop is looked for by its type alone.  `createIntegration` looks in the column and
  writes what the client sends (`integration.service.ts:28`, `:33`, `:57`).
* `updateIntegration` puts what the client sends in the place of the whole configuration
  (`integration.service.ts:93`): bot, page, tokens, who granted it.  `Config` is all that
  may be sent, and a call that sends none (`None`) leaves what is there.
* Whose page it is (`fb`) is known unless Facebook did not say
  (`meta-embedded.service.ts:112`) or a client did not send it; a deauthorisation finds
  the rows that name the person, and no others (`CreatedBy`).
* A webhook routes to a row of its channel, or of the manual predecessor
  (`Answering`: `metabusiness`, `instagram`, `whatsapp_manual`), that says it is
  connected and has its bot and its token (`fit`); when the channel is disconnected, the
  predecessor goes on answering (`meta-embedded.service.ts:319-345`,
  `whatsapp-embedded.service.ts:252-262`).

Run `services`: 63 plans (12 of channels, 9 of visitors, 20 of integrations, 11 of
documents, 8 of the bootstrap, 3 of shops) of up to four calls, one contact, two
bots, one page, one document, two replies a window.  Groups:

* `AnswersBounded`: `DisclosedOnce`, `DisclosedUnlessLost`, `OneThreadUnlessRacing`,
  `BudgetOverrunOnlyRacing`, `RepeatedOnlyRacing`.
* `EchoesUnderstood`: `OwnEchoTakesOverOnlyEarly`, `AgentLineOnce`, `OwnerSilencesBot`.
* `VisitorsKept`: `OneVisitorUnlessRacing`, `CountExplained`, `DailyLimitOnlyRacing`,
  `FeedbackAgrees`, `BlockedUntilUnblocked`.
* `OneConnection`: `OneRowUnlessRacing`, `CodeOnceUnlessRacing`,
  `ForeignTokenOnlyRacing`, `ReconnectKept`.
* `ConnectionsAgree`: `SubscribedUnlessLeft`, `DeauthorizedGone`, `ShopGone`,
  `GatewayCurrent`, `AnswersOnlyConnected`.
* `DocumentsAreEvidence`: `OnePublishedUnlessRacing`, `ServedNoticeParses`,
  `ApprovedWasSeen`, `AcceptanceKept`, `AskedForNewerOnly`, `PublishedSourceFrozen`.
* `BootstrapSettles`: `OneProductUnlessRacing`, `StoredProductSells`, `MeterTakesUsage`.

Met while modelling, as the exceptions in these properties:

* The disclosure is marked before the message is sent and lost when the send fails.
  Redelivered messages have no id check of their own: they are answered again unless
  the answer is the same.  Voice minutes are charged when the schedule is closed, and
  again for a redelivery.  The transcript recognises an echo by the agents' lines only.
* With 50 messages a day the risk score blocks at the 46th, so that the daily limit is
  never reached, and the nightly reset does not lift the block.
* `disconnectChannel` unsubscribes a page its sibling channel still uses; the pod's
  OAuth client may store another bot's refresh token; a refresh writes a stale
  configuration over a reconnect.
* Two connections of a bot come about without a race when one of them was made or
  changed by hand, as the two lookups see different rows; an update by id takes a
  calendar's tokens away, or gives the row to another bot.  `OneRowUnlessRacing` and
  `ReconnectKept` name these calls (`Handled`); after one, whatever connects any
  calendar may write the row.
* A deauthorisation leaves a connection that does not name the person, subscribed and
  answering; `DeauthorizedGone` promises the others.
* Two concurrent publications leave two PUBLISHED versions, and a stale one
  publishes an archived version again; a deletion racing a publication takes a
  published version along unless somebody has accepted it.
* A stopped meter can be retrieved and is kept; any error of a retrieval counts as
  missing; pods that start at once leave products nobody refers to.

The assumptions of the modules ask of a plan what the database and the callers
guarantee before it starts: one row a connection, with its own bot's grant, a page
named by channels of Meta only (`RowsAreTold`, `ConnectionsAreTold`); version numbers
that are unique, one published version, which parses where it is a notice, nothing
accepted yet (`DocumentsAreTold`, `EditsAreTold`); one active product at most, which the
search has seen if it sees everything at once (`StripeIsTold`); and that `None` is none
of the answers.

Met while proving, each a statement the run's small instances had let pass:

* `OneRowUnlessRacing` took any two overlapping connects for an excuse; it now asks for
  two of that type, and of that bot or shop (`Rivals`).
* `ReconnectKept` forgot whatever else takes a calendar away: a calendar made by
  `createIntegration`, an update or a deletion of its row by id, `disconnect`
  (`Reconnects`); and two
  refreshes that overlap share the pod's OAuth client, so that either of them may store
  the other's grant over what the reconnect got.
* `SubscribedUnlessLeft` spoke of every row with a page: a row that `createIntegration`
  or an update by id has written subscribes nothing.
* `ApprovedWasSeen` is about what `approveTranslation` itself reads before it approves.
  The request carries no text and no version, so that an administrator whose page is
  older than a translation approves what the page does not show; no call of the model
  stands for the page.
* `AskedForNewerOnly` excused every sign-up that overlapped a publication; it need not,
  as the publication is not over when the sign-up begins.

### What is proved

For any plans, calls, bots, pages and documents that meet these assumptions, in the
composed system `ServicesSpec`: `ServicesBootstrapSettles` (`BootstrapSettles`),
`ServicesOneConnection` (`OneConnection`), `ServicesTakenBackIsGone` (`DeauthorizedGone`
and `ShopGone`) and `ServicesDocumentsAreEvidence` (`DocumentsAreEvidence`, whose
last part, `PublishedSourceFrozen`, is an action property).  The inductive invariants
all rest on `CallsOK`: a call keeps to its plan, and what was over when it began is
over for good, so that two calls that overlapped go on having overlapped
(`RacingStays`).

| conjunct | why it is needed |
|---|---|
| `BootTypes`, `BootHolds` | what a start on its way holds names a product or a meter there is |
| `Single` | who is about to create a product overlaps the author of every active one |
| `Selling`, `Metering` | while nobody's hand overlaps a start, what is about to be stored sells or takes usage; a meter a start has forgotten is being replaced |
| `IntegrationBase` | rows keep their type; a call about to write has its own row, of its type and bot |
| `OneInv` | who found no row is still right, or has a rival, or rows of the type were written by hand |
| `CodeInv` | a code about to be used exists, and whoever already has a token for it overlaps |
| `ForeignInv` | until two refreshes for different bots overlap, the client, the copies read and the rows hold what the bot was granted, or a client sent for it |
| `KeptInv` | after a quiet reconnect the row is still the bot's, and it, every copy of it on its way and the client have the new grant |
| `ByInv`, `ShopGone`, `DeauthInv` | who wrote a row has begun; a row that names the person was written since a deauthorisation, or is in its hands |
| `LegalBase` | each number once; what a call has read is still so, or a publication or translation overlaps it |
| `OutInv` | one version is out, and who is about to publish will archive it, unless publications raced |
| `NoticesInv`, `SeenInv` | a published notice and every translation parse; an approval is of what was read |
| `SignedInv` | a sign-up has accepted, is about to accept or has still to look at every version out before it began |

Of every action there is one lemma that says what it does to its own call and to the
rows (`...Is`); each conjunct is then kept by what rows may become (`Changes`,
`RowAfter`, `VersionsAfter`), whichever action did it, and by everybody else's steps,
which leave its module alone (`SystemStep`).

Model-checked only: `AnswersBounded`, `EchoesUnderstood`, `VisitorsKept`, which count
replies, minutes and messages over the calls (an induction over their order),
`ConnectionsAgree` but for the two parts above (the page's subscription, the gateway's
copy and the answers that go out), and `ServicesTypeOK`, of which the proofs need no more than their own modules' part.

## 11. What is not modelled

Model-checked only: of sections 3 to 10 what is not listed as proved there, and
liveness.  Left out for good: pure output (mail, push, analytics, metrics,
sockets, logs), configuration CRUD (bot settings, prompts, training, folders,
profiles), tickets and feedback forms (rows without a state machine), back-office
queries, cluster calls, data files, crawling and parsing (another service), the
deletion of a user's grant at Google, and the reminder mails of billing.  Exchange
rates are a cached feed whose value no decision depends on.
