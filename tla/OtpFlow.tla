------------------------------ MODULE OtpFlow ------------------------------
(***************************************************************************)
(* Consent, one-time codes and lead capture of one bot.  A visitor's       *)
(* contact data passes through LeadService and BookingService, each with a *)
(* code by mail and one by SMS or WhatsApp; ChatFlowService remembers how  *)
(* far each flow of a chat has come, OtpChannelPreferenceService (Redis)   *)
(* the channel the visitor chose, OtpDeliveryFallbackService (Redis) which *)
(* WhatsApp message a delivery callback of Twilio is about.                *)
(*                                                                         *)
(* A call is one HTTP request in flight on some pod; its steps lie between *)
(* the awaits at which another call can change what it has read.  A code   *)
(* is known by its position in its table, a message by the call that sent  *)
(* it.  Time counts minutes of the code scaled down to the bounds; all of  *)
(* it lies within KEY_TTL_SECONDS, so that no Redis key expires.           *)
(***************************************************************************)
EXTENDS Integers, Sequences, FiniteSets

CONSTANTS
  Chats,      \* conversations of the bot
  OffWidget,  \* those on Instagram, Messenger or WhatsApp: no consent card
  Addrs,      \* phone numbers (and, for the mail tables, addresses)
  Calls,      \* requests; each is made at most once
  Plans,      \* what an instance may do: the operation, table, chat and address of
              \* each request, the owner's settings, the bounds on the
              \* consent rows and on the choices of WhatsApp, whether pods die and Redis fails
  Cap,        \* [Tables -> Nat], MAX_CODE_REQUESTS_PER_WINDOW / _PER_HOUR
  Span,       \* [Tables -> Nat], the window the cap is about
  Ttl,        \* [Tables -> Nat], CODE_TTL_MINUTES
  Cooldown,   \* SMS_RESEND_COOLDOWN_SECONDS
  InFlight,   \* CROSS_FLOW_OTP_INFLIGHT_SECONDS
  Freshness,  \* CONSENT_FRESHNESS_MINUTES
  TokenTtl,   \* VERIFICATION_TOKEN_TTL_SECONDS of the lead tokens
  MaxTries,   \* MAX_VERIFY_ATTEMPTS
  Horizon,    \* bound on the clock
  None

Sms == {"leadSms", "bookSms"}
Mail == {"leadMail", "bookMail"}
Tables == Sms \cup Mail
Lead == {"leadSms", "leadMail"}
Kinds == {"lead", "booking"}
Ops == {"request", "verify", "submit", "rescue"}
Channels == {"none", "sms", "whatsapp", "whatsapp_used"}

ASSUME SettingsAssumption ==
  /\ OffWidget \subseteq Chats /\ None \notin Chats \cup Addrs \cup Calls
  /\ "kept" \notin Addrs
  /\ Plans \subseteq [asks : [Calls -> [op : Ops, table : Tables, chat : Chats, addr : Addrs]],
                     bot : [mail : BOOLEAN, sms : BOOLEAN, kvkk : BOOLEAN, gate : BOOLEAN],
                     consents : Nat, picks : Nat, failures : BOOLEAN]
  /\ Cap \in [Tables -> Nat] /\ Span \in [Tables -> Nat] /\ Ttl \in [Tables -> Nat]
  /\ {Cooldown, InFlight, Freshness, TokenTtl, MaxTries, Horizon} \subseteq Nat

VARIABLES
  plan,
  clock,
  codes,      \* [Tables -> Seq(row)], the four verification tables
  consents,   \* Seq(row) of LeadPrivacyConsent
  flow,       \* [Chats -> [Kinds -> row]] of PerChatFlowState
  pref,       \* [Chats -> Channels], the Redis keys lead:otp-channel:*
  pending,    \* the messages with a Redis key otp:wa-sid:*
  leads,      \* [Calls -> row], the BotLeads row a submit wrote
  tokens,     \* the tokens signed so far
  call,       \* [Calls -> local state]
  sent,       \* history: what each call's message went out by
  picks       \* history: how often WhatsApp was chosen in a chat, lost marks included

vars == <<plan, clock, codes, consents, flow, pref, pending, leads, tokens, call, sent, picks>>
rows == <<codes, consents, flow, leads, tokens>>
keys == <<pref, pending, sent, picks>>

NoFlow == [state |-> "none", addr |-> None, proven |-> None, at |-> 0]
Idle(op, table, chat) ==
        [op |-> op, table |-> table, chat |-> chat, addr |-> None, pc |-> "new",
         n |-> 0, typed |-> 0, consent |-> 0, seen |-> "none", of |-> None,
         tried |-> FALSE, noted |-> FALSE, mailOk |-> FALSE, smsOk |-> FALSE, booked |-> FALSE, picked |-> 0, since |-> {}]
NoLead == [status |-> "none", chat |-> None, sms |-> FALSE, booked |-> FALSE, consent |-> 0]

\* leadVerificationRequired, smsVerificationRequired, kvkkConsentRequired of the
\* bot, and LEAD_PRIVACY_CONSENT_GATE_ENABLED.
bot == plan.bot

Init ==
  /\ plan \in Plans /\ clock = 0
  /\ codes = [t \in Tables |-> <<>>] /\ consents = <<>>
  /\ flow = [c \in Chats |-> [k \in Kinds |-> NoFlow]]
  /\ pref = [c \in Chats |-> "none"] /\ pending = {}
  /\ leads = [q \in Calls |-> NoLead] /\ tokens = {}
  /\ call = [q \in Calls |-> Idle(plan.asks[q].op, plan.asks[q].table, plan.asks[q].chat)]
  /\ sent = [q \in Calls |-> "none"] /\ picks = [c \in Chats |-> 0]

Over == {"done", "dead"}

\* A call's first step, and each later one, with its new local state; what had
\* ended before the first is kept for the properties.
Starts(q, local) ==
  /\ call[q].pc = "new" /\ call[q].op = local.op /\ call[q].table = local.table
  /\ call[q].chat = local.chat
  /\ call' = [call EXCEPT ![q] =
       [local EXCEPT !.since = {r \in Calls : call[r].pc \in Over}]]
Moves(q, from, local) == call[q].pc = from /\ call' = [call EXCEPT ![q] = local]
Goes(q, from, to) == Moves(q, from, [call[q] EXCEPT !.pc = to])

LatestOf(S) == IF S = {} THEN 0 ELSE CHOOSE i \in S : \A j \in S : j <= i

-----------------------------------------------------------------------------
(* ChatFlowService                                                         *)

\* What a transition writes over a row; "kept" fields stay, `at` is updatedAt.
Written(old, row) ==
  [state |-> row.state, at |-> clock,
   addr |-> IF row.addr = "kept" THEN old.addr ELSE row.addr,
   proven |-> IF row.proven = "kept" THEN old.proven ELSE row.proven]

\* transition(): the state is checked against `from` when there is one; a
\* refusal is swallowed by safeTransition.  The check and the write are two
\* queries; here nothing of the same flow comes between them.
Transition(fl, c, kind, from, row) ==
  IF c # None /\ (from = "any" \/ fl[c][kind].state = from)
  THEN [fl EXCEPT ![c][kind] = Written(@, row)] ELSE fl

\* getVerifiedPhoneForChat
Proven(c, a) == \E k \in Kinds : flow[c][k].proven = a

\* Mutation: the lead flow looks for its own code.
BookingPendingOwn(c, a) ==
  LET row == flow[c]["lead"]
  IN row.state = "OTP_SENT" /\ row.addr = a /\ clock - row.at <= InFlight

\* getPendingOtpFlowForChat, asked by the lead flow about BOOKING
BookingPending(c, a) ==
  LET row == flow[c]["booking"]
  IN row.state = "OTP_SENT" /\ row.addr = a /\ clock - row.at <= InFlight

-----------------------------------------------------------------------------
(* Consent                                                                 *)

ConsentRow(c) == [chat |-> c, addr |-> None, at |-> clock, verified |-> FALSE, lead |-> None]
FreshConsents(c) ==
  {i \in DOMAIN consents : consents[i].chat = c /\ clock - consents[i].at <= Freshness}
ConsentOk(fl, c) ==
  Transition(fl, c, "lead", "any", [state |-> "CONSENT_OK", addr |-> "kept", proven |-> "kept"])

\* recordPrivacyConsent: a tap on the card always writes a row, the hop for a
\* chat without cards only when none is fresh.
RecordConsent(c) ==
  /\ Len(consents) < plan.consents
  /\ c \in OffWidget => FreshConsents(c) = {}
  /\ consents' = Append(consents, ConsentRow(c))
  /\ flow' = ConsentOk(flow, c)
  /\ UNCHANGED <<plan, clock, codes, leads, tokens, call, keys>>

\* The widget records the tap before the conversation has an id, and the
\* gateway binds the row to the id with the first message.
BindConsent(i, c) ==
  /\ consents[i].chat = None /\ c \notin OffWidget
  /\ consents' = [consents EXCEPT ![i].chat = c]
  /\ flow' = ConsentOk(flow, c)
  /\ UNCHANGED <<plan, clock, codes, leads, tokens, call, keys>>

\* recordOffWidgetConsent, on behalf of a visitor who cannot be shown a card:
\* what a call finds or writes before it goes on.
OffWidgetRow(c, found) == c \in OffWidget /\ found = 0 /\ FreshConsents(c) = {}
\* Mutation: the row is named but not written.
ConsentsAfterUnwritten(c, found) == consents

ConsentsAfter(c, found) ==
  IF OffWidgetRow(c, found) THEN Append(consents, ConsentRow(c)) ELSE consents
FlowAfter(c, found) == IF OffWidgetRow(c, found) THEN ConsentOk(flow, c) ELSE flow

ConsentUsed(c, found) ==
  IF found # 0 \/ c \notin OffWidget THEN found
  ELSE IF OffWidgetRow(c, found) THEN Len(consents) + 1 ELSE LatestOf(FreshConsents(c))
RoomForConsent(c, found) == OffWidgetRow(c, found) => Len(consents) < plan.consents

-----------------------------------------------------------------------------
(* The choice of channel (Redis)                                           *)

SetOtpChannel(c, ch) ==
  /\ ch \in {"sms", "whatsapp"} /\ pref[c] # ch
  /\ plan.picks # 0 /\ (ch = "whatsapp" => picks[c] < plan.picks)
  /\ pref' = [pref EXCEPT ![c] = ch]
  /\ picks' = [picks EXCEPT ![c] = IF ch = "whatsapp" THEN @ + 1 ELSE @]
  /\ UNCHANGED <<plan, clock, rows, pending, call, sent>>

\* consumeForOtp, once it has read `seen`: which key it leaves.
Marked(seen, now) ==
  CASE seen = "whatsapp_used" -> "none"
    [] seen = "whatsapp" -> "whatsapp_used"
    [] OTHER -> now

-----------------------------------------------------------------------------
(* Asking for a code: requestVerification and requestSmsVerification of    *)
(* both services.                                                          *)

Recent(t, a) ==
  {i \in DOMAIN codes[t] : codes[t][i].addr = a /\ clock - codes[t][i].at <= Span[t]}
Cooling(t, a) ==
  \E i \in DOMAIN codes[t] : codes[t][i].addr = a /\ clock - codes[t][i].at < Cooldown

\* What the gates say, in the order the code asks them.
Verdict(t, c, a) ==
  IF t \in Sms /\ Proven(c, a) THEN "already_verified"
  ELSE IF t = "leadSms" /\ BookingPending(c, a) THEN "pending_other_flow"
  ELSE IF Cardinality(Recent(t, a)) >= Cap[t] THEN "rate_limited"
  ELSE IF t \in Sms /\ Cooling(t, a) /\ pref[c] # "whatsapp_used" THEN "rate_limited"
  ELSE "go"

\* LeadService refuses when the owner has not asked for this verification.
Required(t) == (t = "leadMail" => bot.mail) /\ (t = "leadSms" => bot.sms)

\* The consent the lead's SMS needs, unless the owner collects it elsewhere.
Asked(t) == t = "leadSms" /\ bot.kvkk

\* The gates, for a call with local state l: the consent it goes on with, the
\* rows they write (a phone that is verified already is given its token at
\* once), and the local state they leave.
Found(l) == IF Asked(l.table) THEN LatestOf(FreshConsents(l.chat)) ELSE 0
CardChat(l) == IF Asked(l.table) THEN l.chat ELSE None
Used(l) == ConsentUsed(CardChat(l), Found(l))
Passes(l, verdict) ==
  /\ Asked(l.table) => Used(l) # 0
  /\ Verdict(l.table, l.chat, l.addr) = verdict
GateWrites(q, l) ==
  /\ RoomForConsent(CardChat(l), Found(l))
  /\ consents' = ConsentsAfter(CardChat(l), Found(l))
  /\ flow' = FlowAfter(CardChat(l), Found(l))
  /\ tokens' = IF Passes(l, "already_verified")
               THEN tokens \cup {[table |-> l.table, addr |-> l.addr, n |-> 0,
                                  at |-> clock, by |-> q]}
               ELSE tokens
AfterGates(l) ==
  [l EXCEPT !.consent = Used(l), !.pc = IF Passes(l, "go") THEN "issue" ELSE "done"]

RequestCode(q, t, c, a) ==
  LET l == [Idle("request", t, c) EXCEPT !.addr = a]
  IN /\ Required(t)
     /\ Starts(q, AfterGates(l))
     /\ GateWrites(q, l)
     /\ UNCHANGED <<plan, clock, codes, leads, keys>>

\* The phone goes to the consent row, the code to its table, and the choice of
\* channel is read: SMS when Redis fails.
Issue(q) ==
  LET me == call[q]  t == me.table
  IN /\ me.pc = "issue"
     /\ \E seen \in IF t \in Mail THEN {"none"}
                    ELSE {pref[me.chat]} \cup (IF plan.failures THEN {"sms"} ELSE {}) :
          Moves(q, "issue", [me EXCEPT !.pc = "send", !.n = Len(codes[t]) + 1, !.seen = seen,
                                       !.picked = picks[me.chat]])
     /\ consents' = IF me.consent = 0 THEN consents
                    ELSE [consents EXCEPT ![me.consent].addr = me.addr]
     /\ codes' = [codes EXCEPT ![t] =
          Append(@, [addr |-> me.addr, at |-> clock, tries |-> 0, used |-> FALSE, by |-> q])]
     /\ UNCHANGED <<plan, clock, flow, leads, tokens, keys>>

\* What a provider makes of a message: a transient failure is retried once, a
\* permanent one is not, and a timeout may hide a delivery.
Attempt == {"accepted", "lost", "late", "refused"}
Deliveries ==
  {d \in [ok : BOOLEAN, out : BOOLEAN] : \E first, second \in Attempt :
     /\ d.ok = (first = "accepted" \/ (first \in {"lost", "late"} /\ second = "accepted"))
     /\ d.out = (\/ first \in {"accepted", "late"}
                 \/ first = "lost" /\ second \in {"accepted", "late"})}

\* The mark on the choice, best effort, then sendOtpSms or the mail.  The
\* callback is registered once WhatsApp has taken the message.
Send(q) ==
  LET me == call[q]
      channel == IF me.table \in Mail THEN "mail"
                 ELSE IF me.seen = "whatsapp" THEN "whatsapp" ELSE "sms"
  IN \E d \in Deliveries, marked, kept \in BOOLEAN :
       /\ (~marked \/ ~kept) => plan.failures
       /\ Goes(q, "send", IF d.ok THEN "flow" ELSE "done")
       /\ pref' = IF marked /\ me.table \in Sms
                  THEN [pref EXCEPT ![me.chat] = Marked(me.seen, @)] ELSE pref
       /\ picks' = IF ~marked /\ channel = "whatsapp"
                   THEN [picks EXCEPT ![me.chat] = @ + 1] ELSE picks
       /\ sent' = [sent EXCEPT ![q] = IF d.out THEN channel ELSE @]
       /\ pending' = IF d.ok /\ channel = "whatsapp" /\ kept THEN pending \cup {q} ELSE pending
       /\ UNCHANGED <<plan, clock, rows>>

\* The lead's SMS moves on from CONSENT_OK only; a booking starts over, and
\* only the one by SMS notes the phone.
NoteSent(q) ==
  LET me == call[q]  t == me.table
  IN /\ Moves(q, "flow", [me EXCEPT !.pc = "done", !.noted = TRUE])
     /\ flow' = CASE t = "leadSms" -> Transition(flow, me.chat, "lead", "CONSENT_OK",
                       [state |-> "OTP_SENT", addr |-> "kept", proven |-> "kept"])
                 [] t = "bookSms" -> Transition(flow, me.chat, "booking", "any",
                       [state |-> "OTP_SENT", addr |-> me.addr, proven |-> "kept"])
                 [] t = "bookMail" -> Transition(flow, me.chat, "booking", "any",
                       [state |-> "OTP_SENT", addr |-> None, proven |-> "kept"])
                 [] OTHER -> flow
     /\ UNCHANGED <<plan, clock, codes, consents, leads, tokens, keys>>

-----------------------------------------------------------------------------
(* Twilio's delivery callback.                                             *)

\* take(), the GET: the message failed, its key is still there.
Callback(q, m) ==
  /\ m \in pending
  /\ Starts(q, [Idle("rescue", call[m].table, call[m].chat) EXCEPT
                  !.pc = "claim", !.of = m, !.addr = call[m].addr])
  /\ UNCHANGED <<plan, clock, rows, keys>>

\* take(), the DEL (a failure is swallowed), and the flow's own entry point.
Claim(q) ==
  /\ Moves(q, "claim", AfterGates(call[q]))
  /\ GateWrites(q, call[q])
  /\ pending' \in {pending \ {call[q].of}} \cup (IF plan.failures THEN {pending} ELSE {})
  /\ UNCHANGED <<plan, clock, codes, leads, pref, sent, picks>>

-----------------------------------------------------------------------------
(* Giving the code back.                                                   *)

Unused(t, a) == {i \in DOMAIN codes[t] : codes[t][i].addr = a /\ ~codes[t][i].used}
Age(t, i) == clock - codes[t][i].at
Verifies(t, c, a, typed, n, pc) ==
  [Idle("verify", t, c) EXCEPT !.addr = a, !.typed = typed, !.n = n, !.pc = pc]

\* verifyCode, verifySmsCode: the newest unused code of the address, whatever
\* the visitor typed; refused when expired or tried too often.
LookUp(q, t, c, a, typed) ==
  LET n == LatestOf(Unused(t, a))
      open == n # 0 /\ Age(t, n) <= Ttl[t] /\ codes[t][n].tries < MaxTries
  IN /\ t \in Lead
     /\ Starts(q, Verifies(t, c, a, typed, n, IF open THEN "try" ELSE "done"))
     /\ UNCHANGED <<plan, clock, rows, keys>>

\* Mutation: a code is taken without being compared.
TryAny(q) ==
  LET me == call[q]
  IN /\ Moves(q, "try", [me EXCEPT !.tried = TRUE, !.pc = "use"])
     /\ codes' = [codes EXCEPT ![me.table][me.n].tries = @ + 1]
     /\ UNCHANGED <<plan, clock, consents, flow, leads, tokens, keys>>

\* The attempt is counted, then the code compared with the row as it was read.
Try(q) ==
  LET me == call[q]
  IN /\ Moves(q, "try", [me EXCEPT !.tried = TRUE, !.pc = IF me.typed = me.n THEN "use" ELSE "done"])
     /\ codes' = [codes EXCEPT ![me.table][me.n].tries = @ + 1]
     /\ UNCHANGED <<plan, clock, consents, flow, leads, tokens, keys>>

\* BookingService.verify, verifySms: an unused, unexpired row with this code.
LookUpBooking(q, t, c, a, typed) ==
  LET open == typed \in Unused(t, a) /\ Age(t, typed) < Ttl[t]
  IN /\ t \notin Lead
     /\ Starts(q, Verifies(t, c, a, typed, typed, IF open THEN "use" ELSE "done"))
     /\ UNCHANGED <<plan, clock, rows, keys>>

\* Mutation: a code stays unused.
MarkUsedNot(q) ==
  Goes(q, "use", "grant") /\ UNCHANGED <<plan, clock, codes, consents, flow, leads, tokens, keys>>

MarkUsed(q) ==
  LET me == call[q]
  IN /\ Goes(q, "use", "grant")
     /\ codes' = [codes EXCEPT ![me.table][me.n].used = TRUE]
     /\ UNCHANGED <<plan, clock, consents, flow, leads, tokens, keys>>

\* The lead's SMS also marks the newest unverified consent with this phone, of
\* whatever chat, and moves that chat's flow; a booking moves the caller's.
Grant(q) ==
  LET me == call[q]  t == me.table
      i == IF t = "leadSms"
           THEN LatestOf({j \in DOMAIN consents :
                            consents[j].addr = me.addr /\ ~consents[j].verified})
           ELSE 0
      verified == [state |-> "OTP_VERIFIED", addr |-> "kept",
                   proven |-> IF t \in Sms THEN me.addr ELSE "kept"]
  IN /\ Goes(q, "grant", "done")
     /\ consents' = IF i = 0 THEN consents ELSE [consents EXCEPT ![i].verified = TRUE]
     /\ flow' = CASE t \notin Lead ->
                       Transition(flow, me.chat, "booking", "OTP_SENT",
                                  [verified EXCEPT !.addr = None])
                 [] i # 0 -> Transition(flow, consents[i].chat, "lead", "OTP_SENT", verified)
                 [] OTHER -> flow
     /\ tokens' = tokens \cup {[table |-> t, addr |-> me.addr, n |-> me.n, at |-> clock, by |-> q]}
     /\ UNCHANGED <<plan, clock, codes, leads, keys>>

\* External: the MCP server books with a booking token, and createFromMcp
\* closes the flow.
Book(c) ==
  /\ \E tk \in tokens : tk.table \notin Lead
  /\ flow' = Transition(flow, c, "booking", IF bot.sms THEN "OTP_VERIFIED" ELSE "any",
                        [state |-> "BOOKED", addr |-> None, proven |-> "kept"])
  /\ flow' # flow
  /\ UNCHANGED <<plan, clock, codes, consents, leads, tokens, call, keys>>

-----------------------------------------------------------------------------
(* submit                                                                  *)

Holds(t, a) ==
  \E tk \in tokens : tk.table = t /\ tk.addr = a /\ clock - tk.at < TokenTtl

\* The consent gate, then each verification the owner asks for; a refusal is
\* recorded as a lead of its own.  `mailOk` and `smsOk` say which tokens the
\* caller shows.  A calendar booking skips the gates: its notification follows
\* a booking that is made.
Submit(q, c, a, booked, mailOk, smsOk) ==
  LET latest == LatestOf({i \in DOMAIN consents : consents[i].chat = c})
      gated == bot.gate /\ ~booked
      chat == IF gated THEN c ELSE None
      used == IF gated THEN ConsentUsed(chat, latest) ELSE 0
      proofs == booked \/ ((bot.mail => mailOk) /\ (bot.sms => smsOk))
      goes == (gated => used # 0) /\ proofs
      own == IF bot.sms /\ ~booked
             THEN LatestOf({i \in DOMAIN consents : consents[i].chat = c /\ consents[i].verified})
             ELSE 0
  IN /\ booked => flow[c]["booking"].state = "BOOKED"
     /\ mailOk => Holds("leadMail", a)
     /\ smsOk => Holds("leadSms", a)
     /\ RoomForConsent(chat, latest)
     /\ consents' = ConsentsAfter(chat, latest)
     /\ flow' = FlowAfter(chat, latest)
     /\ Starts(q, [Idle("submit", call[q].table, c) EXCEPT
                               !.addr = a, !.mailOk = mailOk, !.smsOk = booked \/ (bot.sms /\ smsOk), !.booked = booked,
                               !.consent = IF own # 0 THEN own ELSE used,
                               !.pc = IF goes THEN "deliver" ELSE "done"])
     /\ leads' = IF goes THEN leads
                 ELSE [leads EXCEPT ![q] = [NoLead EXCEPT !.status = "rejected", !.chat = c]]
     /\ UNCHANGED <<plan, clock, codes, tokens, keys>>

\* The owner's destinations are tried in parallel, all of them; with none at all
\* the row is written as failed and the flow is left alone.
Deliver(q, status) ==
  /\ Goes(q, "deliver", status)
  /\ UNCHANGED <<plan, clock, rows, keys>>

Statuses == {"delivered", "partial", "failed", "nowhere"}

RecordLead(q) ==
  LET me == call[q]
  IN /\ me.pc \in Statuses /\ Goes(q, me.pc, "done")
     /\ leads' = [leads EXCEPT ![q] = [status |-> me.pc, chat |-> me.chat, sms |-> me.smsOk,
                                       booked |-> me.booked, consent |-> me.consent]]
     /\ consents' = IF me.consent = 0 THEN consents
                    ELSE [consents EXCEPT ![me.consent].lead = q]
     /\ flow' = IF me.pc = "nowhere" THEN flow
                ELSE Transition(flow, me.chat, "lead", "any",
                       [state |-> IF me.pc = "failed" THEN "FAILED" ELSE "SUBMITTED",
                        addr |-> "kept", proven |-> "kept"])
     /\ UNCHANGED <<plan, clock, codes, tokens, keys>>

-----------------------------------------------------------------------------
\* A pod dies, or a query of the call fails: the call goes no further.
Die(q) ==
  /\ plan.failures /\ call[q].pc \notin Over \cup {"new"}
  /\ Goes(q, call[q].pc, "dead")
  /\ UNCHANGED <<plan, clock, rows, keys>>

Tick ==
  /\ clock < Horizon /\ clock' = clock + 1
  /\ UNCHANGED <<plan, rows, call, keys>>

\* What the visitor can type: a code that arrived, or something else (0).
Received(t) == {i \in DOMAIN codes[t] : sent[codes[t][i].by] # "none"}

\* The conversations in which the plan asks for something.
Live == {plan.asks[q].chat : q \in Calls}

CallBegins(q) ==
  \E c \in Live : LET a == plan.asks[q].addr IN
    \/ \E t \in Tables : RequestCode(q, t, c, a)
    \/ \E t \in Tables : \E typed \in {0} \cup Received(t) :
         LookUp(q, t, c, a, typed) \/ LookUpBooking(q, t, c, a, typed)
    \/ \E booked, mailOk, smsOk \in BOOLEAN : Submit(q, c, a, booked, mailOk, smsOk)
CallGoesOn(q) ==
  \/ Issue(q) \/ Send(q) \/ NoteSent(q) \/ Claim(q) \/ Try(q) \/ MarkUsed(q) \/ Grant(q)
  \/ \E status \in Statuses : Deliver(q, status)
  \/ RecordLead(q) \/ Die(q)

Next ==
  \/ Tick
  \/ \E c \in Live \cup {None} : RecordConsent(c)
  \/ \E c \in Live : \/ \E i \in DOMAIN consents : BindConsent(i, c)
                     \/ \E ch \in Channels : SetOtpChannel(c, ch)
                     \/ Book(c)
  \/ \E q \in Calls : CallBegins(q) \/ CallGoesOn(q) \/ \E m \in Calls : Callback(q, m)

Spec == Init /\ [][Next]_vars

-----------------------------------------------------------------------------
(* Properties                                                              *)

FlowStates == {"none", "CONSENT_OK", "OTP_SENT", "OTP_VERIFIED", "SUBMITTED", "FAILED", "BOOKED"}
Pcs == {"new", "issue", "send", "flow", "claim", "try", "use", "grant", "deliver"}
       \cup Statuses \cup Over

\* Every variable has its type; a code, a consent or a lead points to what exists.
TypeOK ==
  /\ plan \in Plans /\ clock \in 0 .. Horizon /\ pending \subseteq Calls
  /\ \A t \in Tables : \A i \in DOMAIN codes[t] :
       codes[t][i] \in [addr : Addrs, at : 0 .. clock, tries : Nat, used : BOOLEAN, by : Calls]
  /\ \A i \in DOMAIN consents :
       consents[i] \in [chat : Chats \cup {None}, addr : Addrs \cup {None}, at : 0 .. clock,
                        verified : BOOLEAN, lead : Calls \cup {None}]
  /\ \A c \in Chats, k \in Kinds :
       flow[c][k] \in [state : FlowStates, addr : Addrs \cup {None},
                       proven : Addrs \cup {None}, at : 0 .. clock]
  /\ pref \in [Chats -> Channels]
  /\ \A q \in Calls :
       /\ leads[q] \in [status : Statuses \cup {"none", "rejected"}, chat : Chats \cup {None},
                        sms : BOOLEAN, booked : BOOLEAN, consent : 0 .. Len(consents)]
       /\ call[q].op \in Ops /\ call[q].table \in Tables /\ call[q].pc \in Pcs
       /\ call[q].since \subseteq Calls /\ call[q].consent \in 0 .. Len(consents)
  /\ \A tk \in tokens : /\ tk.table \in Tables /\ tk.addr \in Addrs /\ tk.by \in Calls
                        /\ tk.n \in 0 .. Len(codes[tk.table]) /\ tk.at <= clock

\* Two calls of which neither had ended when the other began.
Overlap(q, r) == q \notin call[r].since /\ r \notin call[q].since
Verified(t, a) == \E i \in DOMAIN codes[t] : codes[t][i].addr = a /\ codes[t][i].used
VerifiedBySms(a) == \E t \in Sms : Verified(t, a)

\* Whatever the service takes for a proof that an address is the visitor's goes
\* back to a code that was sent to this address and given back: a used code, a
\* token, the phone a flow remembers, the state of the flow, a lead stored as
\* verified.
ProvenPhones ==
  /\ \A t \in Tables : \A i \in DOMAIN codes[t] :
       codes[t][i].used =>
         sent[codes[t][i].by] # "none" /\ \E q \in Calls : /\ call[q].op = "verify" /\ call[q].table = t
                          /\ call[q].typed = i /\ call[q].addr = codes[t][i].addr
  /\ \A tk \in tokens : IF tk.n = 0 THEN VerifiedBySms(tk.addr)
                        ELSE codes[tk.table][tk.n].used /\ codes[tk.table][tk.n].addr = tk.addr
  /\ \A c \in Chats, k \in Kinds :
       /\ flow[c][k].proven # None => VerifiedBySms(flow[c][k].proven)
       /\ flow[c][k].state = "OTP_VERIFIED" => \E t \in Tables, a \in Addrs : Verified(t, a)
  /\ \A q \in Calls : leads[q].sms /\ ~leads[q].booked => VerifiedBySms(call[q].addr)

\* A code gives a second token only to a request that raced the first: the row
\* is read unused by both before either marks it.
TokenTwiceOnlyRacing ==
  \A x, y \in tokens : x.table = y.table /\ x.n = y.n /\ x.n # 0 /\ x.by # y.by => Overlap(x.by, y.by)

\* MAX_VERIFY_ATTEMPTS bounds the guesses of requests that follow one another:
\* only as many more get through as raced each other on the same count.
TriesBounded ==
  \A q \in Calls :
    call[q].op = "verify" /\ call[q].table \in Lead /\ call[q].pc \in {"try", "use", "grant"} =>
      Cardinality({r \in call[q].since :
        /\ call[r].op = "verify" /\ call[r].table = call[q].table /\ call[r].n = call[q].n
        /\ call[r].tried}) < MaxTries

Row(t, q) == {i \in DOMAIN codes[t] : codes[t][i].by = q}
Near(t, q, r, gap) == \E i \in Row(t, q), j \in Row(t, r) :
                        codes[t][i].addr = codes[t][j].addr /\ codes[t][i].at - codes[t][j].at \in 0 .. gap

\* No request gets a code once Cap codes of earlier requests lie in the window:
\* only racing requests exceed the rate, each of them reading the count before
\* the others' rows.
RateBounded ==
  \A t \in Tables, q \in Calls :
    Row(t, q) # {} => Cardinality({r \in call[q].since : Near(t, q, r, Span[t])}) < Cap[t]

\* Two codes by SMS to one number within the cooldown: the requests raced, or
\* the visitor had chosen WhatsApp, which the second replaces.
SpacedUnlessSwitching ==
  \A t \in Sms, q \in Calls : \A r \in call[q].since :
    Near(t, q, r, Cooldown - 1) => \E p \in Calls : call[p].seen = "whatsapp"

\* The lead flow stands down for a code the booking flow has sent to the same
\* phone: it goes on to one of its own only when that was long ago, was given
\* back, or the booking has moved on to another address or been made.
StandDown ==
  [][\A q \in Calls :
       call[q].pc \in {"new", "claim"} /\ call'[q].pc = "issue" /\ call[q].table = "leadSms" =>
         \A r \in Calls : \A j \in Row("bookSms", r) :
           /\ codes["bookSms"][j].addr = call'[q].addr /\ call[r].chat = call'[q].chat
           /\ call[r].noted /\ clock - codes["bookSms"][j].at <= InFlight
           => \/ codes["bookSms"][j].used
              \/ \E tk \in tokens : tk.table \notin Lead
              \/ \E p \in Calls \ call[r].since : p # r /\ call[p].noted /\ call[p].table \notin Lead
    ]_vars

\* Two rescues of one message overlapped, unless its key could not be deleted:
\* it is read and deleted by two Redis commands.
RescuesOnlyRace ==
  ~plan.failures => \A q, r \in Calls :
    q # r /\ call[q].of # None /\ call[q].of = call[r].of => Overlap(q, r)

\* One choice of WhatsApp sends one code by WhatsApp, unless two requests read
\* it together or the mark was lost.
ChoiceUsedOnce ==
  \A q, r \in Calls :
    q # r /\ ~Overlap(q, r) /\ sent[q] = "whatsapp" /\ sent[r] = "whatsapp"
    /\ call[q].chat = call[r].chat => call[q].picked # call[r].picked

\* A phone verified for a lead is remembered in the flow of its chat, also when
\* the code was the second one.  It is lost only when the flow moves back (a new
\* consent) or on (a lead), when the chat is not the only one that asks for this
\* phone or the phone not the only one in the chat (verifySmsCode marks the newest
\* consent with the phone, and a consent has one), or when a code of the phone
\* was given back before the flow knew of it.
Asker(tk) == codes[tk.table][tk.n].by
Early(tk) == tk.table = "leadSms" /\ tk.n # 0 /\ (Overlap(Asker(tk), tk.by) \/ ~call[Asker(tk)].noted)
Mixed(c, a) == \E j \in DOMAIN codes["leadSms"] :
                 (codes["leadSms"][j].addr = a) # (call[codes["leadSms"][j].by].chat = c)
Sent(c) == \E p \in Calls : leads[p].status \in Statuses /\ leads[p].chat = c
Remembered ==
  \A tk \in tokens : bot.kvkk /\ tk.table = "leadSms" /\ tk.n # 0 =>
    LET r == Asker(tk)  c == call[r].chat
    IN \/ flow[c]["lead"].proven = tk.addr
       \/ \E early \in tokens : early.addr = tk.addr /\ Early(early)
       \/ \E i \in DOMAIN consents : i # call[r].consent /\ consents[i].chat = c
       \/ Sent(c) \/ Mixed(c, tk.addr)

\* With the gate on, a lead leaves the service only with a consent given in the
\* same conversation.
LeadsCarryConsent ==
  \A q \in Calls :
    bot.gate /\ leads[q].status \in Statuses /\ ~leads[q].booked =>
      leads[q].consent # 0 /\ consents[leads[q].consent].chat = leads[q].chat

\* What a visitor has proven counts, as long as the flow it was proven in, and
\* nothing else does: no phone is trusted and no lead leaves on another's word.
ProofsHold == ProvenPhones /\ Remembered /\ LeadsCarryConsent

\* Each limit of the two services on codes holds for requests that follow one
\* another; what exceeds it raced.
LimitsHoldUnraced ==
  TokenTwiceOnlyRacing /\ TriesBounded /\ RateBounded /\ SpacedUnlessSwitching

\* A visitor gets one code at a time, although two flows, a choice of channel
\* and Twilio's callbacks may each send one: a second needs a race or a lost mark.
OneCodeAtATime == []RescuesOnlyRace /\ []ChoiceUsedOnce /\ StandDown
=============================================================================
