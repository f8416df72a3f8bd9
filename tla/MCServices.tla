----------------------------- MODULE MCServices -----------------------------
(* Small instances of Services: each plan says what is connected and written, *)
(* what is asked for and which call follows which, and leaves the rest open.  *)
EXTENDS Services, TLC

CONSTANTS q1, q2, q3, q4, v1, t1, t2, b1, b2, p1, d1

\* Which call follows which
Free == [q \in Calls |-> {}]
Chain == (q1 :> {}) @@ (q2 :> {q1}) @@ (q3 :> {q2}) @@ (q4 :> {q3})
Pairs == (q1 :> {}) @@ (q2 :> {}) @@ (q3 :> {q1, q2}) @@ (q4 :> {q1, q2})
First == (q1 :> {}) @@ (q2 :> {q1}) @@ (q3 :> {q1}) @@ (q4 :> {q1})
Last == (q1 :> {}) @@ (q2 :> {}) @@ (q3 :> {}) @@ (q4 :> {q1, q2, q3})
Ends3 == (q1 :> {}) @@ (q2 :> {q1}) @@ (q3 :> {q1}) @@ (q4 :> {q1, q2, q3})

Channels == <<Standing("messenger", b1, p1), Standing("instagram", b1, p1),
              Standing("whatsapp", b1, p1), Standing("legacy", b1, p1)>>
OldPage == Standing("oldPage", b1, p1)
Calendars == <<Standing("calendar", b1, None), Standing("calendar", b2, None)>>
Ready == Draft(d1, 1, t1)
Public == [Ready EXCEPT !.status = "PUBLISHED"]
Next2 == Draft(d1, 2, t1)

Case(after, a, b, c, d) ==
  [after |-> after, ops |-> (q1 :> a) @@ (q2 :> b) @@ (q3 :> c) @@ (q4 :> d), failures |-> FALSE, redis |-> TRUE,
   windows |-> 0, days |-> 0, tokens |-> {1}, rows |-> Channels, docs |-> {d1}, versions |-> <<>>,
   products |-> <<>>, stored |-> 0, meters |-> <<>>, setting |-> 0]
Faulty(c) == [c EXCEPT !.failures = TRUE]
Timed(c) == [c EXCEPT !.windows = 1]
NoRedis(c) == [c EXCEPT !.redis = FALSE]
Days(c, tokens) == [c EXCEPT !.days = 1, !.tokens = tokens]
Rows(c, rows) == [c EXCEPT !.rows = rows]
Holds(c, versions) == [c EXCEPT !.versions = versions]

Stripe(c, products, kept) == [c EXCEPT !.products = products, !.stored = kept]
Meters(c, meters, kept) == [c EXCEPT !.meters = meters, !.setting = kept]
Product(active) == [active |-> active, indexed |-> TRUE, by |-> None]

\* Calls
Ask(op) == [op |-> op, who |-> v1, text |-> t1, voice |-> FALSE, of |-> None, page |-> p1, long |-> FALSE,
            answer |-> t1, bot |-> b1, types |-> <<"database">>, off |-> FALSE, doc |-> d1, version |-> 1,
            fb |-> TRUE, config |-> None, reaccept |-> TRUE, dpa |-> FALSE, owner |-> FALSE]
Never == Ask("none")
M == Ask("messenger")
I == Ask("instagram")
W == Ask("whatsapp")
Voice(c) == [c EXCEPT !.voice = TRUE]
Own(q) == [Ask("ownEcho") EXCEPT !.of = q]
Saying(op, t) == [Ask(op) EXCEPT !.text = t]
OnPhone(c) == [c EXCEPT !.page = None]
For(op, types) == [Ask(op) EXCEPT !.types = types]
ForPhone(op) == For(op, <<"whatsapp">>)
New(op, types) == OnPhone(For(op, types))
Sending(c, config) == [c EXCEPT !.config = config]
Unnamed(c) == [c EXCEPT !.fb = FALSE]
Whole(b) == [Empty EXCEPT !.bot = b, !.page = p1, !.fit = TRUE]
To(c, b) == [c EXCEPT !.bot = b]
Version(op, n) == [Ask(op) EXCEPT !.version = n]
Text(op, n, t) == [Version(op, n) EXCEPT !.text = t]
Bad(op) == [Ask(op) EXCEPT !.text = Broken]
Satisfied(t) == [Ask("feedback") EXCEPT !.answer = t]
Long(op) == [Ask(op) EXCEPT !.long = TRUE]
Calendar(op, b) == [For(op, <<"calendar">>) EXCEPT !.bot = b, !.page = None]

InboundCases == {
  Case(Free, M, M, Never, Never),
  Timed(Faulty(Case(Chain, M, M, Never, Never))),
  Timed(Case(Chain, W, W, Ask("legacy"), W)),
  Case(Pairs, W, W, Ask("legacy"), Never),
  NoRedis(Case(Chain, W, W, W, Never)),
  Timed(Faulty(Case(Free, M, Own(q1), Never, Never))),
  NoRedis(Case(Pairs, Voice(I), Own(q1), Saying("ownerEcho", t2), I)),
  Case(First, W, Saying("appEcho", t2), Saying("appEcho", t2), W),
  Timed(NoRedis(Case(First, M, Ask("handover"), Saying("agent", t2), Own(q3)))),
  Faulty(Case(Chain, W, Ask("handover"), OnPhone(Saying("agent", t2)), Ask("close"))),
  Faulty(Case(Chain, Ask("setTest"), Ask("test"), Ask("test"), Ask("clearTest"))),
  Case(First, Ask("setTest"), Ask("test"), Ask("test"), Ask("unsetTest")) }

VisitorCases == {
  Case(Free, Ask("session"), Ask("session"), Ask("chat"), Never),
  Days(Case(First, Ask("session"), Ask("chat"), Ask("chatStream"), Ask("chat")), {1, 3}),
  Days(Case(Chain, Ask("session"), Long("chat"), Ask("chatStream"), Ask("chat")), {1}),
  Days(Case(First, Ask("session"), Ask("chat"), Ask("nightly"), Ask("nightly")), {1}),
  Faulty(Days(Case(First, Ask("session"), Ask("chat"), Ask("block"), Ask("unblock")), {1})),
  Days(Case(First, Ask("session"), Ask("block"), Ask("session"), Ask("unblock")), {1}),
  Case(Free, Satisfied(t1), Satisfied(t2), Never, Never),
  Faulty(Case(Chain, Satisfied(t1), Satisfied(t2), Never, Never)),
  Case(Chain, Satisfied(t1), Satisfied(t2), [Ask("rate") EXCEPT !.answer = t1], Never) }

Both == <<"messenger", "instagram">>
Messenger == <<"messenger">>
Db(op) == Sending(New(op, <<"database">>), Whole(b1))
Page(op) == For(op, Messenger)
Gone == Ask("deauthorize")
IntegrationCases == {
  Rows(Case(Free, For("connectPage", Both), Page("leavePage"), Never, Never), <<>>),
  Rows(Case(First, Page("leavePage"), M, I, Sending(For("update", <<"oldPage">>), Empty)), Append(Channels, OldPage)),
  Case(Chain, Calendar("connectCalendar", b1), M, Calendar("token", b1), Never),
  Faulty(Case(Free, Gone, Page("connectPage"), M, Never)),
  Case(Chain, Page("leavePage"), Page("connectPage"), Gone, I),
  Case(Chain, Unnamed(Page("connectPage")), Gone, M, I),
  Case(Pairs, Sending(Page("update"), Whole(b1)), Gone, M, Gone),
  Rows(Case(Pairs, ForPhone("connectPhone"), ForPhone("connectPhone"), ForPhone("leavePhone"), W), <<>>),
  Case(Chain, [For("schedule", <<"whatsapp">>) EXCEPT !.off = TRUE], W, For("delete", <<"legacy">>), Ask("legacy")),
  Case(Chain, ForPhone("leavePhone"), W, Sending(For("update", <<"legacy">>), Empty), W),
  Rows(Case(Pairs, Db("create"), Db("update"), Db("delete"), Never), <<Standing("database", b1, None)>>),
  Rows(Case(Free, Db("create"), New("create", <<"database">>), Db("delete"), Never), <<>>),
  Faulty(Rows(Case(Chain, To(Db("create"), b2), Ask("update"), Sending(Ask("update"), Empty), Never), <<Standing("database", b1, None)>>)),
  Rows(Case(Free, Calendar("token", b1), Calendar("token", b2), Never, Never), Calendars),
  Rows(Case(Chain, Calendar("token", b1), Calendar("token", b2), Calendar("connectCalendar", b2), Calendar("token", b2)), Calendars),
  Rows(Case(Chain, Calendar("connectCalendar", b1), Sending(Calendar("update", b1), Whole(b2)), Calendar("token", b2), Calendar("connectCalendar", b1)), Calendars),
  Rows(Case(Pairs, Calendar("create", b1), Calendar("connectCalendar", b1), Calendar("token", b1), Calendar("leaveCalendar", b1)), <<>>),
  Rows(Case(Chain, Sending(Calendar("create", b1), [Whole(b2) EXCEPT !.refresh = b1]), Calendar("connectCalendar", b1), Calendar("token", b2), Calendar("create", b1)), <<>>),
  Faulty(Rows(Case(Chain, Calendar("token", b1), Calendar("token", b1), Calendar("connectCalendar", b1), Never), Calendars)),
  Faulty(Rows(Case(Free, Calendar("token", b1), Calendar("connectCalendar", b1), Calendar("leaveCalendar", b1), Never), Calendars)) }

LegalCases == {
  Case(Free, Ask("draft"), Text("draft", 1, t2), Version("edit", 1), Version("publish", 1)),
  Holds(Case(Free, Version("publish", 2), Text("edit", 2, t2), Ask("signUp"), Never), <<Public, Next2>>),
  Holds(Case(Free, Version("publish", 1), Version("publish", 2), Version("accept", 1), Never), <<Ready, Next2>>),
  Holds(Case(Ends3, Version("publish", 1), Version("publish", 2), Text("translate", 1, t2), Text("edit", 1, t2)), <<Ready, Next2>>),
  Holds(Case(First, Text("translate", 1, t1), Version("approve", 1), Text("translate", 1, t2), Version("publish", 1)), <<Ready>>),
  Holds(Case(Chain, Version("publish", 1), Bad("translate"), Ask("approve"), Text("edit", 1, t2)), <<Ready>>),
  Holds(Case(Chain, Text("translate", 1, t1), Version("approve", 1), Text("translate", 1, t2), Bad("edit")), <<Ready>>),
  Holds(Case(Last, Ask("deleteDoc"), Version("publish", 1), Version("accept", 1), Ask("createDoc")), <<Ready>>),
  Holds(Case(First, Text("translate", 1, t1), Version("approve", 1), Ask("deleteDoc"), Text("edit", 1, t2)), <<Ready>>),
  Faulty(Holds(Case(Free, Ask("deleteDoc"), Ask("signUp"), Version("accept", 1), Never), <<Public>>)),
  Holds(Case(Chain, Version("publish", 1), Ask("signUp"), Version("publish", 2), [Version("accept", 2) EXCEPT !.dpa = TRUE]), <<Ready, Next2>>) }

P == Ask("ensureProduct")
U == Ask("ensureMeter")
Hand == Ask("archiveProduct")
Stop == Ask("stopMeter")
BootstrapCases == {
  Case(Pairs, P, P, Hand, P),
  Timed(Case(Free, P, P, P, Never)),
  Faulty(Stripe(Case(Free, P, P, Hand, Never), <<Product(TRUE)>>, 0)),
  Faulty(Stripe(Case(Chain, P, Hand, P, P), <<Product(TRUE)>>, 1)),
  Stripe(Case(Chain, P, Hand, P, P), <<Product(FALSE), Product(TRUE)>>, 1),
  Meters(Case(Pairs, U, U, Stop, U), <<"gone">>, 1),
  Meters(Case(Chain, U, U, Stop, U), <<"stopped">>, 0),
  Faulty(Meters(Case(Free, U, U, Stop, U), <<"gone">>, 1)) }

Shop == New("linkShop", <<"shopify">>)
Redeem(q) == [Ask("redeem") EXCEPT !.of = q]
ShopCases == {
  Rows(Case(Pairs, Shop, To(Shop, b2), Ask("unlinkShop"), Shop), <<>>),
  Rows(Case(Chain, Shop, To(New("create", <<"shopify">>), b2), Shop, Ask("unlinkShop")), <<>>),
  Rows(Faulty(Case(First, Ask("consent"), Redeem(q1), Redeem(q1), Redeem(q1))), <<>>) }

Cases == BootstrapCases \cup ShopCases \cup InboundCases \cup VisitorCases \cup IntegrationCases \cup LegalCases
=============================================================================
