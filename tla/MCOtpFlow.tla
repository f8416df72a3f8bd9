----------------------------- MODULE MCOtpFlow -----------------------------
(***************************************************************************)
(* Small instances of OtpFlow: each plan says what the requests are, and   *)
(* leaves their order, their interleaving and their outcome open.          *)
(***************************************************************************)
EXTENDS OtpFlow, TLC

CONSTANTS q1, q2, q3, c1, c2, a1, a2

\* A bot that asks for everything, and one that asks for both codes only.
Full == [mail |-> FALSE, sms |-> TRUE, kvkk |-> TRUE, gate |-> TRUE]
Codes == [mail |-> TRUE, sms |-> TRUE, kvkk |-> FALSE, gate |-> FALSE]

Asks(t, c) == [op |-> "request", table |-> t, chat |-> c, addr |-> a1]
Verify(t, c) == [op |-> "verify", table |-> t, chat |-> c, addr |-> a1]
OtherPhone(r) == [r EXCEPT !.addr = a2]
Rescue(t, c) == [op |-> "rescue", table |-> t, chat |-> c, addr |-> a1]
Submits(c) == [op |-> "submit", table |-> "leadSms", chat |-> c, addr |-> a1]
Never(c) == Rescue("leadMail", c)

Plan(x, y, z, b, n, m, f) ==
  [asks |-> (q1 :> x) @@ (q2 :> y) @@ (q3 :> z), bot |-> b,
   consents |-> n, picks |-> m, failures |-> f]

\* Two requests of one flow or of two, three by mail; a request and what follows it, twice; a
\* code sent again with a new consent; a code, its verification and the lead,
\* in the widget (c1) and on another channel (c2); two phones in one chat, and
\* one phone in two.
Cases == {
  Plan(Asks("leadSms", c1), Asks("leadSms", c1), Never(c1), Full, 1, 1, FALSE),
  Plan(Asks("leadSms", c1), Asks("bookSms", c1), Never(c1), Full, 1, 1, FALSE),
  Plan(Asks("leadMail", c1), Asks("leadMail", c1), Asks("leadMail", c1), Codes, 0, 0, FALSE),
  Plan(Asks("leadSms", c1), Rescue("leadSms", c1), Rescue("leadSms", c1), Full, 1, 1, FALSE),
  Plan(Asks("leadSms", c1), Verify("leadSms", c1), Verify("leadSms", c1), Full, 1, 0, FALSE),
  Plan(Asks("bookMail", c1), Verify("bookMail", c1), Verify("bookMail", c1), Full, 0, 0, FALSE),
  Plan(Asks("leadSms", c1), Asks("leadSms", c1), Verify("leadSms", c1), Full, 1, 0, FALSE),
  Plan(Asks("leadSms", c1), Verify("leadSms", c1), Submits(c1), Full, 2, 0, FALSE),
  Plan(Asks("leadSms", c1), Verify("leadSms", c1), Submits(c1), Full, 1, 0, TRUE),
  Plan(Asks("leadSms", c2), Verify("leadSms", c2), Submits(c2), Full, 1, 0, TRUE),
  Plan(Asks("leadMail", c1), Verify("leadMail", c1), Submits(c1), Codes, 0, 0, TRUE),
  Plan(Asks("bookMail", c1), Verify("bookMail", c1), Submits(c1), Full, 1, 0, TRUE),
  Plan(Asks("leadSms", c1), OtherPhone(Asks("leadSms", c1)), Verify("leadSms", c1), Full, 1, 0, FALSE),
  Plan(Asks("leadSms", c1), Asks("leadSms", c2), Verify("leadSms", c1), Full, 2, 0, FALSE)}

CapOf == [t \in Tables |-> 2]
SpanOf == [t \in Tables |-> 3]
TtlOf == [t \in Tables |-> IF t \in Lead THEN 2 ELSE 3]
=============================================================================
