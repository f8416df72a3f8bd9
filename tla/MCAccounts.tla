----------------------------- MODULE MCAccounts -----------------------------
(* Small instances of Accounts: each plan says who there is and what is asked *)
(* for, and leaves the order and the interleaving open.                       *)
EXTENDS Accounts, TLC

CONSTANTS q1, q2, q3, q4, u1, u2, u3, e1, e2, e3, p1, p2

Call(op, who, email) == [op |-> op, who |-> who, email |-> email, pod |-> p1]
U(op, who) == Call(op, who, e1)
E(op, email) == Call(op, u1, email)
Never == U("none", u1)
Elsewhere(c) == [c EXCEPT !.pod = p2]

Home == (u1 :> e1) @@ (u2 :> e2) @@ (u3 :> e3)
Does4(a, b, c, d) == (q1 :> a) @@ (q2 :> b) @@ (q3 :> c) @@ (q4 :> d)
Case(k1, k2, a, b, c, d) ==
  [ops |-> Does4(a, b, c, d), home |-> Home, pool |-> FALSE, user |-> (u1 :> k1) @@ (u2 :> k2) @@ (u3 :> "none")]
Pooled(c) == [c EXCEPT !.pool = TRUE]

Cases ==
  { \* signing up
    Case("none", "none", E("register", e1), E("activate", e1), E("resend", e1), E("login", e1)),
    Case("none", "none", E("register", e1), E("oauth", e1), E("activate", e1), E("register", e1)),
    Case("owner", "none", Call("invite", u1, e2), Call("register", u2, e2), U("remove", u1), Elsewhere(Call("register", u2, e2))),
    Case("owner", "none", Call("invite", u1, e2), Call("oauth", u2, e2), U("remove", u1), U("requestDeletion", u1)),
    Case("owner", "owner", Call("invite", u1, e3), Call("invite", u2, e3), E("register", e3), U("remove", u1)),
    Case("owner", "none", Call("invite", u1, e3), Call("register", u1, e3), Elsewhere(Call("oauth", u1, e3)), Call("adminEmail", u2, e2)),
    \* codes and passwords
    Case("owner", "none", E("login", e1), E("login", e1), E("login", e1), Never),
    Case("owner", "none", E("login", e3), E("login", e3), E("login", e3), E("login", e3)),
    Case("owner", "none", E("lostPassword", e1), E("resetCode", e1), E("resetCode", e1), E("resetLink", e1)),
    Case("oauth", "none", E("changePassword", e1), E("login", e1), Elsewhere(E("login", e1)), U("logout", u1)),
    \* administrators and identities
    Case("owner", "none", Call("adminCreate", u2, e2), Call("register", u2, e2), Call("invite", u1, e2), Call("adminEmail", u1, e2)),
    Case("owner", "oauth", Call("connect", u1, e2), U("disconnect", u2), Call("oauth", u1, e2), Call("adminVerify", u1, e1)),
    Case("none", "none", E("register", e1), U("adminVerify", u1), E("login", e1), Call("connect", u1, e2)),
    \* sessions
    Case("owner", "none", U("refresh", u1), U("logout", u1), U("refresh", u1), E("login", e1)),
    \* the change of an address
    Case("owner", "none", Call("requestChange", u1, e2), Call("confirmChange", u1, e2), Call("register", u2, e2), U("cancelChange", u1)),
    Case("owner", "none", Call("requestChange", u1, e2), Call("requestChange", u1, e3), Call("confirmChange", u1, e2), U("refresh", u1)),
    Case("owner", "owner", Call("requestChange", u1, e3), Call("confirmChange", u1, e3), Call("invite", u2, e3), Call("confirmChange", u1, e3)),
    \* deletions
    Case("owner", "none", U("requestDeletion", u1), U("cleanup", u1), E("login", e1), U("refresh", u1)),
    Case("owner", "none", U("requestDeletion", u1), U("cleanup", u1), U("cancelDeletion", u1), Elsewhere(U("cleanup", u1))),
    Case("owner", "none", U("requestDeletion", u1), U("adminRestore", u1), U("adminDelete", u1), U("cleanup", u1)),
    Case("scheduled", "none", U("oauth", u1), Call("invite", u1, e2), Call("register", u2, e2), U("cleanup", u1)),
    \* members and the rotation
    Pooled(Case("owner", "member", U("handover", u1), U("handover", u1), U("handover", u1), U("remove", u1))),
    Pooled(Case("owner", "member", U("handover", u1), U("roster", u1), U("handover", u1), Never)),
    Case("owner", "member", U("roster", u1), U("remove", u1), U("handover", u1), Never) }

=============================================================================
