------------------------------ MODULE Accounts ------------------------------
(***************************************************************************)
(* Accounts and teams: registration and its codes, sign-in by password and *)
(* by a provider, sessions, password resets, the change of an address, the *)
(* deletion of an account with its grace period and the nightly cleanup,   *)
(* invitations, members, and the rotation of live-chat agents.             *)
(*                                                                         *)
(* A call is one request (or one run of the cleanup) on some pod; its      *)
(* steps lie between the awaits.  A user makes at most one team, which has *)
(* the user's name.  The grace period of 30 days passes at any time, and   *)
(* so do the 15 minutes a pod's cache keeps a count of tries or a lock.    *)
(***************************************************************************)
EXTENDS Integers, Sequences, FiniteSets, FiniteSetsExt

CONSTANTS
  Calls,    \* requests; each is made at most once
  Users,    \* the rows accounts may take
  Emails,   \* addresses, and the identity the provider vouches for at each
  Pods,
  MaxTries, \* wrong codes before the lock (MAX_ATTEMPTS)
  Plans,    \* what an instance may do
  None

Guessing == {"activate", "resetCode", "confirmChange", "login"}
Ops == Guessing \cup {"register", "oauth", "refresh", "logout", "lostPassword", "resetLink", "changePassword",
        "requestChange", "cancelChange", "resend", "requestDeletion", "cancelDeletion", "adminDelete",
        "adminRestore", "adminCreate", "adminVerify", "adminEmail", "connect", "disconnect", "cleanup", "invite", "remove", "roster", "handover", "none"}
Op == [op : Ops, who : Users, email : Emails, pod : Pods]

\* The accounts there are have addresses of their own, and members a team.
Populated(p) ==
  /\ \A u, v \in Users : u # v /\ p.user[u] # "none" /\ p.user[v] # "none" => p.home[u] # p.home[v]
  /\ (\E u \in Users : p.user[u] = "member") => \E u \in Users : p.user[u] \notin {"none", "member"}

ASSUME PlanAssumption ==
  /\ MaxTries \in Nat \ {0} /\ IsFiniteSet(Users) /\ None \notin Users \cup Emails
  /\ Plans \subseteq [ops : [Calls -> Op], home : [Users -> Emails], pool : BOOLEAN,
                      user : [Users -> {"none", "owner", "member", "scheduled", "oauth"}]]
  /\ \A p \in Plans : Populated(p)

VARIABLES
  plan,
  user,    \* [Users -> User row, and the access token the person holds]
  team,    \* [Users -> team made by that user]
  member,  \* Seq(TeamMember row), in the order of creation
  mailed,  \* [Emails -> codes sent to the address]
  codes,   \* how many codes were drawn; a code is its number
  tries,   \* wrong attempts in the cache of a pod, by pod, kind and subject
  locked,  \* the locks in the cache of a pod
  spent,   \* history: the wrong answers whose count was cleared, or expired
  call     \* [Calls -> local state]

vars == <<plan, user, team, member, mailed, codes, tries, locked, spent, call>>
teams == <<team, member>>
outbox == <<mailed, codes>>
cache == <<tries, locked, spent>>

NoUser == [st |-> "none", email |-> None, verified |-> FALSE, act |-> 0, reset |-> 0, pend |-> None,
           pcode |-> 0, session |-> FALSE, token |-> "none", deleted |-> FALSE, due |-> "none",
           pass |-> FALSE, id |-> None]
NoTeam == [st |-> "none", default |-> None, last |-> None, quota |-> FALSE]
NewTeam(u) == [NoTeam EXCEPT !.st = "live", !.default = u]
Row(t, u, e, status, chat) == [team |-> t, user |-> u, email |-> e, status |-> status, chat |-> chat]
Idle == [pc |-> "new", user |-> None, row |-> 0, code |-> 0, seen |-> 0, to |-> None, set |-> {}, end |-> "none",
         since |-> {}]

Existing(u) ==
  LET kind == plan.user[u]
  IN [NoUser EXCEPT !.st = "live", !.email = plan.home[u], !.verified = TRUE, !.session = TRUE,
        !.token = IF kind = "scheduled" THEN "none" ELSE "held", !.pass = kind # "oauth",
        !.id = IF kind \in {"oauth", "scheduled"} THEN plan.home[u] ELSE None,
        !.deleted = kind = "scheduled", !.due = IF kind = "scheduled" THEN "set" ELSE "none"]
InOrder(S) == CHOOSE s \in [1 .. Cardinality(S) -> S] : {s[i] : i \in DOMAIN s} = S

Init ==
  /\ plan \in Plans
  /\ user = [u \in Users |-> IF plan.user[u] = "none" THEN NoUser ELSE Existing(u)]
  /\ LET owners == {u \in Users : plan.user[u] \notin {"none", "member"}}
         rest == {u \in Users : plan.user[u] = "member"}
     IN /\ team = [u \in Users |-> IF u \in owners THEN [NewTeam(u) EXCEPT !.quota = TRUE] ELSE NoTeam]
        /\ member = [i \in 1 .. Cardinality(owners) |->
                       Row(InOrder(owners)[i], InOrder(owners)[i], None, "active", plan.pool)]
                    \o [i \in 1 .. Cardinality(rest) |->
                       Row(InOrder(owners)[1], InOrder(rest)[i], plan.home[InOrder(rest)[i]], "active", plan.pool)]
  /\ mailed = [e \in Emails |-> {}] /\ codes = 0 /\ tries = <<>> /\ locked = {} /\ spent = {}
  /\ call = [q \in Calls |-> Idle]

-----------------------------------------------------------------------------
Does(q) == plan.ops[q]
Over == {"done", "dead"}
Begun(q, local) == [local EXCEPT !.since = {r \in Calls : call[r].pc \in Over}]
Starts(q, ops, local) ==
  call[q].pc = "new" /\ Does(q).op \in ops /\ call' = [call EXCEPT ![q] = Begun(q, local)]
Moves(q, from, local) == call[q].pc = from /\ call' = [call EXCEPT ![q] = local]
Goes(q, from, to) == Moves(q, from, [call[q] EXCEPT !.pc = to])
Ends(q, from, how) == Moves(q, from, [call[q] EXCEPT !.pc = "done", !.end = how])
Ending(q, how) == [call[q] EXCEPT !.pc = "done", !.end = how]
At(q, pc, u) == [call[q] EXCEPT !.pc = pc, !.user = u]

Live(u) == u \in Users /\ user[u].st = "live"
With(e) == {u \in Users : Live(u) /\ user[u].email = e}
Holder(e) == CHOOSE u \in With(e) : TRUE
Set(u, r) == user' = [user EXCEPT ![u] = r]
Rows(t, e) == {i \in DOMAIN member : member[i].team = t /\ member[i].email = e /\ member[i].status # "removed"}
Members(t) == {i \in DOMAIN member : member[i].team = t /\ member[i].status = "active"}
\* Mutation: a withdrawn invitation counts.
InvitedEver(e) == {i \in DOMAIN member : member[i].email = e /\ member[i].status # "active"}
Invited(e) == {i \in DOMAIN member : member[i].email = e /\ member[i].status = "pending"}
OwnerOf(u, t) == t = u /\ team[t].st = "live" /\ \E i \in Members(t) : member[i].user = u
\* getUserPrimaryTeamId: the team owned, else a team joined.
HasTeam(u) == team[u].st = "live" \/ \E i \in DOMAIN member : member[i].user = u /\ member[i].status = "active"
\* The token an answer carries dies with a day, long before the grace period ends.
Token(u) == IF user[u].deleted THEN "late" ELSE "held"
\* Only someone who holds an access token reaches the routes behind the guard.
SignedIn(q) == user[Does(q).who].token # "none"

-----------------------------------------------------------------------------
(* register, googleLogin and an administrator's createUser: find, create,  *)
(* join or make a team, sign in.  An administrator looks at no invitation. *)
FirstOf(S) == IF S = {} THEN 0 ELSE Min(S)

FindAccount(q) ==
  LET e == Does(q).email
      taken == With(e) # {}
  IN /\ Starts(q, {"register", "adminCreate"},
               IF taken THEN Ending(q, "conflict")
               ELSE [call[q] EXCEPT !.pc = "create",
                       !.row = IF Does(q).op = "register" THEN FirstOf(Invited(e)) ELSE 0])
     /\ UNCHANGED <<plan, user, teams, outbox, cache>>
Identified(e) == {u \in Users : Live(u) /\ user[u].id = e}
\* The identity first, then the address, whose account learns the identity.
FindIdentity(q) ==
  LET e == Does(q).email
      known == Identified(e)
      found == IF known # {} THEN known ELSE With(e)
  IN /\ Starts(q, {"oauth"}, IF found = {} THEN [call[q] EXCEPT !.pc = "create", !.row = FirstOf(Invited(e))]
                             ELSE At(q, "signIn", CHOOSE u \in found : TRUE))
     /\ user' = [u \in Users |-> IF known = {} /\ u \in found /\ user[u].id = None THEN [user[u] EXCEPT !.id = e]
                                 ELSE user[u]]
     /\ UNCHANGED <<plan, teams, outbox, cache>>

Unused == {u \in Users : user[u].st = "none"}
NewUser(op, e, c) ==
  [NoUser EXCEPT !.st = "live", !.email = e, !.verified = op # "register", !.pass = op # "oauth",
     !.act = IF op = "register" THEN c ELSE 0, !.id = IF op = "oauth" THEN e ELSE None]
\* Addresses and identities are unique: the loser of a race is told so, or fails.
CreateUser(q) ==
  LET e == Does(q).email
      op == Does(q).op
      u == CHOOSE x \in Unused : TRUE
  IN IF With(e) # {} \/ (op = "oauth" /\ Identified(e) # {})
     THEN Ends(q, "create", "conflict") /\ UNCHANGED <<plan, user, teams, outbox, cache>>
     ELSE /\ Unused # {}
          /\ Moves(q, "create", [At(q, IF call[q].row = 0 THEN "team" ELSE "join", u) EXCEPT !.seen = codes + 1])
          /\ codes' = IF op = "register" THEN codes + 1 ELSE codes
          /\ Set(u, NewUser(op, e, codes + 1))
          /\ UNCHANGED <<plan, teams, mailed, cache>>
AfterTeam(q) == CASE Does(q).op = "register" -> "mail" [] Does(q).op = "oauth" -> "signIn" [] OTHER -> "done"
\* The invitation's row by its id: when it is gone, the account stays without a team.
JoinTeam(q) ==
  /\ call[q].pc = "join"
  /\ IF member[call[q].row].status = "removed"
     THEN Ends(q, "join", "threw") /\ UNCHANGED member
     ELSE /\ Goes(q, "join", AfterTeam(q))
          /\ member' = [member EXCEPT ![call[q].row].user = call[q].user, ![call[q].row].status = "active"]
  /\ UNCHANGED <<plan, user, team, outbox, cache>>
MakeTeam(q) ==
  /\ Goes(q, "team", "owner")
  /\ team' = [team EXCEPT ![call[q].user] = [NewTeam(call[q].user) EXCEPT !.default = IF Does(q).op = "adminCreate" THEN None ELSE @]]
  /\ UNCHANGED <<plan, user, member, outbox, cache>>
MakeOwner(q) ==
  /\ Goes(q, "owner", "quotas")
  /\ member' = Append(member, Row(call[q].user, call[q].user, None, "active", Does(q).op # "adminCreate"))
  /\ UNCHANGED <<plan, user, team, outbox, cache>>
MakeQuotas(q) ==
  /\ Goes(q, "quotas", AfterTeam(q)) /\ team' = [team EXCEPT ![call[q].user].quota = TRUE]
  /\ UNCHANGED <<plan, user, member, outbox, cache>>
Post(e, c) == mailed' = [mailed EXCEPT ![e] = @ \cup {c}]
SendRegisterMail(q) ==
  /\ Ends(q, "mail", "registered") /\ Post(Does(q).email, call[q].seen)
  /\ UNCHANGED <<plan, user, teams, codes, cache>>

\* Tokens, then the refresh token is stored.
SignIn(q) ==
  LET u == call[q].user
  IN /\ call[q].pc = "signIn"
     /\ IF Live(u) /\ HasTeam(u)
        THEN Ends(q, "signIn", "in") /\ Set(u, [user[u] EXCEPT !.session = TRUE, !.token = Token(u)])
        ELSE Ends(q, "signIn", "threw") /\ UNCHANGED user
     /\ UNCHANGED <<plan, teams, outbox, cache>>

-----------------------------------------------------------------------------
(* Wrong codes and passwords: the counter is read, then written.           *)
Subject(q) == IF Does(q).op = "confirmChange" THEN Does(q).who ELSE Does(q).email
Key(q) == <<Does(q).pod, Does(q).op, Subject(q)>>
Locked(q) == Key(q) \in locked
Tries(k) == IF k \in DOMAIN tries THEN tries[k] ELSE 0
Forget(K) == tries' = [k \in DOMAIN tries \ K |-> tries[k]]
Misses(k) == {q \in Calls : Does(q).op \in Guessing /\ call[q].end = "wrong" /\ Key(q) = k}
Wrong(q, local) == [local EXCEPT !.pc = "wrong", !.seen = Tries(Key(q))]

\* Mutation: one attempt more.
CountTryLate(q) ==
  LET n == call[q].seen + 1
  IN /\ Ends(q, "wrong", "wrong")
     /\ IF n > MaxTries + 1 THEN locked' = locked \cup {Key(q)} /\ Forget({Key(q)})
        ELSE tries' = [k \in DOMAIN tries \cup {Key(q)} |-> IF k = Key(q) THEN n ELSE tries[k]] /\ UNCHANGED locked
     /\ UNCHANGED <<plan, user, teams, outbox, spent>>
CountTry(q) ==
  LET n == call[q].seen + 1
  IN /\ Ends(q, "wrong", "wrong")
     /\ IF n >= MaxTries THEN locked' = locked \cup {Key(q)} /\ Forget({Key(q)})
        ELSE tries' = [k \in DOMAIN tries \cup {Key(q)} |-> IF k = Key(q) THEN n ELSE tries[k]] /\ UNCHANGED locked
     /\ UNCHANGED <<plan, user, teams, outbox, spent>>
\* What the person types: some code sent to the address, or none of them.
Typed(e) == mailed[e] \cup {0}
Answers(q, local) == call[q].pc = "new" /\ call' = [call EXCEPT ![q] = Begun(q, local)]
Right(q, c, local) ==
  /\ Answers(q, [local EXCEPT !.code = c])
  /\ Forget({Key(q)}) /\ locked' = locked \ {Key(q)} /\ spent' = spent \cup Misses(Key(q))
Refused(q, how) == Answers(q, Ending(q, how)) /\ UNCHANGED cache
\* Both entries live LOCK_TTL_MS from their last write; then guessing starts again.
CountExpires(k) ==
  /\ k \in DOMAIN tries /\ Forget({k}) /\ spent' = spent \cup Misses(k)
  /\ UNCHANGED <<plan, user, teams, outbox, locked, call>>
LockExpires(k) ==
  /\ k \in locked /\ locked' = locked \ {k} /\ spent' = spent \cup Misses(k)
  /\ UNCHANGED <<plan, user, teams, outbox, tries, call>>

ReadActivation(q) ==
  LET e == Does(q).email
      right == {c \in Typed(e) \ {0} : With(e) # {} /\ user[Holder(e)].act = c}
  IN /\ Does(q).op = "activate"
     /\ \/ Locked(q) /\ Refused(q, "locked")
        \/ /\ ~Locked(q)
           /\ \E c \in Typed(e) : IF c \in right THEN Right(q, c, At(q, "verify", Holder(e)))
                                  ELSE Answers(q, Wrong(q, call[q])) /\ UNCHANGED cache
     /\ UNCHANGED <<plan, user, teams, outbox>>
\* The tokens it answers with are not stored.
Verify(q) ==
  LET u == call[q].user
  IN /\ call[q].pc = "verify" /\ Ends(q, "verify", IF Live(u) /\ HasTeam(u) THEN "verified" ELSE "threw")
     /\ IF Live(u) THEN Set(u, [user[u] EXCEPT !.verified = TRUE, !.act = 0,
                                  !.token = IF HasTeam(u) THEN Token(u) ELSE @])
        ELSE UNCHANGED user
     /\ UNCHANGED <<plan, teams, outbox, cache>>

\* Resending draws a new code, by the user's id or by the address.
ResendCode(q) ==
  LET e == Does(q).email
      open == {u \in With(e) : ~user[u].verified}
  IN /\ Starts(q, {"resend"}, Ending(q, "sent"))
     /\ IF open = {} THEN UNCHANGED <<user, outbox>>
        ELSE codes' = codes + 1 /\ Post(e, codes + 1) /\ Set(Holder(e), [user[Holder(e)] EXCEPT !.act = codes + 1])
     /\ UNCHANGED <<plan, teams, cache>>

\* The password may be right or wrong; an account that waits for its deletion
\* comes back, one whose grace period is over does not.
ReadLogin(q) ==
  LET e == Does(q).email
      u == Holder(e)
      pc == CASE ~user[u].verified -> "done"
              [] user[u].verified /\ ~user[u].deleted -> "signIn"
              [] user[u].verified /\ user[u].deleted -> IF user[u].due = "set" THEN "restore" ELSE "done"
  IN /\ Does(q).op = "login"
     /\ \/ Locked(q) /\ Refused(q, "locked")
        \/ ~Locked(q) /\ With(e) # {} /\ ~user[u].pass /\ Refused(q, "threw")
        \/ ~Locked(q) /\ (\A x \in With(e) : user[x].pass) /\ Answers(q, Wrong(q, call[q])) /\ UNCHANGED cache
        \/ ~Locked(q) /\ With(e) # {} /\ user[u].pass /\ Right(q, 0, At(q, pc, u))
     /\ UNCHANGED <<plan, user, teams, outbox>>
Restored(u) == [user[u] EXCEPT !.deleted = FALSE, !.due = "none"]
Restore(q) ==
  LET u == call[q].user
  IN /\ call[q].pc = "restore"
     /\ IF Live(u) THEN Goes(q, "restore", "signIn") /\ Set(u, Restored(u))
        ELSE Ends(q, "restore", "threw") /\ UNCHANGED user
     /\ UNCHANGED <<plan, teams, outbox, cache>>

-----------------------------------------------------------------------------
(* Sessions.                                                               *)
\* Mutation: the stored token is not looked at.
MayRefreshAny(u) == Live(u) /\ HasTeam(u)
MayRefresh(u) == Live(u) /\ user[u].session /\ HasTeam(u)
ReadSession(q) ==
  LET u == Does(q).who
  IN /\ SignedIn(q)
     /\ Starts(q, {"refresh"}, IF MayRefresh(u) THEN At(q, "renew", u) ELSE Ending(q, "refused"))
     /\ UNCHANGED <<plan, user, teams, outbox, cache>>
Renew(q) ==
  LET u == call[q].user
  IN /\ call[q].pc = "renew"
     /\ IF Live(u) THEN /\ Ends(q, "renew", "in")
                        /\ Set(u, [user[u] EXCEPT !.session = TRUE, !.token = Token(u)])
        ELSE Ends(q, "renew", "threw") /\ UNCHANGED user
     /\ UNCHANGED <<plan, teams, outbox, cache>>
Logout(q) ==
  /\ SignedIn(q) /\ Starts(q, {"logout"}, At(q, "done", Does(q).who)) /\ Live(Does(q).who)
  /\ Set(Does(q).who, [user[Does(q).who] EXCEPT !.session = FALSE])
  /\ UNCHANGED <<plan, teams, outbox, cache>>

-----------------------------------------------------------------------------
(* Passwords: lostPassword and lostPasswordMobile, resetPasswordByCode,    *)
(* resetPassword, changePassword.                                          *)
LostPassword(q) ==
  LET e == Does(q).email
  IN /\ Starts(q, {"lostPassword"}, Ending(q, "sent"))
     /\ IF With(e) = {} THEN UNCHANGED <<user, outbox>>
        ELSE codes' = codes + 1 /\ Post(e, codes + 1) /\ Set(Holder(e), [user[Holder(e)] EXCEPT !.reset = codes + 1])
     /\ UNCHANGED <<plan, teams, cache>>
\* The code in the app has a lock, the link in the mail has none; a code that is
\* too old is cleared.
ReadReset(q) ==
  LET e == Does(q).email
      u == Holder(e)
      asked == With(e) # {} /\ user[u].reset # 0
      link == Does(q).op = "resetLink"
  IN /\ Does(q).op \in {"resetCode", "resetLink"}
     /\ \/ ~link /\ Locked(q) /\ Refused(q, "locked")
        \/ asked /\ (link \/ ~Locked(q)) /\ Answers(q, At(q, "expire", u)) /\ UNCHANGED cache
        \/ \E c \in Typed(e) :
             IF asked /\ user[u].reset = c
             THEN IF link THEN Answers(q, [At(q, "reset", u) EXCEPT !.code = c]) /\ UNCHANGED cache
                  ELSE ~Locked(q) /\ Right(q, c, At(q, "reset", u))
             ELSE IF link THEN Refused(q, "wrong")
                  ELSE ~Locked(q) /\ Answers(q, Wrong(q, call[q])) /\ UNCHANGED cache
     /\ UNCHANGED <<plan, user, teams, outbox>>
ExpireReset(q) ==
  LET u == call[q].user
  IN /\ call[q].pc = "expire" /\ Ends(q, "expire", "expired")
     /\ IF Live(u) THEN Set(u, [user[u] EXCEPT !.reset = 0]) ELSE UNCHANGED user
     /\ UNCHANGED <<plan, teams, outbox, cache>>
WriteReset(q) ==
  LET u == call[q].user
  IN /\ call[q].pc = "reset"
     /\ IF Live(u) THEN Ends(q, "reset", "reset") /\ Set(u, [user[u] EXCEPT !.pass = TRUE, !.reset = 0])
        ELSE Ends(q, "reset", "threw") /\ UNCHANGED user
     /\ UNCHANGED <<plan, teams, outbox, cache>>
\* An account of a provider sets its first password this way.
ChangePassword(q) ==
  LET u == Does(q).who
  IN /\ SignedIn(q) /\ Live(u) /\ Starts(q, {"changePassword"}, Ending(q, "changed"))
     /\ Set(u, [user[u] EXCEPT !.pass = TRUE])
     /\ UNCHANGED <<plan, teams, outbox, cache>>

-----------------------------------------------------------------------------
(* The identity of a provider: connectGoogleAccount, disconnectGoogleAccount. *)
AskConnect(q) ==
  LET u == Does(q).who
  IN /\ SignedIn(q) /\ Live(u)
     /\ Starts(q, {"connect"}, IF Identified(Does(q).email) \subseteq {u} THEN At(q, "link", u) ELSE Ending(q, "refused"))
     /\ UNCHANGED <<plan, user, teams, outbox, cache>>
Connect(q) ==
  LET u == call[q].user
      e == Does(q).email
  IN /\ call[q].pc = "link"
     /\ IF Live(u) /\ Identified(e) \subseteq {u} THEN Ends(q, "link", "linked") /\ Set(u, [user[u] EXCEPT !.id = e])
        ELSE Ends(q, "link", "threw") /\ UNCHANGED user
     /\ UNCHANGED <<plan, teams, outbox, cache>>
Disconnect(q) ==
  LET u == Does(q).who
  IN /\ SignedIn(q) /\ Live(u) /\ user[u].id # None /\ Starts(q, {"disconnect"}, Ending(q, "unlinked"))
     /\ Set(u, [user[u] EXCEPT !.id = None])
     /\ UNCHANGED <<plan, teams, outbox, cache>>

-----------------------------------------------------------------------------
(* The change of an address: requestEmailChange, confirmEmailChange,       *)
(* cancelEmailChange.                                                      *)
AskChange(q) ==
  LET u == Does(q).who
      e == Does(q).email
  IN /\ SignedIn(q) /\ Live(u)
     /\ Starts(q, {"requestChange"},
               IF user[u].pass /\ e # user[u].email /\ With(e) = {} THEN At(q, "pend", u) ELSE Ending(q, "refused"))
     /\ UNCHANGED <<plan, user, teams, outbox, cache>>
ParkChange(q) ==
  LET u == call[q].user
      e == Does(q).email
  IN /\ call[q].pc = "pend"
     /\ IF Live(u)
        THEN /\ Ends(q, "pend", "asked") /\ codes' = codes + 1 /\ Post(e, codes + 1)
             /\ Set(u, [user[u] EXCEPT !.pend = e, !.pcode = codes + 1])
        ELSE Ends(q, "pend", "threw") /\ UNCHANGED <<user, outbox>>
     /\ UNCHANGED <<plan, teams, cache>>
Unparked(r) == [r EXCEPT !.pend = None, !.pcode = 0]
ClearChange(q) ==
  LET u == call[q].user
  IN /\ call[q].pc = "clear" /\ Ends(q, "clear", "cleared")
     /\ IF Live(u) THEN Set(u, Unparked(user[u])) ELSE UNCHANGED user
     /\ UNCHANGED <<plan, teams, outbox, cache>>
ReadChange(q) ==
  LET u == Does(q).who
  IN /\ Does(q).op = "confirmChange" /\ SignedIn(q) /\ Live(u)
     /\ \/ Locked(q) /\ Refused(q, "locked")
        \/ ~Locked(q) /\ user[u].pend = None /\ Refused(q, "nothing")
        \/ ~Locked(q) /\ user[u].pend # None /\ Answers(q, At(q, "clear", u)) /\ UNCHANGED cache  \* expired
        \/ /\ ~Locked(q) /\ user[u].pend # None
           /\ \E c \in Typed(user[u].pend) :
                IF c = user[u].pcode THEN Right(q, c, [At(q, "change", u) EXCEPT !.to = user[u].pend])
                ELSE Answers(q, Wrong(q, call[q])) /\ UNCHANGED cache
     /\ UNCHANGED <<plan, user, teams, outbox>>
Changed(u, e) == [Unparked(user[u]) EXCEPT !.email = e, !.verified = TRUE, !.session = FALSE]
\* The address that was read; another account may have taken it in between.
ChangeAddress(q) ==
  LET u == call[q].user
      e == call[q].to
  IN /\ call[q].pc = "change"
     /\ IF ~Live(u) THEN Ends(q, "change", "threw") /\ UNCHANGED user
        ELSE IF With(e) \ {u} # {} THEN Goes(q, "change", "clear") /\ UNCHANGED user
        ELSE Ends(q, "change", "changed") /\ Set(u, Changed(u, e))
     /\ UNCHANGED <<plan, teams, outbox, cache>>
\* By the token of the notice, with no session.
FindChange(q) ==
  /\ Starts(q, {"cancelChange"}, IF Live(Does(q).who) /\ user[Does(q).who].pend # None THEN At(q, "clear", Does(q).who)
                                 ELSE Ending(q, "nothing"))
  /\ UNCHANGED <<plan, user, teams, outbox, cache>>

-----------------------------------------------------------------------------
(* The deletion of an account, and the nightly cleanup on every pod.       *)
Others(u) == {i \in Members(u) : member[i].user # u}
Pending(t) == {i \in DOMAIN member : member[i].team = t /\ member[i].status = "pending"}
Eligible(u) == team[u].st = "live" => Others(u) = {} /\ Pending(u) = {}
CheckEligible(q) ==
  LET u == Does(q).who
  IN /\ SignedIn(q) /\ Live(u)
     /\ Starts(q, {"requestDeletion"}, IF Eligible(u) /\ ~user[u].deleted THEN At(q, "schedule", u) ELSE Ending(q, "refused"))
     /\ UNCHANGED <<plan, user, teams, outbox, cache>>
Schedule(q) ==
  LET u == call[q].user
  IN /\ call[q].pc = "schedule"
     /\ IF Live(u)
        THEN Ends(q, "schedule", "scheduled") /\ Set(u, [user[u] EXCEPT !.deleted = TRUE, !.due = "set", !.session = FALSE])
        ELSE Ends(q, "schedule", "threw") /\ UNCHANGED user
     /\ UNCHANGED <<plan, teams, outbox, cache>>
\* cancelAccountDeletion: the restore is the one a login makes.
ReadDeletion(q) ==
  LET u == Does(q).who
  IN /\ SignedIn(q) /\ Live(u)
     /\ Starts(q, {"cancelDeletion"}, IF user[u].deleted THEN At(q, "cancel", u) ELSE Ending(q, "refused"))
     /\ UNCHANGED <<plan, user, teams, outbox, cache>>
CancelDeletion(q) ==
  LET u == call[q].user
  IN /\ call[q].pc = "cancel"
     /\ IF Live(u) THEN Ends(q, "cancel", "restored") /\ Set(u, Restored(u))
        ELSE Ends(q, "cancel", "threw") /\ UNCHANGED user
     /\ UNCHANGED <<plan, teams, outbox, cache>>
\* An administrator only moves the mark: the date of a deletion asked for stays.
AdminDelete(q) ==
  LET u == Does(q).who
  IN /\ Live(u) /\ ~user[u].deleted /\ Starts(q, {"adminDelete"}, Ending(q, "deleted"))
     /\ Set(u, [user[u] EXCEPT !.deleted = TRUE])
     /\ UNCHANGED <<plan, teams, outbox, cache>>
AdminRestore(q) ==
  LET u == Does(q).who
  IN /\ Live(u) /\ user[u].deleted /\ Starts(q, {"adminRestore"}, Ending(q, "restored"))
     /\ Set(u, [user[u] EXCEPT !.deleted = FALSE])
     /\ UNCHANGED <<plan, teams, outbox, cache>>
AdminVerify(q) ==
  LET u == Does(q).who
  IN /\ Live(u) /\ ~user[u].verified /\ Starts(q, {"adminVerify"}, [Ending(q, "verified") EXCEPT !.user = u])
     /\ Set(u, [user[u] EXCEPT !.verified = TRUE])
     /\ UNCHANGED <<plan, teams, outbox, cache>>
\* An address an administrator writes is verified by nobody.
AdminAskEmail(q) ==
  /\ Live(Does(q).who)
  /\ Starts(q, {"adminEmail"}, IF With(Does(q).email) = {} THEN At(q, "email", Does(q).who) ELSE Ending(q, "refused"))
  /\ UNCHANGED <<plan, user, teams, outbox, cache>>
AdminEmail(q) ==
  LET u == call[q].user
      e == Does(q).email
  IN /\ call[q].pc = "email"
     /\ IF Live(u) /\ With(e) \subseteq {u} THEN Ends(q, "email", "saved") /\ Set(u, [user[u] EXCEPT !.email = e])
        ELSE Ends(q, "email", "threw") /\ UNCHANGED user
     /\ UNCHANGED <<plan, teams, outbox, cache>>
\* Thirty days pass: only tokens given out meanwhile are still good.
GracePasses(u) ==
  /\ user[u].st = "live" /\ user[u].due = "set"
  /\ Set(u, [user[u] EXCEPT !.due = "past", !.token = IF @ = "late" THEN "late" ELSE "none"])
  /\ UNCHANGED <<plan, teams, outbox, cache, call>>

Doomed == {u \in Users : Live(u) /\ user[u].deleted /\ user[u].due = "past"}
ListDeleted(q) ==
  /\ Starts(q, {"cleanup"}, [call[q] EXCEPT !.pc = IF Doomed = {} THEN "done" ELSE "next", !.set = Doomed])
  /\ UNCHANGED <<plan, user, teams, outbox, cache>>
ToNext(q) == [call[q] EXCEPT !.pc = IF call[q].set = {} THEN "done" ELSE "next"]
Alone(u) == Others(u) = {}
InspectTeam(q) ==
  /\ call[q].pc = "next"
  /\ \E u \in call[q].set :
       Moves(q, "next", [call[q] EXCEPT !.user = u, !.set = @ \ {u},
                           !.pc = IF team[u].st = "live" /\ Alone(u) THEN "dropTeam" ELSE "dropRows"])
  /\ UNCHANGED <<plan, user, teams, outbox, cache>>
OfTeam(t) == {i \in DOMAIN member : member[i].team = t}
OfUser(u) == {i \in DOMAIN member : member[i].user = u}
Without(R) == [i \in DOMAIN member |-> IF i \in R THEN [member[i] EXCEPT !.status = "removed"] ELSE member[i]]
DropTeam(q) ==
  LET u == call[q].user
  IN /\ call[q].pc = "dropTeam"
     /\ IF team[u].st = "live"
        THEN /\ Goes(q, "dropTeam", "dropRows") /\ team' = [team EXCEPT ![u].st = "gone"] /\ member' = Without(OfTeam(u))
        ELSE Moves(q, "dropTeam", ToNext(q)) /\ UNCHANGED teams
     /\ UNCHANGED <<plan, user, outbox, cache>>
DropRows(q) ==
  /\ Goes(q, "dropRows", "dropUser") /\ member' = Without(OfUser(call[q].user))
  /\ UNCHANGED <<plan, user, team, outbox, cache>>
\* The row takes along every team it owns, and their members (onDelete: Cascade).
DropUser(q) ==
  LET u == call[q].user
  IN /\ call[q].pc = "dropUser" /\ Moves(q, "dropUser", ToNext(q))
     /\ IF Live(u)
        THEN /\ Set(u, [NoUser EXCEPT !.st = "gone"]) /\ member' = Without(OfUser(u) \cup OfTeam(u))
             /\ team' = IF team[u].st = "live" THEN [team EXCEPT ![u].st = "gone"] ELSE team
        ELSE UNCHANGED <<user, teams>>
     /\ UNCHANGED <<plan, outbox, cache>>

-----------------------------------------------------------------------------
(* Members: inviteMember, removeMember, updateLiveChatConfig.              *)
MemberByEmail(t, e) ==
  \E i \in DOMAIN member : /\ member[i].team = t /\ member[i].status # "removed"
                           /\ member[i].email = e \/ (Live(member[i].user) /\ user[member[i].user].email = e)
Stranger(t, e) == ~MemberByEmail(t, e) /\ With(e) = {}
CheckInvite(q) ==
  LET t == Does(q).who
      e == Does(q).email
  IN /\ SignedIn(q)
     /\ Starts(q, {"invite"}, IF OwnerOf(t, t) /\ Stranger(t, e) THEN At(q, "invite", t) ELSE Ending(q, "refused"))
     /\ UNCHANGED <<plan, user, teams, outbox, cache>>
CreateInvite(q) ==
  LET t == call[q].user
      e == Does(q).email
  IN /\ call[q].pc = "invite"
     /\ IF team[t].st = "live" /\ Rows(t, e) = {}
        THEN Ends(q, "invite", "invited") /\ member' = Append(member, Row(t, None, e, "pending", FALSE))
        ELSE Ends(q, "invite", "threw") /\ UNCHANGED member
     /\ UNCHANGED <<plan, user, team, outbox, cache>>
\* A member by the user's id, an invitation by its row; never the owner.
FindMember(q) ==
  LET t == Does(q).who
  IN /\ SignedIn(q) /\ OwnerOf(t, t)
     /\ \E i \in DOMAIN member :
          /\ member[i].team = t /\ member[i].status # "removed" /\ member[i].user # t
          /\ Starts(q, {"remove"}, [call[q] EXCEPT !.pc = "remove", !.row = i])
     /\ UNCHANGED <<plan, user, teams, outbox, cache>>
RemoveMember(q) ==
  /\ call[q].pc = "remove"
  /\ IF member[call[q].row].status = "removed" THEN Ends(q, "remove", "threw") /\ UNCHANGED member
     ELSE Ends(q, "remove", "removed") /\ member' = [member EXCEPT ![call[q].row].status = "removed"]
  /\ UNCHANGED <<plan, user, team, outbox, cache>>
\* The flags of those listed, a default among them; the rotation restarts.
ReadRoster(q) ==
  LET t == Does(q).who
      known == {member[i].user : i \in Members(t)}
  IN /\ SignedIn(q) /\ OwnerOf(t, t)
     /\ \E S \in SUBSET known, on \in {0, 1}, d \in known \cup {None, "keep"} :
          Starts(q, {"roster"}, [At(q, "roster", t) EXCEPT !.set = S, !.code = on, !.to = d])
     /\ UNCHANGED <<plan, user, teams, outbox, cache>>
Default(q, t) == IF call[q].to = "keep" THEN team[t].default ELSE call[q].to
Rostered(q, t) == [team[t] EXCEPT !.default = Default(q, t), !.last = None]
Flagged(q, r) ==
  IF r.team # call[q].user \/ r.status # "active" THEN r
  ELSE IF r.user = call[q].to THEN [r EXCEPT !.chat = TRUE]
  ELSE IF r.user \in call[q].set THEN [r EXCEPT !.chat = call[q].code = 1]
  ELSE r
WriteRoster(q) ==
  LET t == call[q].user
      listed == call[q].set \cup ({call[q].to} \ {None, "keep"})
  IN /\ call[q].pc = "roster"
     /\ IF team[t].st = "live" /\ listed \subseteq {member[i].user : i \in Members(t)}
        THEN /\ Ends(q, "roster", "saved") /\ team' = [team EXCEPT ![t] = Rostered(q, t)]
             /\ member' = [i \in DOMAIN member |-> Flagged(q, member[i])]
        ELSE Ends(q, "roster", "threw") /\ UNCHANGED teams
     /\ UNCHANGED <<plan, user, outbox, cache>>

-----------------------------------------------------------------------------
(* A handover to the next agent: resolveAssigneeId, isValidAssignee,       *)
(* recordLiveChatAssignment.                                               *)
Pool(t) == {i \in Members(t) : member[i].chat}
\* Mutation: the rotation starts again when it should not.
NextInFirst(t) ==
  IF Pool(t) # {} THEN member[Min(Pool(t))].user ELSE IF team[t].default # None THEN team[t].default ELSE t
\* The agent whose row follows that of the last one, else the first.
NextIn(t) ==
  LET after == {i \in Pool(t) : i > FirstOf({j \in Pool(t) : member[j].user = team[t].last})}
  IN IF Pool(t) # {} THEN member[Min(IF after = {} THEN Pool(t) ELSE after)].user
     ELSE IF team[t].default # None THEN team[t].default ELSE t
Resolve(q) ==
  /\ Starts(q, {"handover"}, IF team[Does(q).who].st = "live"
                             THEN [At(q, "valid", Does(q).who) EXCEPT !.to = NextIn(Does(q).who)]
                             ELSE Ending(q, "nobody"))
  /\ UNCHANGED <<plan, user, teams, outbox, cache>>
Assignee(t, u) == team[t].st = "live" /\ (t = u \/ \E i \in Members(t) : member[i].user = u)
Validate(q) ==
  /\ call[q].pc = "valid"
  /\ IF Assignee(call[q].user, call[q].to) THEN Goes(q, "valid", "assign") ELSE Ends(q, "valid", "nobody")
  /\ UNCHANGED <<plan, user, teams, outbox, cache>>
Assign(q) ==
  /\ call[q].pc = "assign"
  /\ IF team[call[q].user].st = "live" THEN Goes(q, "assign", "record") ELSE Ends(q, "assign", "threw")
  /\ UNCHANGED <<plan, user, teams, outbox, cache>>
Record(q) ==
  LET t == call[q].user
  IN /\ Ends(q, "record", "assigned")
     /\ team' = IF team[t].st = "live" THEN [team EXCEPT ![t].last = call[q].to] ELSE team
     /\ UNCHANGED <<plan, user, member, outbox, cache>>

-----------------------------------------------------------------------------
Die(q) ==
  /\ call[q].pc \notin {"new"} \cup Over /\ call' = [call EXCEPT ![q].pc = "dead"]
  /\ UNCHANGED <<plan, user, teams, outbox, cache>>

SignUpStep(q) ==
  \/ FindAccount(q) \/ FindIdentity(q) \/ CreateUser(q) \/ JoinTeam(q) \/ MakeTeam(q) \/ MakeOwner(q)
  \/ MakeQuotas(q) \/ SendRegisterMail(q) \/ SignIn(q)
  \/ ReadActivation(q) \/ Verify(q) \/ ResendCode(q)
SessionStep(q) ==
  \/ CountTry(q) \/ ReadLogin(q) \/ Restore(q) \/ ReadSession(q) \/ Renew(q) \/ Logout(q)
  \/ LostPassword(q) \/ ReadReset(q) \/ ExpireReset(q) \/ WriteReset(q) \/ ChangePassword(q)
  \/ AskChange(q) \/ ParkChange(q) \/ ReadChange(q) \/ ChangeAddress(q) \/ FindChange(q) \/ ClearChange(q)
  \/ AskConnect(q) \/ Connect(q) \/ Disconnect(q)
DeletionStep(q) ==
  \/ CheckEligible(q) \/ Schedule(q) \/ ReadDeletion(q) \/ CancelDeletion(q) \/ AdminDelete(q) \/ AdminRestore(q)
  \/ AdminVerify(q) \/ AdminAskEmail(q) \/ AdminEmail(q)
  \/ ListDeleted(q) \/ InspectTeam(q) \/ DropTeam(q) \/ DropRows(q) \/ DropUser(q)
TeamStep(q) ==
  \/ CheckInvite(q) \/ CreateInvite(q) \/ FindMember(q) \/ RemoveMember(q) \/ ReadRoster(q) \/ WriteRoster(q)
  \/ Resolve(q) \/ Validate(q) \/ Assign(q) \/ Record(q)

Next ==
  \/ \E q \in Calls : SignUpStep(q) \/ SessionStep(q) \/ DeletionStep(q) \/ TeamStep(q) \/ Die(q)
  \/ \E u \in Users : GracePasses(u)
  \/ \E k \in DOMAIN tries : CountExpires(k)
  \/ \E k \in locked : LockExpires(k)

Spec == Init /\ [][Next]_vars

-----------------------------------------------------------------------------
(* Properties.                                                             *)
Started(q) == call[q].pc # "new"
Overlap(q, r) == q # r /\ q \notin call[r].since /\ r \notin call[q].since
Racing(q, ops) == \E r \in Calls : Started(r) /\ Does(r).op \in ops /\ Overlap(q, r)
Did(q, ops, how) == Does(q).op \in ops /\ call[q].end = how
SignUps == {"register", "oauth", "adminCreate"}
ByAdmin(u) == \E q \in Calls : Does(q).op \in {"adminCreate", "adminVerify", "adminEmail"} /\ call[q].user = u

TypeOK ==
  /\ plan \in Plans /\ codes \in Nat /\ spent \subseteq Calls /\ locked \subseteq Pods \X Guessing \X (Users \cup Emails)
  /\ \A u \in Users :
       /\ user[u].st \in {"none", "live", "gone"} /\ team[u].st \in {"none", "live", "gone"}
       /\ user[u].token \in {"none", "held", "late"} /\ user[u].due \in {"none", "set", "past"}
       /\ user[u].due = "none" /\ user[u].deleted => \E q \in Calls : Does(q).op = "adminDelete"
  /\ \A k \in DOMAIN tries : tries[k] \in 1 .. MaxTries - 1
  /\ \A i \in DOMAIN member : /\ member[i].status \in {"pending", "active", "removed"}
                              /\ member[i].status = "active" => member[i].user \in Users
  /\ \A e \in Emails : mailed[e] \subseteq 1 .. codes

\* Two accounts never share an address, and whoever is verified gave back a code
\* that was sent to the address the account has now, or came with a provider's or an
\* administrator's word.
Vouched(u) == ByAdmin(u) \/ \E q \in Calls : Does(q).op = "oauth" /\ Does(q).email = user[u].email /\ call[q].user = u
GaveCode(u) ==
  \E q \in Calls : /\ Does(q).op \in {"activate", "confirmChange"} /\ call[q].user = u
                    /\ call[q].code # 0 /\ call[q].code \in mailed[user[u].email]
VerifiedMailbox ==
  \A u \in Users : Live(u) =>
    /\ With(user[u].email) = {u}
    /\ user[u].verified /\ (plan.user[u] = "none" \/ user[u].email # plan.home[u]) => Vouched(u) \/ GaveCode(u)

\* A live account has a team to sign in to, unless it was being made when its
\* pod died or its invitation was withdrawn, or it was removed from the team or
\* the team went with its owner, or another sign-up took the same invitation.
Made(q) == Does(q).op \in SignUps /\ call[q].seen # 0
SharedRow(q, r) ==
  Does(q).op \in SignUps /\ Does(r).op \in SignUps /\ call[q].row = call[r].row /\ call[q].row # 0 /\ Overlap(q, r)
TeamForEveryone ==
  \A u \in Users : Live(u) /\ ~HasTeam(u) =>
    \/ \E q \in Calls : /\ Made(q) /\ call[q].user = u
                        /\ \/ call[q].pc \in {"join", "team", "owner", "dead"}
                           \/ call[q].end = "threw" /\ Racing(q, {"remove", "cleanup"})
                           \/ \E r \in Calls : SharedRow(q, r)
    \/ \E i \in DOMAIN member : member[i].user = u /\ member[i].status = "removed"

\* A session that was revoked is not revived by a refresh that began afterwards.
Revokers == {"logout", "confirmChange", "requestDeletion"}
RefreshRevivesOnlyRacing ==
  [][\A u \in Users, q \in Calls :
       ~user[u].session /\ user'[u].session /\ call[q].pc = "renew" /\ call'[q].pc = "done" => Racing(q, Revokers)]_vars

\* An account is deleted for good only while it is marked and its grace period is
\* over, unless it was being brought back, or its deletion asked for anew, as the
\* cleanup ran.
Restorers == {"login", "cancelDeletion", "adminRestore", "requestDeletion"}
RestoredIsKept ==
  [][\A u \in Users : Live(u) /\ user'[u].st = "gone" =>
       \/ user[u].deleted /\ user[u].due = "past"
       \/ \E q \in Calls : call[q].pc = "dropUser" /\ call[q].user = u /\ Racing(q, Restorers)]_vars

\* Who signs in with a password is not left marked for deletion, unless a
\* deletion was asked for meanwhile or afterwards.
LoginRestores ==
  \A q \in Calls : Did(q, {"login"}, "in") /\ Live(call[q].user) /\ user[call[q].user].deleted =>
    \E r \in Calls : Does(r).op \in {"requestDeletion", "adminDelete"} /\ Started(r) /\ r \notin call[q].since

\* Since a count of tries last began anew, because a right answer cleared it or it,
\* or the lock it led to, expired after LOCK_TTL_MS, a pod has taken no more wrong
\* answers than the lock allows, unless one of them was given while another answer was.
Unspent(k) == Misses(k) \ spent
GuessesBounded ==
  \A q \in Calls : Does(q).op \in Guessing /\ Cardinality(Unspent(Key(q))) > MaxTries =>
    \E r \in Unspent(Key(q)) : Racing(r, {Does(q).op})

\* A reset code sets one password, unless two calls brought it at once.
OneResetPerCode ==
  \A q, r \in Calls : q # r /\ call[q].end = "reset" /\ call[r].end = "reset" /\ call[q].code = call[r].code => Overlap(q, r)

\* With nothing in between, two handovers go to two agents as long as there are
\* two, and the rotation starts at the head after the roster was saved.
Before(r, q) == r \in call[q].since
Quiet(r, q) ==
  /\ Before(r, q) /\ Does(r).who = Does(q).who
  /\ \A s \in Calls \ {r, q} : Started(s) => Before(s, r) \/ (Does(s).op = "handover" /\ Before(q, s))
RotationFair ==
  \A q, r \in Calls : Did(q, {"handover"}, "assigned") /\ Quiet(r, q) =>
    /\ Did(r, {"handover"}, "assigned") /\ Cardinality(Pool(Does(q).who)) > 1 => call[q].to # call[r].to
    /\ Did(r, {"roster"}, "saved") /\ Pool(Does(q).who) # {} => call[q].to = member[Min(Pool(Does(q).who))].user

\* The agent of a handover belongs to the team, unless a removal overlapped it or
\* came later, or two sign-ups took one invitation.
Staff(t) == {t} \cup {member[i].user : i \in Members(t)}
AssigneeActive ==
  \A q \in Calls : Does(q).op = "handover" /\ call[q].pc \in {"assign", "record"} \cup Over /\ call[q].end # "nobody"
                     /\ call[q].pc # "dead" /\ call[q].to \notin Staff(call[q].user) =>
    \/ \E r \in Calls : Does(r).op \in {"remove", "cleanup"} /\ Started(r) /\ ~Before(r, q)
    \/ \E r, s \in Calls : SharedRow(r, s)

\* An invitation waits for somebody who has no account, unless the account or
\* the address came about while it was written, or took another invitation, or came
\* by a change that looks at no invitation.
Arrivals == SignUps \cup {"confirmChange", "adminEmail"}
Moved(e) ==
  \E q \in Calls : \/ Did(q, {"confirmChange"}, "changed") /\ call[q].to = e
                   \/ Did(q, {"adminEmail"}, "saved") /\ Does(q).email = e
                   \/ Does(q).op = "adminCreate" /\ Started(q) /\ Does(q).email = e
PendingForStrangers ==
  \A i \in DOMAIN member : member[i].status = "pending" /\ With(member[i].email) # {} =>
    \/ \E q \in Calls : Does(q).op = "invite" /\ Does(q).email = member[i].email /\ Started(q) /\ Racing(q, Arrivals)
    \/ \E q \in Calls : /\ Made(q) /\ Does(q).email = member[i].email
                        /\ (call[q].pc # "done" \/ call[q].row \notin {0, i})
    \/ Moved(member[i].email)

\* A team that somebody else still works in is not deleted with its owner's
\* account (the "Safety check" of permanentlyDeleteUser), unless somebody joined
\* as the cleanup ran.
ManagedTeamKept ==
  [][\A u \in Users, q \in Calls :
       team[u].st = "live" /\ team'[u].st = "gone" /\ call[q].user = u /\ call[q] # call'[q] =>
         Others(u) = {} \/ Racing(q, SignUps)]_vars

\* An account is its mailbox's, has a team, and is not invited any more, but for
\* what overlapped its making.
AccountsSound == VerifiedMailbox /\ TeamForEveryone /\ PendingForStrangers

\* Locks while they last, reset codes, revoked sessions and restored accounts stay
\* what they are for calls that follow one another.
AccountsKept ==
  []GuessesBounded /\ []OneResetPerCode /\ []LoginRestores /\ RefreshRevivesOnlyRacing /\ RestoredIsKept

\* Handovers go round, and to somebody who is there.
HandoversFair == RotationFair /\ AssigneeActive
=============================================================================
