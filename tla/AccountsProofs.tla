-------------------------- MODULE AccountsProofs ---------------------------
(* What Accounts promises for every set of calls, users, addresses, pods
   and plans: its types, AccountsSound, AccountsKept and HandoversFair.
   
   The argument has three layers.  What a call is at says what it holds
   and what it has read (Base).  A step is then described once (Stepped):
   how its own call moves (Turn), and what may become of accounts, codes,
   rows, teams and counts (UsersMove, OutboxMoves, MembersMove, TeamsMove,
   CacheMoves); one lemma for each action shows that it is such a step.
   Every part of the invariant is kept by such a step, whichever action
   took it.  Two calls that are both on their way overlap, and go on
   having overlapped: that is where each excuse comes from. *)
EXTENDS Accounts, FiniteSums, SequenceTheorems, FunctionTheorems, TLAPS

(* The types *)
Pcs ==
  Over \cup {"new", "create", "join", "team", "owner", "quotas", "mail", "signIn", "verify", "wrong", "restore", "renew",
             "expire", "reset", "pend", "change", "clear", "link", "schedule", "cancel", "email", "next", "dropTeam",
             "dropRows", "dropUser", "invite", "remove", "roster", "valid", "assign", "record"}
Outcomes ==
  {"none", "conflict", "threw", "registered", "in", "wrong", "locked", "verified", "sent", "refused", "reset", "expired",
   "changed", "linked", "unlinked", "asked", "cleared", "nothing", "scheduled", "restored", "deleted", "saved",
   "invited", "removed", "nobody", "assigned"}
Tos == Users \cup Emails \cup {None, "keep"}
CallRow ==
  [pc : Pcs, user : Users \cup {None}, row : Nat, code : Nat, seen : Nat, to : Tos, set : SUBSET Users, end : Outcomes,
   since : SUBSET Calls]
UserRow ==
  [st : {"none", "live", "gone"}, email : Emails \cup {None}, verified : BOOLEAN, act : Nat, reset : Nat,
   pend : Emails \cup {None}, pcode : Nat, session : BOOLEAN, token : {"none", "held", "late"}, deleted : BOOLEAN,
   due : {"none", "set", "past"}, pass : BOOLEAN, id : Emails \cup {None}]
TeamRow == [st : {"none", "live", "gone"}, default : Users \cup {None}, last : Users \cup {None}, quota : BOOLEAN]
MemberRow ==
  [team : Users, user : Users \cup {None}, email : Emails \cup {None}, status : {"pending", "active", "removed"},
   chat : BOOLEAN]
Kinds == Pods \X Guessing \X (Users \cup Emails)

Types ==
  /\ plan \in Plans /\ user \in [Users -> UserRow] /\ team \in [Users -> TeamRow] /\ member \in Seq(MemberRow)
  /\ codes \in Nat /\ mailed \in [Emails -> SUBSET (1 .. codes)] /\ locked \subseteq Kinds /\ spent \subseteq Calls
  /\ DOMAIN tries \subseteq Kinds /\ (\A k \in DOMAIN tries : tries[k] \in 1 .. MaxTries - 1)
  /\ call \in [Calls -> CallRow]

\* Where a call of each kind may be.
Making == {"create", "join", "team", "owner", "quotas"}
Dropping == {"dropTeam", "dropRows", "dropUser"}
InPlace(q, c) ==
  /\ c.pc \in Making => Does(q).op \in SignUps
  /\ c.pc = "mail" => Does(q).op = "register"
  /\ c.pc = "signIn" => Does(q).op \in {"oauth", "login"}
  /\ c.pc = "verify" => Does(q).op = "activate"
  /\ c.pc = "wrong" => Does(q).op \in Guessing
  /\ c.pc = "restore" => Does(q).op = "login"
  /\ c.pc = "renew" => Does(q).op = "refresh"
  /\ c.pc \in {"expire", "reset"} => Does(q).op \in {"resetCode", "resetLink"}
  /\ c.pc = "pend" => Does(q).op = "requestChange"
  /\ c.pc = "change" => Does(q).op = "confirmChange"
  /\ c.pc = "clear" => Does(q).op \in {"confirmChange", "cancelChange"}
  /\ c.pc = "link" => Does(q).op = "connect"
  /\ c.pc = "schedule" => Does(q).op = "requestDeletion"
  /\ c.pc = "cancel" => Does(q).op = "cancelDeletion"
  /\ c.pc = "email" => Does(q).op = "adminEmail"
  /\ c.pc \in Dropping \cup {"next"} => Does(q).op = "cleanup"
  /\ c.pc = "invite" => Does(q).op = "invite"
  /\ c.pc = "remove" => Does(q).op = "remove"
  /\ c.pc = "roster" => Does(q).op = "roster"
  /\ c.pc \in {"valid", "assign", "record"} => Does(q).op = "handover"

\* What a call holds, by its place.
Holds(q, c, n, drawn) ==
  /\ (c.pc = "new" => c = Idle) /\ (c.pc # "done" => c.end = "none")
  /\ c.pc = "create" => c.user = None /\ c.seen = 0
  /\ c.pc \notin Over \cup {"new", "create", "wrong", "next", "remove"} => c.user \in Users
  /\ c.row \in 0 .. n /\ (c.pc \in {"join", "remove"} => c.row # 0)
  /\ c.pc = "wrong" => c.seen \in 0 .. MaxTries - 1
  /\ Does(q).op \in SignUps /\ c.pc \in (Making \ {"create"}) \cup {"mail"} => c.seen # 0
  /\ Does(q).op = "register" => c.seen \in 0 .. drawn
  /\ c.pc = "change" => c.to \in Emails
  /\ c.pc \in {"valid", "assign", "record"} => c.to \in Users
  /\ c.pc = "roster" => c.to \in Users \cup {None, "keep"}
  /\ Does(q).op \in {"handover", "roster"} /\ c.pc \notin {"new"} /\ c.user # None => c.user = Does(q).who

Places == \A q \in Calls : InPlace(q, call[q]) /\ Holds(q, call[q], Len(member), codes)

\* Rows and accounts.
Accounted ==
  /\ \A u \in Users : user[u].st = "live" => user[u].email \in Emails
  /\ \A u \in Users : user[u].pend # None => user[u].pcode # 0
  /\ \A u \in Users : user[u].due = "none" /\ user[u].deleted => \E q \in Calls : Does(q).op = "adminDelete"
  /\ \A i \in DOMAIN member : /\ member[i].status = "active" => member[i].user \in Users
                              /\ member[i].status = "pending" => member[i].user = None
\* Who is referred to exists, or has existed.
Known ==
  /\ \A q \in Calls : \A u \in Users : u = call[q].user \/ u \in call[q].set => user[u].st # "none"
  /\ \A i \in DOMAIN member : member[i].user # None => user[member[i].user].st # "none"
  /\ \A u \in Users : team[u].st # "none" => user[u].st # "none"
Sinces == \A q \in Calls : \A r \in call[q].since : call[r].pc \in Over
Base == Types /\ Places /\ Accounted /\ Known /\ Sinces

(* Addresses *)
Apart == \A u, v \in Users : Live(u) /\ Live(v) /\ user[u].email = user[v].email => u = v
Codes == \A q \in Calls : call[q].pc = "change" => call[q].code # 0 /\ call[q].code \in mailed[call[q].to]
Proven(u) == Vouched(u) \/ GaveCode(u)
Verifying == \A q \in Calls : call[q].pc = "verify" /\ Live(call[q].user) => Proven(call[q].user)
Mailbox ==
  \A u \in Users : Live(u) /\ user[u].verified /\ (plan.user[u] = "none" \/ user[u].email # plan.home[u]) => Proven(u)
AddressInv == Apart /\ Codes /\ Verifying /\ Mailbox

(* Teams *)
Homeless == {"team", "join", "owner"}
OwnRow == \A i \in DOMAIN member : member[i].email = None => member[i].team = member[i].user
OneRow == \A i, j \in DOMAIN member : i # j /\ member[i].user = member[j].user => member[i].user = None
NoRow ==
  /\ \A q \in Calls : call[q].pc \in Homeless => \A i \in DOMAIN member : member[i].user # call[q].user
  /\ \A q, r \in Calls : q # r /\ call[q].pc \in Homeless /\ call[r].pc \in Homeless => call[q].user # call[r].user
Joining ==
  \A q \in Calls : call[q].pc \in {"create", "join"} /\ call[q].row # 0 =>
    LET i == call[q].row
    IN /\ member[i].email # None
       /\ \/ member[i].status = "pending"
          \/ member[i].status = "active" /\ \E r \in Calls : SharedRow(q, r) /\ Made(r) /\ call[r].user = member[i].user
          \/ member[i].status = "removed" /\ Racing(q, {"remove", "cleanup"})
Owned ==
  \A u \in Users : team[u].st = "live" =>
    \/ \E i \in DOMAIN member : member[i].user = u /\ member[i].email = None
    \/ \E q \in Calls : Made(q) /\ call[q].user = u /\ call[q].pc \in {"owner", "dead"}
TeamInv == OwnRow /\ OneRow /\ NoRow /\ Joining /\ Owned /\ TeamForEveryone

\* Invitations.
Inviting == \A q \in Calls : call[q].pc = "invite" => With(Does(q).email) = {} \/ Racing(q, Arrivals)
Late(e) == \E q \in Calls : Does(q).op = "invite" /\ Does(q).email = e /\ Started(q) /\ Racing(q, Arrivals)
\* A sign-up that found no invitation.
Unasked(q) ==
  /\ Does(q).op \in {"register", "oauth"} /\ call[q].row = 0
  /\ call[q].pc \in {"create", "team", "owner", "quotas", "mail", "signIn"}
  /\ (call[q].pc = "create" \/ call[q].seen # 0)
Uninvited ==
  \A q \in Calls : Unasked(q) =>
    \A i \in DOMAIN member : member[i].status = "pending" /\ member[i].email = Does(q).email => Late(Does(q).email)
Taken ==
  \A q \in Calls : Made(q) /\ call[q].row # 0 /\ call[q].pc \notin {"join", "dead"} => member[call[q].row].status # "pending"
InviteInv == Inviting /\ Uninvited /\ Taken /\ PendingForStrangers

(* Deletions, sessions, resets *)
Marked(u) == Live(u) => user[u].deleted /\ user[u].due = "past"
Doom ==
  \A q \in Calls : /\ call[q].pc = "next" => \A u \in call[q].set : Marked(u) \/ Racing(q, Restorers)
                   /\ call[q].pc \in Dropping =>
                        \A u \in call[q].set \cup {call[q].user} : Marked(u) \/ Racing(q, Restorers)
Entering(q) == Does(q).op = "login" /\ (call[q].pc = "signIn" \/ call[q].end = "in")
Signed ==
  \A q \in Calls : Entering(q) /\ Live(call[q].user) /\ user[call[q].user].deleted =>
    \E r \in Calls : Does(r).op \in {"requestDeletion", "adminDelete"} /\ Started(r) /\ r \notin call[q].since
Renewing == \A q \in Calls : call[q].pc = "renew" /\ Live(call[q].user) => user[call[q].user].session \/ Racing(q, Revokers)
Resetting(q) == Does(q).op \in {"resetCode", "resetLink"} /\ (call[q].pc = "reset" \/ call[q].end = "reset")
Resets ==
  /\ \A u \in Users : user[u].reset \in 0 .. codes
  /\ \A u, v \in Users : u # v /\ user[u].reset = user[v].reset => user[u].reset = 0
  /\ \A q \in Calls : call[q].end = "reset" => Resetting(q)
  /\ \A q \in Calls : Resetting(q) =>
       /\ call[q].code \in 1 .. codes
       /\ \A u \in Users : user[u].reset = call[q].code => u = call[q].user /\ call[q].end # "reset"
  /\ \A q, r \in Calls : q # r /\ call[q].end = "reset" /\ Resetting(r) /\ call[q].code = call[r].code => Overlap(q, r)
KeptInv == Doom /\ Signed /\ Renewing /\ Resets

(* Guesses *)
Guesses(q, k) == Does(q).op \in Guessing /\ Key(q) = k
Raced(q) == Racing(q, {Does(q).op})
Counting(q, k) == Guesses(q, k) /\ call[q].pc = "wrong" /\ ~Raced(q)
Calm(k) == \A r \in Unspent(k) : ~Raced(r)
Counted(k) ==
  /\ IsFiniteSet(Unspent(k))
  /\ \A q \in Calls : Counting(q, k) => k \notin locked
  /\ Calm(k) => /\ Cardinality(Unspent(k)) <= MaxTries
                /\ k \notin locked => Cardinality(Unspent(k)) <= Tries(k)
                /\ \A q \in Calls : Counting(q, k) => Cardinality(Unspent(k)) <= call[q].seen
Answered == \A q \in spent : call[q].end = "wrong"
GuessInv == Answered /\ \A k \in Kinds : Counted(k)

(* The rotation *)
Latest(r) == \A s \in Calls \ {r} : Started(s) => s \in call[r].since
LastIs ==
  \A r \in Calls : LET t == Does(r).who IN
    Latest(r) /\ team[t].st = "live" =>
      /\ Did(r, {"handover"}, "assigned") => team[t].last = call[r].to
      /\ Did(r, {"roster"}, "saved") => team[t].last = None
Chosen(q) == Does(q).op = "handover" /\ Started(q) /\ call[q].end # "nobody"
Rotates ==
  \A q, r \in Calls : Chosen(q) /\ Quiet(r, q) =>
    /\ Did(r, {"handover"}, "assigned") /\ Cardinality(Pool(Does(q).who)) > 1 => call[q].to # call[r].to
    /\ Did(r, {"roster"}, "saved") /\ Pool(Does(q).who) # {} => call[q].to = member[Min(Pool(Does(q).who))].user
RotationInv == LastIs /\ Rotates /\ AssigneeActive

IInv == Base /\ AddressInv /\ TeamInv /\ InviteInv /\ KeptInv /\ GuessInv /\ RotationInv

--------------------
(* What is at hand in every proof *)

\* The fields of a plan.
LEMMA PlanTypes ==
  ASSUME plan \in Plans
  PROVE  /\ plan.ops \in [Calls -> Op] /\ plan.home \in [Users -> Emails] /\ plan.pool \in BOOLEAN
         /\ plan.user \in [Users -> {"none", "owner", "member", "scheduled", "oauth"}]
         /\ \A q \in Calls : Does(q).op \in Ops /\ Does(q).who \in Users /\ Does(q).email \in Emails /\ Does(q).pod \in Pods
<1>1. /\ plan.ops \in [Calls -> Op] /\ plan.home \in [Users -> Emails] /\ plan.pool \in BOOLEAN
      /\ plan.user \in [Users -> {"none", "owner", "member", "scheduled", "oauth"}]
  BY PlanAssumption
<1>2. \A q \in Calls : Does(q) \in Op BY <1>1 DEF Does
<1> QED BY <1>1, <1>2 DEF Op

\* The parts of a state of the right type.
LEMMA Typing ==
  ASSUME Base
  PROVE  /\ plan \in Plans /\ user \in [Users -> UserRow] /\ team \in [Users -> TeamRow] /\ member \in Seq(MemberRow)
         /\ codes \in Nat /\ mailed \in [Emails -> SUBSET (1 .. codes)] /\ locked \subseteq Kinds /\ spent \subseteq Calls
         /\ DOMAIN tries \subseteq Kinds /\ (\A k \in DOMAIN tries : tries[k] \in 1 .. MaxTries - 1)
         /\ call \in [Calls -> CallRow]
         /\ Len(member) \in Nat /\ DOMAIN member = 1 .. Len(member)
         /\ MaxTries \in Nat \ {0} /\ None \notin Users \cup Emails
         /\ \A q \in Calls : Does(q).op \in Ops /\ Does(q).who \in Users /\ Does(q).email \in Emails /\ Does(q).pod \in Pods
<1>1. /\ plan \in Plans /\ user \in [Users -> UserRow] /\ team \in [Users -> TeamRow] /\ member \in Seq(MemberRow)
      /\ codes \in Nat /\ mailed \in [Emails -> SUBSET (1 .. codes)] /\ locked \subseteq Kinds /\ spent \subseteq Calls
      /\ DOMAIN tries \subseteq Kinds /\ (\A k \in DOMAIN tries : tries[k] \in 1 .. MaxTries - 1)
      /\ call \in [Calls -> CallRow]
  BY DEF Base, Types
<1>2. Len(member) \in Nat /\ DOMAIN member = 1 .. Len(member) BY <1>1
<1> QED BY <1>1, <1>2, PlanTypes, PlanAssumption

\* The fields of a call.
LEMMA CallTypes ==
  ASSUME Base, NEW q \in Calls
  PROVE  /\ call[q] \in CallRow /\ InPlace(q, call[q]) /\ Holds(q, call[q], Len(member), codes)
         /\ call[q].pc \in Pcs /\ call[q].user \in Users \cup {None} /\ call[q].row \in Nat /\ call[q].code \in Nat
         /\ call[q].seen \in Nat /\ call[q].to \in Tos /\ call[q].set \subseteq Users /\ call[q].end \in Outcomes
         /\ call[q].since \subseteq Calls
<1>1. call[q] \in CallRow /\ InPlace(q, call[q]) /\ Holds(q, call[q], Len(member), codes) BY DEF Base, Types, Places
<1> QED BY <1>1 DEF CallRow

\* The fields of an account, a team and a member.
LEMMA RowTypes ==
  ASSUME Base
  PROVE  /\ \A u \in Users : /\ user[u] \in UserRow /\ user[u].st \in {"none", "live", "gone"}
                             /\ user[u].email \in Emails \cup {None} /\ user[u].verified \in BOOLEAN /\ user[u].reset \in Nat
                             /\ user[u].pend \in Emails \cup {None} /\ user[u].pcode \in Nat /\ user[u].session \in BOOLEAN
                             /\ user[u].deleted \in BOOLEAN /\ user[u].due \in {"none", "set", "past"}
                             /\ user[u].act \in Nat /\ user[u].token \in {"none", "held", "late"}
                             /\ user[u].pass \in BOOLEAN /\ user[u].id \in Emails \cup {None}
         /\ \A u \in Users : /\ team[u] \in TeamRow /\ team[u].st \in {"none", "live", "gone"}
                             /\ team[u].default \in Users \cup {None} /\ team[u].last \in Users \cup {None}
         /\ \A i \in DOMAIN member : /\ member[i] \in MemberRow /\ member[i].team \in Users
                                     /\ member[i].user \in Users \cup {None} /\ member[i].email \in Emails \cup {None}
                                     /\ member[i].status \in {"pending", "active", "removed"} /\ member[i].chat \in BOOLEAN
<1>1. user \in [Users -> UserRow] /\ team \in [Users -> TeamRow] /\ member \in Seq(MemberRow) BY Typing
<1>2. /\ \A u \in Users : user[u] \in UserRow /\ team[u] \in TeamRow
      /\ \A i \in DOMAIN member : member[i] \in MemberRow
  BY <1>1
<1> QED BY <1>2 DEF UserRow, TeamRow, MemberRow

\* A nonempty set of numbers has a least one.
LEMMA MinIs ==
  ASSUME NEW S \in SUBSET Nat, S # {}
  PROVE  Min(S) \in S /\ \A j \in S : Min(S) <= j
<1>1. \E i \in S : \A j \in S : i <= j BY LeastNumber
<1> QED BY <1>1 DEF Min

\* The first of a set of rows.
LEMMA FirstIs ==
  ASSUME NEW n \in Nat, NEW S \in SUBSET (1 .. n)
  PROVE  FirstOf(S) \in 0 .. n /\ (S # {} => FirstOf(S) \in S) /\ (S = {} => FirstOf(S) = 0)
<1>1. S \in SUBSET Nat OBVIOUS
<1>2. CASE S = {} BY <1>2 DEF FirstOf
<1>3. CASE S # {}
 <2>1. Min(S) \in S BY <1>1, <1>3, MinIs
 <2>2. FirstOf(S) = Min(S) BY <1>3 DEF FirstOf
 <2>3. Min(S) \in 1 .. n BY <2>1
 <2>4. Min(S) \in 0 .. n BY <2>3
 <2> QED BY <1>3, <2>1, <2>2, <2>4
<1> QED BY <1>2, <1>3

\* Who holds an address.
LEMMA HolderIs ==
  ASSUME NEW e, With(e) # {}
  PROVE  Holder(e) \in Users /\ Holder(e) \in With(e) /\ Live(Holder(e)) /\ user[Holder(e)].email = e
<1>1. Holder(e) \in With(e) BY DEF Holder
<1> QED BY <1>1 DEF With

\* What the rotation chooses is a user.
LEMMA NextIsUser ==
  ASSUME Base, NEW t \in Users
  PROVE  NextIn(t) \in Users
<1>1. Pool(t) \subseteq DOMAIN member /\ Pool(t) \subseteq Nat BY Typing DEF Pool, Members
<1>2. \A i \in Pool(t) : member[i].user \in Users BY DEF Base, Accounted, Pool, Members
<1> DEFINE after == {i \in Pool(t) : i > FirstOf({j \in Pool(t) : member[j].user = team[t].last})}
<1>3. ASSUME Pool(t) # {}
      PROVE  Min(IF after = {} THEN Pool(t) ELSE after) \in Pool(t)
 <2> DEFINE S == IF after = {} THEN Pool(t) ELSE after
 <2>1. S \in SUBSET Nat /\ S # {} /\ S \subseteq Pool(t) BY <1>1, <1>3
 <2>2. Min(S) \in S BY <2>1, MinIs
 <2> QED BY <2>1, <2>2
<1>4. team[t].default \in Users \cup {None} BY RowTypes
<1> QED BY <1>2, <1>3, <1>4 DEF NextIn

--------------------
(* What each step does to its call *)

\* What holds of the new place d of a call, by the old place c.
EntersAccounts(q, c, d) ==
  /\ d.pc = "change" => c.pc = "new" /\ d.code # 0 /\ d.code \in mailed[d.to]
  /\ d.pc = "verify" => c.pc = "new" /\ Live(d.user) /\ d.code # 0 /\ d.code \in mailed[user[d.user].email]
  /\ d.pc = "renew" => c.pc = "new" /\ user[d.user].session
  /\ d.pc = "reset" => c.pc = "new" /\ d.code # 0 /\ d.code = user[d.user].reset
  /\ Does(q).op = "login" =>
       (d.pc = "signIn" => c.pc = "restore" \/ ~user[d.user].deleted) /\ (d.end = "in" => c.pc = "signIn")
  /\ d.end = "reset" => c.pc = "reset"
  /\ d.end = "changed" => c.pc = "change" \/ Does(q).op = "changePassword"
  /\ Does(q).op = "cleanup" =>
       \/ c.pc = "new" /\ d.set = Doomed /\ d.pc \in {"done", "next"}
       \/ c.pc = "next" /\ d.user \in c.set /\ d.set \subseteq c.set /\ d.pc \in Dropping
       \/ c.pc \in Dropping /\ d.user = c.user /\ d.set = c.set /\ d.pc \in Dropping \cup {"next", "done"}
       \/ d.pc = "dead"
EntersTeams(q, c, d) ==
  /\ c.pc = "new" /\ Does(q).op \in SignUps => d.seen = 0
  /\ d.pc = "create" => /\ c.pc = "new" /\ d.user = None
                        /\ Does(q).op \in {"register", "oauth"} =>
                             IF d.row = 0 THEN Invited(Does(q).email) = {} ELSE d.row \in Invited(Does(q).email)
                        /\ Does(q).op = "adminCreate" => d.row = 0
  /\ d.pc \in {"team", "join"} =>
       c.pc = "create" /\ d.user \in Unused /\ d.seen = codes + 1 /\ (d.pc = "join" <=> d.row # 0)
  /\ (d.pc = "owner" => c.pc = "team") /\ (d.pc = "quotas" => c.pc = "owner")
  /\ c.pc = "create" => d.pc \in {"team", "join"} \/ (d.pc \in Over /\ d.seen = 0)
  /\ c.pc = "join" => \/ d.pc \in {"signIn", "mail", "done"} /\ d.end = "none" /\ member[c.row].status # "removed"
                      \/ d.pc = "done" /\ d.end = "threw" /\ member[c.row].status = "removed"
                      \/ d.pc = "dead"
  /\ c.pc = "team" => d.pc \in {"owner", "dead"}
  /\ c.pc = "owner" => d.pc \in {"quotas", "dead"}
  /\ c.pc = "invite" => d.pc \in Over
  /\ d.pc = "invite" => c.pc = "new" /\ With(Does(q).email) = {}
EntersHandover(q, c, d) ==
  /\ d.pc = "valid" => c.pc = "new" /\ team[Does(q).who].st = "live" /\ d.to = NextIn(Does(q).who)
  /\ d.pc = "assign" => c.pc = "valid" /\ Assignee(c.user, c.to)
  /\ d.pc = "record" => c.pc = "assign"
  /\ Does(q).op = "handover" =>
       /\ d.pc = "done" /\ c.pc \in {"new", "valid"} => d.end = "nobody"
       /\ c.pc = "assign" => d.pc \in {"record", "dead"} \/ d.end = "threw"
       /\ d.end = "assigned" => c.pc = "record"
  /\ Does(q).op = "roster" /\ d.end = "saved" => c.pc = "roster"
EntersGuess(q, c, d) ==
  Does(q).op \in Guessing =>
    /\ d.pc = "wrong" => c.pc = "new" /\ d.seen = Tries(Key(q)) /\ ~Locked(q)
    /\ d.end = "wrong" => c.pc = "wrong"
    /\ d.end = "locked" => c.pc = "new"
    /\ c.pc = "wrong" => d.pc = "dead" \/ (d.pc = "done" /\ d.end = "wrong")
Enters(q, c, d) ==
  /\ EntersAccounts(q, c, d) /\ EntersTeams(q, c, d) /\ EntersHandover(q, c, d) /\ EntersGuess(q, c, d)
  /\ \A u \in Users : u = d.user \/ u \in d.set => u = c.user \/ u \in c.set \/ user'[u].st # "none"

\* What a call has noted it keeps.
Remembers(q, c, d) ==
  /\ c.pc \notin Over /\ d.pc # "new"
  /\ c.pc # "new" => d.row = c.row /\ d.code = c.code /\ d.to = c.to
  /\ c.pc \notin {"new", "create"} => d.seen = c.seen /\ (Does(q).op # "cleanup" => d.user = c.user)

\* A step of one call: the others stay.
Turn(q) ==
  /\ call' \in [Calls -> CallRow] /\ \A r \in Calls : r # q => call'[r] = call[r]
  /\ plan' = plan
  /\ call'[q].since = IF call[q].pc = "new" THEN {r \in Calls : call[r].pc \in Over} ELSE call[q].since
  /\ InPlace(q, call'[q]) /\ Holds(q, call'[q], Len(member), codes')
  /\ Remembers(q, call[q], call'[q]) /\ Enters(q, call[q], call'[q])

\* The changes of a call's row that are made most often.
LEMMA AtIs ==
  ASSUME Base, NEW q \in Calls, NEW pc \in Pcs, NEW u \in Users \cup {None}
  PROVE  /\ At(q, pc, u) \in CallRow /\ At(q, pc, u).pc = pc /\ At(q, pc, u).user = u
         /\ At(q, pc, u).row = call[q].row /\ At(q, pc, u).code = call[q].code /\ At(q, pc, u).seen = call[q].seen
         /\ At(q, pc, u).to = call[q].to /\ At(q, pc, u).set = call[q].set /\ At(q, pc, u).end = call[q].end
         /\ At(q, pc, u).since = call[q].since
<1>1. call[q] \in CallRow BY CallTypes
<1> QED BY <1>1 DEF At, CallRow

\* A call that ends.
LEMMA EndingIs ==
  ASSUME Base, NEW q \in Calls, NEW how \in Outcomes
  PROVE  /\ Ending(q, how) \in CallRow /\ Ending(q, how).pc = "done" /\ Ending(q, how).user = call[q].user
         /\ Ending(q, how).row = call[q].row /\ Ending(q, how).code = call[q].code /\ Ending(q, how).seen = call[q].seen
         /\ Ending(q, how).to = call[q].to /\ Ending(q, how).set = call[q].set /\ Ending(q, how).end = how
         /\ Ending(q, how).since = call[q].since
<1>1. call[q] \in CallRow /\ "done" \in Pcs BY CallTypes DEF Pcs, Over
<1> QED BY <1>1 DEF Ending, CallRow

\* A call that gave a wrong answer.
LEMMA WrongIs ==
  ASSUME Base, NEW q \in Calls
  PROVE  LET x == Wrong(q, call[q]) IN
         /\ x \in CallRow /\ x.pc = "wrong" /\ x.user = call[q].user
         /\ x.row = call[q].row /\ x.code = call[q].code /\ x.seen = Tries(Key(q))
         /\ x.to = call[q].to /\ x.set = call[q].set /\ x.end = call[q].end
         /\ x.since = call[q].since /\ x.seen \in 0 .. MaxTries - 1
<1>1. call[q] \in CallRow /\ "wrong" \in Pcs BY CallTypes DEF Pcs
<1>2. Tries(Key(q)) \in 0 .. MaxTries - 1 /\ Tries(Key(q)) \in Nat BY Typing DEF Tries
<1> QED BY <1>1, <1>2 DEF Wrong, CallRow

\* A call that has not begun holds nothing.
LEMMA NewIs ==
  ASSUME Base, NEW q \in Calls, call[q].pc = "new"
  PROVE  /\ call[q] = Idle /\ call[q].user = None /\ call[q].row = 0 /\ call[q].code = 0 /\ call[q].seen = 0
         /\ call[q].to = None /\ call[q].set = {} /\ call[q].end = "none" /\ call[q].since = {}
<1>1. Holds(q, call[q], Len(member), codes) BY CallTypes
<1>2. call[q] = Idle BY <1>1 DEF Holds
<1> QED BY <1>2 DEF Idle

\* A call on its way goes to another place.
LEMMA MovesTurn ==
  ASSUME Base, NEW q \in Calls, NEW from \in Pcs \ (Over \cup {"new"}), NEW x \in CallRow, Moves(q, from, x),
         plan' = plan, x.since = call[q].since,
         InPlace(q, x), Holds(q, x, Len(member), codes'), Remembers(q, call[q], x), Enters(q, call[q], x)
  PROVE  Turn(q) /\ call'[q] = x
<1>1. call' = [call EXCEPT ![q] = x] /\ call[q].pc = from /\ from # "new" /\ call \in [Calls -> CallRow]
  BY Typing DEF Moves
<1> QED BY <1>1 DEF Turn

\* A call begins.
LEMMA BegunTurn ==
  ASSUME Base, NEW q \in Calls, call[q].pc = "new", NEW x \in CallRow, call' = [call EXCEPT ![q] = Begun(q, x)],
         plan' = plan, x.pc # "new",
         InPlace(q, x), Holds(q, x, Len(member), codes'), Enters(q, call[q], x)
  PROVE  /\ Turn(q) /\ call'[q].pc = x.pc /\ call'[q].user = x.user /\ call'[q].row = x.row /\ call'[q].code = x.code
         /\ call'[q].seen = x.seen /\ call'[q].to = x.to /\ call'[q].set = x.set /\ call'[q].end = x.end
<1>1. call \in [Calls -> CallRow] BY Typing
<1> DEFINE b == Begun(q, x)
           H == {r \in Calls : call[r].pc \in Over}
<1>2. H \in SUBSET Calls OBVIOUS
<1>3. /\ b \in CallRow /\ b.pc = x.pc /\ b.user = x.user /\ b.row = x.row /\ b.code = x.code /\ b.seen = x.seen
      /\ b.to = x.to /\ b.set = x.set /\ b.end = x.end /\ b.since = H
  BY <1>2 DEF Begun, CallRow
<1>4. call'[q] = b /\ call' \in [Calls -> CallRow] /\ \A r \in Calls : r # q => call'[r] = call[r] BY <1>1, <1>3
<1> HIDE DEF b
<1>5. InPlace(q, b) BY <1>3 DEF InPlace
<1>6. Holds(q, b, Len(member), codes') BY <1>3 DEF Holds
<1>7. Enters(q, call[q], b) BY <1>3 DEF Enters, EntersAccounts, EntersTeams, EntersHandover, EntersGuess
<1>8. Remembers(q, call[q], b) BY <1>3 DEF Remembers, Over
<1> QED BY <1>3, <1>4, <1>5, <1>6, <1>7, <1>8 DEF Turn

\* The invitations of an address are rows.
LEMMA InvitedIs ==
  ASSUME Base, NEW e
  PROVE  /\ FirstOf(Invited(e)) \in 0 .. Len(member) /\ FirstOf(Invited(e)) \in Nat
         /\ FirstOf(Invited(e)) # 0 => FirstOf(Invited(e)) \in Invited(e)
         /\ FirstOf(Invited(e)) = 0 => Invited(e) = {}
<1>1. Invited(e) \in SUBSET (1 .. Len(member)) /\ Len(member) \in Nat BY Typing DEF Invited
<1>2. FirstOf(Invited(e)) \in 0 .. Len(member) BY <1>1, FirstIs
<1>3. Invited(e) # {} => FirstOf(Invited(e)) \in Invited(e) BY <1>1, FirstIs
<1>4. Invited(e) = {} => FirstOf(Invited(e)) = 0 BY <1>1, FirstIs
<1>5. 0 \notin Invited(e) BY <1>1
<1> QED BY <1>1, <1>2, <1>3, <1>4, <1>5

\* Whoever waits for a new address was sent a code.
LEMMA ParkedIs ==
  ASSUME Base, NEW u \in Users, user[u].pend # None
  PROVE  user[u].pend \in Emails /\ user[u].pcode # 0 /\ user[u].pcode \in Nat
  BY RowTypes DEF Base, Accounted

--------------------
(* The shapes of a step *)

\* The places and the outcomes there are.
LEMMA Named ==
  /\ \A pc \in {"new", "create", "join", "team", "owner", "quotas", "mail", "signIn", "verify", "wrong", "restore", "renew",
             "expire", "reset", "pend", "change", "clear", "link", "schedule", "cancel", "email", "next", "dropTeam",
             "dropRows", "dropUser", "invite", "remove", "roster", "valid", "assign", "record", "done", "dead"} : pc \in Pcs
  /\ \A how \in {"none", "conflict", "threw", "registered", "in", "wrong", "locked", "verified", "sent", "refused", "reset", "expired",
   "changed", "linked", "unlinked", "asked", "cleared", "nothing", "scheduled", "restored", "deleted", "saved",
   "invited", "removed", "nobody", "assigned"} : how \in Outcomes
  BY DEF Pcs, Outcomes, Over

\* A call answers, and is over.
LEMMA EndsTurn ==
  ASSUME Base, NEW q \in Calls, NEW from, NEW how \in Outcomes, Ends(q, from, how), plan' = plan,
         codes' \in Nat, codes' >= codes,
         from \notin {"done", "dead", "new", "team", "owner", "next"} \cup Dropping,
         how = "in" => from \in {"signIn", "renew"}, how = "reset" => from = "reset", how = "changed" => from = "change",
         from = "join" => IF how = "threw" THEN member[call[q].row].status = "removed"
                          ELSE how = "none" /\ member[call[q].row].status # "removed",
         from = "valid" => how = "nobody", from = "assign" => how = "threw", how = "assigned" => from = "record",
         how = "saved" => from \in {"roster", "email"}, from = "wrong" <=> how = "wrong", how # "locked"
  PROVE  Turn(q) /\ call'[q] = Ending(q, how)
<1> DEFINE x == Ending(q, how)
<1>1. /\ x \in CallRow /\ x.pc = "done" /\ x.user = call[q].user /\ x.row = call[q].row /\ x.code = call[q].code
      /\ x.seen = call[q].seen /\ x.to = call[q].to /\ x.set = call[q].set /\ x.end = how /\ x.since = call[q].since
  BY EndingIs
<1>2. /\ call[q].pc = from /\ from \in Pcs \ (Over \cup {"new"}) /\ Moves(q, from, x)
      /\ call[q].seen \in Nat /\ call[q].row \in 0 .. Len(member)
      /\ InPlace(q, call[q]) /\ Holds(q, call[q], Len(member), codes)
  BY CallTypes DEF Ends, Ending, Moves, Over, Holds
<1> HIDE DEF x
<1>11. Does(q).op # "cleanup" BY <1>2 DEF InPlace, Pcs, Over, Making, Dropping, SignUps, Guessing
<1>3. InPlace(q, x) BY <1>1 DEF InPlace, Making, Dropping
<1>4. Holds(q, x, Len(member), codes') BY <1>1, <1>2, Typing DEF Holds, Over, Making
<1>5. Remembers(q, call[q], x) BY <1>1, <1>2 DEF Remembers, Over
<1>6. EntersAccounts(q, call[q], x) BY <1>1, <1>2, <1>11 DEF EntersAccounts, InPlace
<1>7. EntersTeams(q, call[q], x) BY <1>1, <1>2 DEF EntersTeams, Over, Holds
<1>8. EntersHandover(q, call[q], x) BY <1>1, <1>2 DEF EntersHandover, Over, InPlace
<1>9. EntersGuess(q, call[q], x) BY <1>1, <1>2 DEF EntersGuess
<1>10. Enters(q, call[q], x) BY <1>1, <1>6, <1>7, <1>8, <1>9 DEF Enters
<1> QED BY <1>1, <1>2, <1>3, <1>4, <1>5, <1>10, MovesTurn DEF x

\* A call goes on.
LEMMA GoesTurn ==
  ASSUME Base, NEW q \in Calls, NEW from, NEW to \in Pcs \ {"new"}, Goes(q, from, to), plan' = plan,
         codes' \in Nat, codes' >= codes, from \notin Over \cup {"new"},
         LET x == [call[q] EXCEPT !.pc = to]
         IN /\ InPlace(q, x) /\ Holds(q, x, Len(member), codes)
            /\ EntersAccounts(q, call[q], x) /\ EntersTeams(q, call[q], x) /\ EntersHandover(q, call[q], x)
            /\ EntersGuess(q, call[q], x)
  PROVE  Turn(q)
<1> DEFINE x == [call[q] EXCEPT !.pc = to]
<1>0. call[q] \in CallRow /\ call[q].pc = from /\ Moves(q, from, x) /\ call[q].pc \in Pcs BY CallTypes DEF Goes, Moves
<1>1. /\ x \in CallRow /\ x.pc = to /\ x.user = call[q].user /\ x.row = call[q].row /\ x.code = call[q].code
      /\ x.seen = call[q].seen /\ x.to = call[q].to /\ x.set = call[q].set /\ x.end = call[q].end /\ x.since = call[q].since
  BY <1>0 DEF CallRow
<1>2. InPlace(q, x) /\ EntersAccounts(q, call[q], x) /\ EntersTeams(q, call[q], x) /\ EntersHandover(q, call[q], x)
            /\ EntersGuess(q, call[q], x) /\ Holds(q, x, Len(member), codes)
  OBVIOUS
<1> HIDE DEF x
<1>4. Holds(q, x, Len(member), codes') BY <1>1, <1>2, Typing DEF Holds
<1>5. Remembers(q, call[q], x) BY <1>0, <1>1 DEF Remembers, Over
<1>6. Enters(q, call[q], x) BY <1>1, <1>2 DEF Enters
<1> QED BY <1>0, <1>1, <1>2, <1>4, <1>5, <1>6, MovesTurn

\* A call is answered at once.
LEMMA BeginsDone ==
  ASSUME Base, NEW q \in Calls, NEW how \in Outcomes, call[q].pc = "new", call' = [call EXCEPT ![q] = Begun(q, Ending(q, how))],
         plan' = plan, codes' \in Nat, codes' >= codes, how \notin {"in", "reset", "assigned", "saved"},
         how = "changed" => Does(q).op = "changePassword", Does(q).op # "cleanup",
         Does(q).op = "handover" => how = "nobody", Does(q).op \in Guessing => how # "wrong"
  PROVE  /\ Turn(q) /\ call'[q].pc = "done" /\ call'[q].user = None /\ call'[q].row = 0 /\ call'[q].code = 0
         /\ call'[q].seen = 0 /\ call'[q].to = None /\ call'[q].set = {} /\ call'[q].end = how
<1> DEFINE x == Ending(q, how)
<1>1. /\ x \in CallRow /\ x.pc = "done" /\ x.user = call[q].user /\ x.row = call[q].row /\ x.code = call[q].code
      /\ x.seen = call[q].seen /\ x.to = call[q].to /\ x.set = call[q].set /\ x.end = how /\ x.since = call[q].since
  BY EndingIs
<1>2. /\ call[q].user = None /\ call[q].row = 0 /\ call[q].code = 0 /\ call[q].seen = 0
      /\ call[q].to = None /\ call[q].set = {} /\ call[q].end = "none"
  BY NewIs
<1> HIDE DEF x
<1>3. InPlace(q, x) BY <1>1 DEF InPlace, Making, Dropping
<1>4. Holds(q, x, Len(member), codes') BY <1>1, <1>2, Typing DEF Holds, Over, Making
<1>6. EntersAccounts(q, call[q], x) /\ EntersTeams(q, call[q], x) /\ EntersHandover(q, call[q], x) /\ EntersGuess(q, call[q], x)
  BY <1>1, <1>2 DEF EntersAccounts, EntersTeams, EntersHandover, EntersGuess
<1>10. Enters(q, call[q], x) BY <1>1, <1>2, <1>6 DEF Enters
<1>11. /\ Turn(q) /\ call'[q].pc = x.pc /\ call'[q].user = x.user /\ call'[q].row = x.row /\ call'[q].code = x.code
         /\ call'[q].seen = x.seen /\ call'[q].to = x.to /\ call'[q].set = x.set /\ call'[q].end = x.end
  BY <1>1, <1>3, <1>4, <1>10, BegunTurn DEF x
<1> QED BY <1>1, <1>2, <1>11

\* A call begins at a place of its own.
LEMMA BeginsTurn ==
  ASSUME Base, NEW q \in Calls, NEW x \in CallRow, call[q].pc = "new", call' = [call EXCEPT ![q] = Begun(q, x)],
         plan' = plan, codes' \in Nat, codes' >= codes, x.pc \notin {"new"} \cup Over, x.end = "none",
         InPlace(q, x), Holds(q, x, Len(member), codes),
         EntersAccounts(q, call[q], x), EntersTeams(q, call[q], x), EntersHandover(q, call[q], x), EntersGuess(q, call[q], x),
         \A u \in Users : u = x.user \/ u \in x.set => user'[u].st # "none"
  PROVE  /\ Turn(q) /\ call'[q].pc = x.pc /\ call'[q].user = x.user /\ call'[q].row = x.row /\ call'[q].code = x.code
         /\ call'[q].seen = x.seen /\ call'[q].to = x.to /\ call'[q].set = x.set /\ call'[q].end = x.end
<1>1. Holds(q, x, Len(member), codes') BY Typing DEF Holds
<1>2. Enters(q, call[q], x) BY DEF Enters
<1> QED BY <1>1, <1>2, BegunTurn

--------------------
(* The steps, one by one *)

\* SendRegisterMail is a turn of its call.
LEMMA SendRegisterMailTurn ==
  ASSUME Base, NEW q \in Calls, SendRegisterMail(q)
  PROVE  Turn(q)
<1>1. plan' = plan /\ codes' \in Nat /\ codes' >= codes BY Typing DEF SendRegisterMail, outbox
<1>2. CASE Ends(q, "mail", "registered") BY <1>1, <1>2, Named, EndsTurn DEF Dropping
<1> QED BY <1>2 DEF SendRegisterMail

\* SignIn is a turn of its call.
LEMMA SignInTurn ==
  ASSUME Base, NEW q \in Calls, SignIn(q)
  PROVE  Turn(q)
<1>1. plan' = plan /\ codes' \in Nat /\ codes' >= codes BY Typing DEF SignIn, outbox
<1>2. CASE Ends(q, "signIn", "in") BY <1>1, <1>2, Named, EndsTurn DEF Dropping
<1>3. CASE Ends(q, "signIn", "threw") BY <1>1, <1>3, Named, EndsTurn DEF Dropping
<1> QED BY <1>2, <1>3 DEF SignIn

\* Verify is a turn of its call.
LEMMA VerifyTurn ==
  ASSUME Base, NEW q \in Calls, Verify(q)
  PROVE  Turn(q)
<1>1. plan' = plan /\ codes' \in Nat /\ codes' >= codes BY Typing DEF Verify, outbox
<1>2. CASE Ends(q, "verify", "verified") BY <1>1, <1>2, Named, EndsTurn DEF Dropping
<1>3. CASE Ends(q, "verify", "threw") BY <1>1, <1>3, Named, EndsTurn DEF Dropping
<1> QED BY <1>2, <1>3 DEF Verify

\* CountTry is a turn of its call.
LEMMA CountTryTurn ==
  ASSUME Base, NEW q \in Calls, CountTry(q)
  PROVE  Turn(q)
<1>1. plan' = plan /\ codes' \in Nat /\ codes' >= codes BY Typing DEF CountTry, outbox
<1>2. CASE Ends(q, "wrong", "wrong") BY <1>1, <1>2, Named, EndsTurn DEF Dropping
<1> QED BY <1>2 DEF CountTry

\* Renew is a turn of its call.
LEMMA RenewTurn ==
  ASSUME Base, NEW q \in Calls, Renew(q)
  PROVE  Turn(q)
<1>1. plan' = plan /\ codes' \in Nat /\ codes' >= codes BY Typing DEF Renew, outbox
<1>2. CASE Ends(q, "renew", "in") BY <1>1, <1>2, Named, EndsTurn DEF Dropping
<1>3. CASE Ends(q, "renew", "threw") BY <1>1, <1>3, Named, EndsTurn DEF Dropping
<1> QED BY <1>2, <1>3 DEF Renew

\* ExpireReset is a turn of its call.
LEMMA ExpireResetTurn ==
  ASSUME Base, NEW q \in Calls, ExpireReset(q)
  PROVE  Turn(q)
<1>1. plan' = plan /\ codes' \in Nat /\ codes' >= codes BY Typing DEF ExpireReset, outbox
<1>2. CASE Ends(q, "expire", "expired") BY <1>1, <1>2, Named, EndsTurn DEF Dropping
<1> QED BY <1>2 DEF ExpireReset

\* WriteReset is a turn of its call.
LEMMA WriteResetTurn ==
  ASSUME Base, NEW q \in Calls, WriteReset(q)
  PROVE  Turn(q)
<1>1. plan' = plan /\ codes' \in Nat /\ codes' >= codes BY Typing DEF WriteReset, outbox
<1>2. CASE Ends(q, "reset", "reset") BY <1>1, <1>2, Named, EndsTurn DEF Dropping
<1>3. CASE Ends(q, "reset", "threw") BY <1>1, <1>3, Named, EndsTurn DEF Dropping
<1> QED BY <1>2, <1>3 DEF WriteReset

\* Connect is a turn of its call.
LEMMA ConnectTurn ==
  ASSUME Base, NEW q \in Calls, Connect(q)
  PROVE  Turn(q)
<1>1. plan' = plan /\ codes' \in Nat /\ codes' >= codes BY Typing DEF Connect, outbox
<1>2. CASE Ends(q, "link", "linked") BY <1>1, <1>2, Named, EndsTurn DEF Dropping
<1>3. CASE Ends(q, "link", "threw") BY <1>1, <1>3, Named, EndsTurn DEF Dropping
<1> QED BY <1>2, <1>3 DEF Connect

\* ParkChange is a turn of its call.
LEMMA ParkChangeTurn ==
  ASSUME Base, NEW q \in Calls, ParkChange(q)
  PROVE  Turn(q)
<1>1. plan' = plan /\ codes' \in Nat /\ codes' >= codes BY Typing DEF ParkChange, outbox
<1>2. CASE Ends(q, "pend", "asked") BY <1>1, <1>2, Named, EndsTurn DEF Dropping
<1>3. CASE Ends(q, "pend", "threw") BY <1>1, <1>3, Named, EndsTurn DEF Dropping
<1> QED BY <1>2, <1>3 DEF ParkChange

\* ClearChange is a turn of its call.
LEMMA ClearChangeTurn ==
  ASSUME Base, NEW q \in Calls, ClearChange(q)
  PROVE  Turn(q)
<1>1. plan' = plan /\ codes' \in Nat /\ codes' >= codes BY Typing DEF ClearChange, outbox
<1>2. CASE Ends(q, "clear", "cleared") BY <1>1, <1>2, Named, EndsTurn DEF Dropping
<1> QED BY <1>2 DEF ClearChange

\* Schedule is a turn of its call.
LEMMA ScheduleTurn ==
  ASSUME Base, NEW q \in Calls, Schedule(q)
  PROVE  Turn(q)
<1>1. plan' = plan /\ codes' \in Nat /\ codes' >= codes BY Typing DEF Schedule, outbox
<1>2. CASE Ends(q, "schedule", "scheduled") BY <1>1, <1>2, Named, EndsTurn DEF Dropping
<1>3. CASE Ends(q, "schedule", "threw") BY <1>1, <1>3, Named, EndsTurn DEF Dropping
<1> QED BY <1>2, <1>3 DEF Schedule

\* CancelDeletion is a turn of its call.
LEMMA CancelDeletionTurn ==
  ASSUME Base, NEW q \in Calls, CancelDeletion(q)
  PROVE  Turn(q)
<1>1. plan' = plan /\ codes' \in Nat /\ codes' >= codes BY Typing DEF CancelDeletion, outbox
<1>2. CASE Ends(q, "cancel", "restored") BY <1>1, <1>2, Named, EndsTurn DEF Dropping
<1>3. CASE Ends(q, "cancel", "threw") BY <1>1, <1>3, Named, EndsTurn DEF Dropping
<1> QED BY <1>2, <1>3 DEF CancelDeletion

\* AdminEmail is a turn of its call.
LEMMA AdminEmailTurn ==
  ASSUME Base, NEW q \in Calls, AdminEmail(q)
  PROVE  Turn(q)
<1>1. plan' = plan /\ codes' \in Nat /\ codes' >= codes BY Typing DEF AdminEmail, outbox
<1>2. CASE Ends(q, "email", "saved") BY <1>1, <1>2, Named, EndsTurn DEF Dropping
<1>3. CASE Ends(q, "email", "threw") BY <1>1, <1>3, Named, EndsTurn DEF Dropping
<1> QED BY <1>2, <1>3 DEF AdminEmail

\* CreateInvite is a turn of its call.
LEMMA CreateInviteTurn ==
  ASSUME Base, NEW q \in Calls, CreateInvite(q)
  PROVE  Turn(q)
<1>1. plan' = plan /\ codes' \in Nat /\ codes' >= codes BY Typing DEF CreateInvite, outbox
<1>2. CASE Ends(q, "invite", "invited") BY <1>1, <1>2, Named, EndsTurn DEF Dropping
<1>3. CASE Ends(q, "invite", "threw") BY <1>1, <1>3, Named, EndsTurn DEF Dropping
<1> QED BY <1>2, <1>3 DEF CreateInvite

\* RemoveMember is a turn of its call.
LEMMA RemoveMemberTurn ==
  ASSUME Base, NEW q \in Calls, RemoveMember(q)
  PROVE  Turn(q)
<1>1. plan' = plan /\ codes' \in Nat /\ codes' >= codes BY Typing DEF RemoveMember, outbox
<1>2. CASE Ends(q, "remove", "removed") BY <1>1, <1>2, Named, EndsTurn DEF Dropping
<1>3. CASE Ends(q, "remove", "threw") BY <1>1, <1>3, Named, EndsTurn DEF Dropping
<1> QED BY <1>2, <1>3 DEF RemoveMember

\* WriteRoster is a turn of its call.
LEMMA WriteRosterTurn ==
  ASSUME Base, NEW q \in Calls, WriteRoster(q)
  PROVE  Turn(q)
<1>1. plan' = plan /\ codes' \in Nat /\ codes' >= codes BY Typing DEF WriteRoster, outbox
<1>2. CASE Ends(q, "roster", "saved") BY <1>1, <1>2, Named, EndsTurn DEF Dropping
<1>3. CASE Ends(q, "roster", "threw") BY <1>1, <1>3, Named, EndsTurn DEF Dropping
<1> QED BY <1>2, <1>3 DEF WriteRoster

\* Record is a turn of its call.
LEMMA RecordTurn ==
  ASSUME Base, NEW q \in Calls, Record(q)
  PROVE  Turn(q)
<1>1. plan' = plan /\ codes' \in Nat /\ codes' >= codes BY Typing DEF Record, outbox
<1>2. CASE Ends(q, "record", "assigned") BY <1>1, <1>2, Named, EndsTurn DEF Dropping
<1> QED BY <1>2 DEF Record

\* ResendCode is a turn of its call.
LEMMA ResendCodeTurn ==
  ASSUME Base, NEW q \in Calls, ResendCode(q)
  PROVE  Turn(q)
<1>1. plan' = plan /\ codes' \in Nat /\ codes' >= codes BY Typing DEF ResendCode, outbox
<1>2. call[q].pc = "new" /\ call' = [call EXCEPT ![q] = Begun(q, Ending(q, "sent"))] /\ Does(q).op \notin Guessing \cup {"cleanup", "handover"}
      /\ ("sent" = "changed" => Does(q).op = "changePassword")
  BY DEF ResendCode, Starts, Guessing
<1> QED BY <1>1, <1>2, Named, BeginsDone

\* LostPassword is a turn of its call.
LEMMA LostPasswordTurn ==
  ASSUME Base, NEW q \in Calls, LostPassword(q)
  PROVE  Turn(q)
<1>1. plan' = plan /\ codes' \in Nat /\ codes' >= codes BY Typing DEF LostPassword, outbox
<1>2. call[q].pc = "new" /\ call' = [call EXCEPT ![q] = Begun(q, Ending(q, "sent"))] /\ Does(q).op \notin Guessing \cup {"cleanup", "handover"}
      /\ ("sent" = "changed" => Does(q).op = "changePassword")
  BY DEF LostPassword, Starts, Guessing
<1> QED BY <1>1, <1>2, Named, BeginsDone

\* ChangePassword is a turn of its call.
LEMMA ChangePasswordTurn ==
  ASSUME Base, NEW q \in Calls, ChangePassword(q)
  PROVE  Turn(q)
<1>1. plan' = plan /\ codes' \in Nat /\ codes' >= codes BY Typing DEF ChangePassword, outbox
<1>2. call[q].pc = "new" /\ call' = [call EXCEPT ![q] = Begun(q, Ending(q, "changed"))] /\ Does(q).op \notin Guessing \cup {"cleanup", "handover"}
      /\ ("changed" = "changed" => Does(q).op = "changePassword")
  BY DEF ChangePassword, Starts, Guessing
<1> QED BY <1>1, <1>2, Named, BeginsDone

\* Disconnect is a turn of its call.
LEMMA DisconnectTurn ==
  ASSUME Base, NEW q \in Calls, Disconnect(q)
  PROVE  Turn(q)
<1>1. plan' = plan /\ codes' \in Nat /\ codes' >= codes BY Typing DEF Disconnect, outbox
<1>2. call[q].pc = "new" /\ call' = [call EXCEPT ![q] = Begun(q, Ending(q, "unlinked"))] /\ Does(q).op \notin Guessing \cup {"cleanup", "handover"}
      /\ ("unlinked" = "changed" => Does(q).op = "changePassword")
  BY DEF Disconnect, Starts, Guessing
<1> QED BY <1>1, <1>2, Named, BeginsDone

\* AdminDelete is a turn of its call.
LEMMA AdminDeleteTurn ==
  ASSUME Base, NEW q \in Calls, AdminDelete(q)
  PROVE  Turn(q)
<1>1. plan' = plan /\ codes' \in Nat /\ codes' >= codes BY Typing DEF AdminDelete, outbox
<1>2. call[q].pc = "new" /\ call' = [call EXCEPT ![q] = Begun(q, Ending(q, "deleted"))] /\ Does(q).op \notin Guessing \cup {"cleanup", "handover"}
      /\ ("deleted" = "changed" => Does(q).op = "changePassword")
  BY DEF AdminDelete, Starts, Guessing
<1> QED BY <1>1, <1>2, Named, BeginsDone

\* AdminRestore is a turn of its call.
LEMMA AdminRestoreTurn ==
  ASSUME Base, NEW q \in Calls, AdminRestore(q)
  PROVE  Turn(q)
<1>1. plan' = plan /\ codes' \in Nat /\ codes' >= codes BY Typing DEF AdminRestore, outbox
<1>2. call[q].pc = "new" /\ call' = [call EXCEPT ![q] = Begun(q, Ending(q, "restored"))] /\ Does(q).op \notin Guessing \cup {"cleanup", "handover"}
      /\ ("restored" = "changed" => Does(q).op = "changePassword")
  BY DEF AdminRestore, Starts, Guessing
<1> QED BY <1>1, <1>2, Named, BeginsDone

\* ReadSession is a turn of its call.
LEMMA ReadSessionTurn ==
  ASSUME Base, NEW q \in Calls, ReadSession(q)
  PROVE  Turn(q)
<1> DEFINE asked == MayRefresh(Does(q).who)
<1>1. /\ plan' = plan /\ user' = user /\ codes' = codes /\ codes \in Nat /\ call[q].pc = "new" /\ Does(q).op = "refresh"
      /\ call' = [call EXCEPT ![q] = Begun(q, IF asked THEN At(q, "renew", Does(q).who) ELSE Ending(q, "refused"))]
  BY Typing DEF ReadSession, Starts, outbox
<1> HIDE DEF asked
<1>2. CASE asked
 <2> DEFINE x == At(q, "renew", Does(q).who)
 <2>1. Does(q).who \in Users /\ Live(Does(q).who) /\ user[Does(q).who].session
   BY <1>1, <1>2, Typing DEF ReadSession, Live, asked, MayRefresh
 <2>2. /\ x \in CallRow /\ x.pc = "renew" /\ x.user = Does(q).who /\ x.row = call[q].row /\ x.code = call[q].code
       /\ x.seen = call[q].seen /\ x.to = call[q].to /\ x.set = call[q].set /\ x.end = call[q].end
   BY <2>1, Named, AtIs
 <2>3. /\ call[q].user = None /\ call[q].row = 0 /\ call[q].code = 0 /\ call[q].seen = 0
       /\ call[q].to = None /\ call[q].set = {} /\ call[q].end = "none"
   BY <1>1, NewIs
 <2>4. call' = [call EXCEPT ![q] = Begun(q, x)] BY <1>1, <1>2
 <2> HIDE DEF x
 <2>5. InPlace(q, x) /\ Holds(q, x, Len(member), codes)
   BY <1>1, <2>1, <2>2, <2>3, Typing DEF InPlace, Holds, Making, Dropping, Over, SignUps, Guessing
 <2>6. EntersAccounts(q, call[q], x) /\ EntersTeams(q, call[q], x) /\ EntersHandover(q, call[q], x) /\ EntersGuess(q, call[q], x)
   BY <1>1, <2>1, <2>2, <2>3 DEF EntersAccounts, EntersTeams, EntersHandover, EntersGuess, Guessing, SignUps
 <2>7. \A v \in Users : v = x.user \/ v \in x.set => user'[v].st # "none" BY <1>1, <2>1, <2>2, <2>3 DEF Live
 <2>8. codes' \in Nat /\ codes' >= codes /\ x.pc \notin {"new"} \cup Over /\ x.end = "none" /\ plan' = plan /\ call[q].pc = "new"
   BY <1>1, <2>2, <2>3 DEF Over
 <2> QED BY <2>2, <2>4, <2>5, <2>6, <2>7, <2>8, BeginsTurn
<1>3. CASE ~asked
 <2>1. call' = [call EXCEPT ![q] = Begun(q, Ending(q, "refused"))] /\ codes' \in Nat /\ codes' >= codes /\ "refused" \in Outcomes
   BY <1>1, <1>3, Named
 <2> QED BY <1>1, <2>1, BeginsDone DEF Guessing
<1> QED BY <1>2, <1>3

\* AskConnect is a turn of its call.
LEMMA AskConnectTurn ==
  ASSUME Base, NEW q \in Calls, AskConnect(q)
  PROVE  Turn(q)
<1> DEFINE asked == Identified(Does(q).email) \subseteq {Does(q).who}
<1>1. /\ plan' = plan /\ user' = user /\ codes' = codes /\ codes \in Nat /\ call[q].pc = "new" /\ Does(q).op = "connect"
      /\ call' = [call EXCEPT ![q] = Begun(q, IF asked THEN At(q, "link", Does(q).who) ELSE Ending(q, "refused"))]
  BY Typing DEF AskConnect, Starts, outbox
<1> HIDE DEF asked
<1>2. CASE asked
 <2> DEFINE x == At(q, "link", Does(q).who)
 <2>1. Does(q).who \in Users /\ Live(Does(q).who) BY <1>1, <1>2, Typing DEF AskConnect, Live, asked
 <2>2. /\ x \in CallRow /\ x.pc = "link" /\ x.user = Does(q).who /\ x.row = call[q].row /\ x.code = call[q].code
       /\ x.seen = call[q].seen /\ x.to = call[q].to /\ x.set = call[q].set /\ x.end = call[q].end
   BY <2>1, Named, AtIs
 <2>3. /\ call[q].user = None /\ call[q].row = 0 /\ call[q].code = 0 /\ call[q].seen = 0
       /\ call[q].to = None /\ call[q].set = {} /\ call[q].end = "none"
   BY <1>1, NewIs
 <2>4. call' = [call EXCEPT ![q] = Begun(q, x)] BY <1>1, <1>2
 <2> HIDE DEF x
 <2>5. InPlace(q, x) /\ Holds(q, x, Len(member), codes)
   BY <1>1, <2>1, <2>2, <2>3, Typing DEF InPlace, Holds, Making, Dropping, Over, SignUps, Guessing
 <2>6. EntersAccounts(q, call[q], x) /\ EntersTeams(q, call[q], x) /\ EntersHandover(q, call[q], x) /\ EntersGuess(q, call[q], x)
   BY <1>1, <2>1, <2>2, <2>3 DEF EntersAccounts, EntersTeams, EntersHandover, EntersGuess, Guessing, SignUps
 <2>7. \A v \in Users : v = x.user \/ v \in x.set => user'[v].st # "none" BY <1>1, <2>1, <2>2, <2>3 DEF Live
 <2>8. codes' \in Nat /\ codes' >= codes /\ x.pc \notin {"new"} \cup Over /\ x.end = "none" /\ plan' = plan /\ call[q].pc = "new"
   BY <1>1, <2>2, <2>3 DEF Over
 <2> QED BY <2>2, <2>4, <2>5, <2>6, <2>7, <2>8, BeginsTurn
<1>3. CASE ~asked
 <2>1. call' = [call EXCEPT ![q] = Begun(q, Ending(q, "refused"))] /\ codes' \in Nat /\ codes' >= codes /\ "refused" \in Outcomes
   BY <1>1, <1>3, Named
 <2> QED BY <1>1, <2>1, BeginsDone DEF Guessing
<1> QED BY <1>2, <1>3

\* AskChange is a turn of its call.
LEMMA AskChangeTurn ==
  ASSUME Base, NEW q \in Calls, AskChange(q)
  PROVE  Turn(q)
<1> DEFINE asked == user[Does(q).who].pass /\ Does(q).email # user[Does(q).who].email /\ With(Does(q).email) = {}
<1>1. /\ plan' = plan /\ user' = user /\ codes' = codes /\ codes \in Nat /\ call[q].pc = "new" /\ Does(q).op = "requestChange"
      /\ call' = [call EXCEPT ![q] = Begun(q, IF asked THEN At(q, "pend", Does(q).who) ELSE Ending(q, "refused"))]
  BY Typing DEF AskChange, Starts, outbox
<1> HIDE DEF asked
<1>2. CASE asked
 <2> DEFINE x == At(q, "pend", Does(q).who)
 <2>1. Does(q).who \in Users /\ Live(Does(q).who) BY <1>1, <1>2, Typing DEF AskChange, Live, asked
 <2>2. /\ x \in CallRow /\ x.pc = "pend" /\ x.user = Does(q).who /\ x.row = call[q].row /\ x.code = call[q].code
       /\ x.seen = call[q].seen /\ x.to = call[q].to /\ x.set = call[q].set /\ x.end = call[q].end
   BY <2>1, Named, AtIs
 <2>3. /\ call[q].user = None /\ call[q].row = 0 /\ call[q].code = 0 /\ call[q].seen = 0
       /\ call[q].to = None /\ call[q].set = {} /\ call[q].end = "none"
   BY <1>1, NewIs
 <2>4. call' = [call EXCEPT ![q] = Begun(q, x)] BY <1>1, <1>2
 <2> HIDE DEF x
 <2>5. InPlace(q, x) /\ Holds(q, x, Len(member), codes)
   BY <1>1, <2>1, <2>2, <2>3, Typing DEF InPlace, Holds, Making, Dropping, Over, SignUps, Guessing
 <2>6. EntersAccounts(q, call[q], x) /\ EntersTeams(q, call[q], x) /\ EntersHandover(q, call[q], x) /\ EntersGuess(q, call[q], x)
   BY <1>1, <2>1, <2>2, <2>3 DEF EntersAccounts, EntersTeams, EntersHandover, EntersGuess, Guessing, SignUps
 <2>7. \A v \in Users : v = x.user \/ v \in x.set => user'[v].st # "none" BY <1>1, <2>1, <2>2, <2>3 DEF Live
 <2>8. codes' \in Nat /\ codes' >= codes /\ x.pc \notin {"new"} \cup Over /\ x.end = "none" /\ plan' = plan /\ call[q].pc = "new"
   BY <1>1, <2>2, <2>3 DEF Over
 <2> QED BY <2>2, <2>4, <2>5, <2>6, <2>7, <2>8, BeginsTurn
<1>3. CASE ~asked
 <2>1. call' = [call EXCEPT ![q] = Begun(q, Ending(q, "refused"))] /\ codes' \in Nat /\ codes' >= codes /\ "refused" \in Outcomes
   BY <1>1, <1>3, Named
 <2> QED BY <1>1, <2>1, BeginsDone DEF Guessing
<1> QED BY <1>2, <1>3

\* FindChange is a turn of its call.
LEMMA FindChangeTurn ==
  ASSUME Base, NEW q \in Calls, FindChange(q)
  PROVE  Turn(q)
<1> DEFINE asked == Live(Does(q).who) /\ user[Does(q).who].pend # None
<1>1. /\ plan' = plan /\ user' = user /\ codes' = codes /\ codes \in Nat /\ call[q].pc = "new" /\ Does(q).op = "cancelChange"
      /\ call' = [call EXCEPT ![q] = Begun(q, IF asked THEN At(q, "clear", Does(q).who) ELSE Ending(q, "nothing"))]
  BY Typing DEF FindChange, Starts, outbox
<1> HIDE DEF asked
<1>2. CASE asked
 <2> DEFINE x == At(q, "clear", Does(q).who)
 <2>1. Does(q).who \in Users /\ Live(Does(q).who) BY <1>1, <1>2, Typing DEF FindChange, Live, asked
 <2>2. /\ x \in CallRow /\ x.pc = "clear" /\ x.user = Does(q).who /\ x.row = call[q].row /\ x.code = call[q].code
       /\ x.seen = call[q].seen /\ x.to = call[q].to /\ x.set = call[q].set /\ x.end = call[q].end
   BY <2>1, Named, AtIs
 <2>3. /\ call[q].user = None /\ call[q].row = 0 /\ call[q].code = 0 /\ call[q].seen = 0
       /\ call[q].to = None /\ call[q].set = {} /\ call[q].end = "none"
   BY <1>1, NewIs
 <2>4. call' = [call EXCEPT ![q] = Begun(q, x)] BY <1>1, <1>2
 <2> HIDE DEF x
 <2>5. InPlace(q, x) /\ Holds(q, x, Len(member), codes)
   BY <1>1, <2>1, <2>2, <2>3, Typing DEF InPlace, Holds, Making, Dropping, Over, SignUps, Guessing
 <2>6. EntersAccounts(q, call[q], x) /\ EntersTeams(q, call[q], x) /\ EntersHandover(q, call[q], x) /\ EntersGuess(q, call[q], x)
   BY <1>1, <2>1, <2>2, <2>3 DEF EntersAccounts, EntersTeams, EntersHandover, EntersGuess, Guessing, SignUps
 <2>7. \A v \in Users : v = x.user \/ v \in x.set => user'[v].st # "none" BY <1>1, <2>1, <2>2, <2>3 DEF Live
 <2>8. codes' \in Nat /\ codes' >= codes /\ x.pc \notin {"new"} \cup Over /\ x.end = "none" /\ plan' = plan /\ call[q].pc = "new"
   BY <1>1, <2>2, <2>3 DEF Over
 <2> QED BY <2>2, <2>4, <2>5, <2>6, <2>7, <2>8, BeginsTurn
<1>3. CASE ~asked
 <2>1. call' = [call EXCEPT ![q] = Begun(q, Ending(q, "nothing"))] /\ codes' \in Nat /\ codes' >= codes /\ "nothing" \in Outcomes
   BY <1>1, <1>3, Named
 <2> QED BY <1>1, <2>1, BeginsDone DEF Guessing
<1> QED BY <1>2, <1>3

\* CheckEligible is a turn of its call.
LEMMA CheckEligibleTurn ==
  ASSUME Base, NEW q \in Calls, CheckEligible(q)
  PROVE  Turn(q)
<1> DEFINE asked == Eligible(Does(q).who) /\ ~user[Does(q).who].deleted
<1>1. /\ plan' = plan /\ user' = user /\ codes' = codes /\ codes \in Nat /\ call[q].pc = "new" /\ Does(q).op = "requestDeletion"
      /\ call' = [call EXCEPT ![q] = Begun(q, IF asked THEN At(q, "schedule", Does(q).who) ELSE Ending(q, "refused"))]
  BY Typing DEF CheckEligible, Starts, outbox
<1> HIDE DEF asked
<1>2. CASE asked
 <2> DEFINE x == At(q, "schedule", Does(q).who)
 <2>1. Does(q).who \in Users /\ Live(Does(q).who) BY <1>1, <1>2, Typing DEF CheckEligible, Live, asked
 <2>2. /\ x \in CallRow /\ x.pc = "schedule" /\ x.user = Does(q).who /\ x.row = call[q].row /\ x.code = call[q].code
       /\ x.seen = call[q].seen /\ x.to = call[q].to /\ x.set = call[q].set /\ x.end = call[q].end
   BY <2>1, Named, AtIs
 <2>3. /\ call[q].user = None /\ call[q].row = 0 /\ call[q].code = 0 /\ call[q].seen = 0
       /\ call[q].to = None /\ call[q].set = {} /\ call[q].end = "none"
   BY <1>1, NewIs
 <2>4. call' = [call EXCEPT ![q] = Begun(q, x)] BY <1>1, <1>2
 <2> HIDE DEF x
 <2>5. InPlace(q, x) /\ Holds(q, x, Len(member), codes)
   BY <1>1, <2>1, <2>2, <2>3, Typing DEF InPlace, Holds, Making, Dropping, Over, SignUps, Guessing
 <2>6. EntersAccounts(q, call[q], x) /\ EntersTeams(q, call[q], x) /\ EntersHandover(q, call[q], x) /\ EntersGuess(q, call[q], x)
   BY <1>1, <2>1, <2>2, <2>3 DEF EntersAccounts, EntersTeams, EntersHandover, EntersGuess, Guessing, SignUps
 <2>7. \A v \in Users : v = x.user \/ v \in x.set => user'[v].st # "none" BY <1>1, <2>1, <2>2, <2>3 DEF Live
 <2>8. codes' \in Nat /\ codes' >= codes /\ x.pc \notin {"new"} \cup Over /\ x.end = "none" /\ plan' = plan /\ call[q].pc = "new"
   BY <1>1, <2>2, <2>3 DEF Over
 <2> QED BY <2>2, <2>4, <2>5, <2>6, <2>7, <2>8, BeginsTurn
<1>3. CASE ~asked
 <2>1. call' = [call EXCEPT ![q] = Begun(q, Ending(q, "refused"))] /\ codes' \in Nat /\ codes' >= codes /\ "refused" \in Outcomes
   BY <1>1, <1>3, Named
 <2> QED BY <1>1, <2>1, BeginsDone DEF Guessing
<1> QED BY <1>2, <1>3

\* ReadDeletion is a turn of its call.
LEMMA ReadDeletionTurn ==
  ASSUME Base, NEW q \in Calls, ReadDeletion(q)
  PROVE  Turn(q)
<1> DEFINE asked == user[Does(q).who].deleted
<1>1. /\ plan' = plan /\ user' = user /\ codes' = codes /\ codes \in Nat /\ call[q].pc = "new" /\ Does(q).op = "cancelDeletion"
      /\ call' = [call EXCEPT ![q] = Begun(q, IF asked THEN At(q, "cancel", Does(q).who) ELSE Ending(q, "refused"))]
  BY Typing DEF ReadDeletion, Starts, outbox
<1> HIDE DEF asked
<1>2. CASE asked
 <2> DEFINE x == At(q, "cancel", Does(q).who)
 <2>1. Does(q).who \in Users /\ Live(Does(q).who) BY <1>1, <1>2, Typing DEF ReadDeletion, Live, asked
 <2>2. /\ x \in CallRow /\ x.pc = "cancel" /\ x.user = Does(q).who /\ x.row = call[q].row /\ x.code = call[q].code
       /\ x.seen = call[q].seen /\ x.to = call[q].to /\ x.set = call[q].set /\ x.end = call[q].end
   BY <2>1, Named, AtIs
 <2>3. /\ call[q].user = None /\ call[q].row = 0 /\ call[q].code = 0 /\ call[q].seen = 0
       /\ call[q].to = None /\ call[q].set = {} /\ call[q].end = "none"
   BY <1>1, NewIs
 <2>4. call' = [call EXCEPT ![q] = Begun(q, x)] BY <1>1, <1>2
 <2> HIDE DEF x
 <2>5. InPlace(q, x) /\ Holds(q, x, Len(member), codes)
   BY <1>1, <2>1, <2>2, <2>3, Typing DEF InPlace, Holds, Making, Dropping, Over, SignUps, Guessing
 <2>6. EntersAccounts(q, call[q], x) /\ EntersTeams(q, call[q], x) /\ EntersHandover(q, call[q], x) /\ EntersGuess(q, call[q], x)
   BY <1>1, <2>1, <2>2, <2>3 DEF EntersAccounts, EntersTeams, EntersHandover, EntersGuess, Guessing, SignUps
 <2>7. \A v \in Users : v = x.user \/ v \in x.set => user'[v].st # "none" BY <1>1, <2>1, <2>2, <2>3 DEF Live
 <2>8. codes' \in Nat /\ codes' >= codes /\ x.pc \notin {"new"} \cup Over /\ x.end = "none" /\ plan' = plan /\ call[q].pc = "new"
   BY <1>1, <2>2, <2>3 DEF Over
 <2> QED BY <2>2, <2>4, <2>5, <2>6, <2>7, <2>8, BeginsTurn
<1>3. CASE ~asked
 <2>1. call' = [call EXCEPT ![q] = Begun(q, Ending(q, "refused"))] /\ codes' \in Nat /\ codes' >= codes /\ "refused" \in Outcomes
   BY <1>1, <1>3, Named
 <2> QED BY <1>1, <2>1, BeginsDone DEF Guessing
<1> QED BY <1>2, <1>3

\* AdminAskEmail is a turn of its call.
LEMMA AdminAskEmailTurn ==
  ASSUME Base, NEW q \in Calls, AdminAskEmail(q)
  PROVE  Turn(q)
<1> DEFINE asked == With(Does(q).email) = {}
<1>1. /\ plan' = plan /\ user' = user /\ codes' = codes /\ codes \in Nat /\ call[q].pc = "new" /\ Does(q).op = "adminEmail"
      /\ call' = [call EXCEPT ![q] = Begun(q, IF asked THEN At(q, "email", Does(q).who) ELSE Ending(q, "refused"))]
  BY Typing DEF AdminAskEmail, Starts, outbox
<1> HIDE DEF asked
<1>2. CASE asked
 <2> DEFINE x == At(q, "email", Does(q).who)
 <2>1. Does(q).who \in Users /\ Live(Does(q).who) BY <1>1, <1>2, Typing DEF AdminAskEmail, Live, asked
 <2>2. /\ x \in CallRow /\ x.pc = "email" /\ x.user = Does(q).who /\ x.row = call[q].row /\ x.code = call[q].code
       /\ x.seen = call[q].seen /\ x.to = call[q].to /\ x.set = call[q].set /\ x.end = call[q].end
   BY <2>1, Named, AtIs
 <2>3. /\ call[q].user = None /\ call[q].row = 0 /\ call[q].code = 0 /\ call[q].seen = 0
       /\ call[q].to = None /\ call[q].set = {} /\ call[q].end = "none"
   BY <1>1, NewIs
 <2>4. call' = [call EXCEPT ![q] = Begun(q, x)] BY <1>1, <1>2
 <2> HIDE DEF x
 <2>5. InPlace(q, x) /\ Holds(q, x, Len(member), codes)
   BY <1>1, <2>1, <2>2, <2>3, Typing DEF InPlace, Holds, Making, Dropping, Over, SignUps, Guessing
 <2>6. EntersAccounts(q, call[q], x) /\ EntersTeams(q, call[q], x) /\ EntersHandover(q, call[q], x) /\ EntersGuess(q, call[q], x)
   BY <1>1, <2>1, <2>2, <2>3 DEF EntersAccounts, EntersTeams, EntersHandover, EntersGuess, Guessing, SignUps
 <2>7. \A v \in Users : v = x.user \/ v \in x.set => user'[v].st # "none" BY <1>1, <2>1, <2>2, <2>3 DEF Live
 <2>8. codes' \in Nat /\ codes' >= codes /\ x.pc \notin {"new"} \cup Over /\ x.end = "none" /\ plan' = plan /\ call[q].pc = "new"
   BY <1>1, <2>2, <2>3 DEF Over
 <2> QED BY <2>2, <2>4, <2>5, <2>6, <2>7, <2>8, BeginsTurn
<1>3. CASE ~asked
 <2>1. call' = [call EXCEPT ![q] = Begun(q, Ending(q, "refused"))] /\ codes' \in Nat /\ codes' >= codes /\ "refused" \in Outcomes
   BY <1>1, <1>3, Named
 <2> QED BY <1>1, <2>1, BeginsDone DEF Guessing
<1> QED BY <1>2, <1>3

\* MakeTeam is a turn of its call.
LEMMA MakeTeamTurn ==
  ASSUME Base, NEW q \in Calls, MakeTeam(q)
  PROVE  Turn(q)
<1>1. plan' = plan /\ codes' \in Nat /\ codes' >= codes BY Typing DEF MakeTeam, outbox
<1>2. Goes(q, "team", "owner") BY DEF MakeTeam
<1> QED
 <2> DEFINE x == [call[q] EXCEPT !.pc = "owner"]
 <2>1. /\ call[q] \in CallRow /\ call[q].pc = "team" /\ InPlace(q, call[q]) /\ Holds(q, call[q], Len(member), codes)
   BY <1>2, CallTypes DEF Goes, Moves
 <2>9. call[q].end = "none" BY <2>1 DEF Holds
 <2>2. /\ x.end = "none" /\ x.pc = "owner" /\ x.user = call[q].user /\ x.row = call[q].row /\ x.code = call[q].code
       /\ x.seen = call[q].seen /\ x.to = call[q].to /\ x.set = call[q].set /\ x.end = call[q].end
   BY <2>1, <2>9 DEF CallRow
 <2> HIDE DEF x
 <2>3. InPlace(q, x) BY <1>1, <2>1, <2>2 DEF InPlace, Making, Dropping, SignUps
 <2>4. Holds(q, x, Len(member), codes) BY <1>1, <2>1, <2>2, Typing DEF Holds, Making, Over, SignUps
 <2>5. EntersAccounts(q, call[q], x) BY <1>1, <2>1, <2>2 DEF EntersAccounts, InPlace, Dropping, Making, SignUps
 <2>6. EntersTeams(q, call[q], x) BY <1>1, <2>1, <2>2 DEF EntersTeams, SignUps
 <2>7. EntersHandover(q, call[q], x) /\ EntersGuess(q, call[q], x)
   BY <1>1, <2>1, <2>2 DEF EntersHandover, EntersGuess, InPlace, Guessing, Making, SignUps
 <2>8. "owner" \in Pcs \ {"new"} /\ "team" \notin Over \cup {"new"} BY Named DEF Over
 <2> QED BY <1>1, <1>2, <2>3, <2>4, <2>5, <2>6, <2>7, <2>8, GoesTurn DEF x

\* MakeOwner is a turn of its call.
LEMMA MakeOwnerTurn ==
  ASSUME Base, NEW q \in Calls, MakeOwner(q)
  PROVE  Turn(q)
<1>1. plan' = plan /\ codes' \in Nat /\ codes' >= codes BY Typing DEF MakeOwner, outbox
<1>2. Goes(q, "owner", "quotas") BY DEF MakeOwner
<1> QED
 <2> DEFINE x == [call[q] EXCEPT !.pc = "quotas"]
 <2>1. /\ call[q] \in CallRow /\ call[q].pc = "owner" /\ InPlace(q, call[q]) /\ Holds(q, call[q], Len(member), codes)
   BY <1>2, CallTypes DEF Goes, Moves
 <2>9. call[q].end = "none" BY <2>1 DEF Holds
 <2>2. /\ x.end = "none" /\ x.pc = "quotas" /\ x.user = call[q].user /\ x.row = call[q].row /\ x.code = call[q].code
       /\ x.seen = call[q].seen /\ x.to = call[q].to /\ x.set = call[q].set /\ x.end = call[q].end
   BY <2>1, <2>9 DEF CallRow
 <2> HIDE DEF x
 <2>3. InPlace(q, x) BY <1>1, <2>1, <2>2 DEF InPlace, Making, Dropping, SignUps
 <2>4. Holds(q, x, Len(member), codes) BY <1>1, <2>1, <2>2, Typing DEF Holds, Making, Over, SignUps
 <2>5. EntersAccounts(q, call[q], x) BY <1>1, <2>1, <2>2 DEF EntersAccounts, InPlace, Dropping, Making, SignUps
 <2>6. EntersTeams(q, call[q], x) BY <1>1, <2>1, <2>2 DEF EntersTeams, SignUps
 <2>7. EntersHandover(q, call[q], x) /\ EntersGuess(q, call[q], x)
   BY <1>1, <2>1, <2>2 DEF EntersHandover, EntersGuess, InPlace, Guessing, Making, SignUps
 <2>8. "quotas" \in Pcs \ {"new"} /\ "owner" \notin Over \cup {"new"} BY Named DEF Over
 <2> QED BY <1>1, <1>2, <2>3, <2>4, <2>5, <2>6, <2>7, <2>8, GoesTurn DEF x

\* DropRows is a turn of its call.
LEMMA DropRowsTurn ==
  ASSUME Base, NEW q \in Calls, DropRows(q)
  PROVE  Turn(q)
<1>1. plan' = plan /\ codes' \in Nat /\ codes' >= codes BY Typing DEF DropRows, outbox
<1>2. Goes(q, "dropRows", "dropUser") BY DEF DropRows
<1> QED
 <2> DEFINE x == [call[q] EXCEPT !.pc = "dropUser"]
 <2>1. /\ call[q] \in CallRow /\ call[q].pc = "dropRows" /\ InPlace(q, call[q]) /\ Holds(q, call[q], Len(member), codes)
   BY <1>2, CallTypes DEF Goes, Moves
 <2>9. call[q].end = "none" BY <2>1 DEF Holds
 <2>2. /\ x.end = "none" /\ x.pc = "dropUser" /\ x.user = call[q].user /\ x.row = call[q].row /\ x.code = call[q].code
       /\ x.seen = call[q].seen /\ x.to = call[q].to /\ x.set = call[q].set /\ x.end = call[q].end
   BY <2>1, <2>9 DEF CallRow
 <2> HIDE DEF x
 <2>3. InPlace(q, x) BY <1>1, <2>1, <2>2 DEF InPlace, Making, Dropping, SignUps
 <2>4. Holds(q, x, Len(member), codes) BY <1>1, <2>1, <2>2, Typing DEF Holds, Making, Over, SignUps
 <2>5. EntersAccounts(q, call[q], x) BY <1>1, <2>1, <2>2 DEF EntersAccounts, InPlace, Dropping, Making, SignUps
 <2>6. EntersTeams(q, call[q], x) BY <1>1, <2>1, <2>2 DEF EntersTeams, SignUps
 <2>7. EntersHandover(q, call[q], x) /\ EntersGuess(q, call[q], x)
   BY <1>1, <2>1, <2>2 DEF EntersHandover, EntersGuess, InPlace, Guessing, Making, SignUps
 <2>8. "dropUser" \in Pcs \ {"new"} /\ "dropRows" \notin Over \cup {"new"} BY Named DEF Over
 <2> QED BY <1>1, <1>2, <2>3, <2>4, <2>5, <2>6, <2>7, <2>8, GoesTurn DEF x

\* MakeQuotas is a turn of its call.
LEMMA MakeQuotasTurn ==
  ASSUME Base, NEW q \in Calls, MakeQuotas(q)
  PROVE  Turn(q)
<1>1. plan' = plan /\ codes' \in Nat /\ codes' >= codes BY Typing DEF MakeQuotas, outbox
<1>2. CASE Does(q).op = "register" /\ Goes(q, "quotas", "mail")
 <2> DEFINE x == [call[q] EXCEPT !.pc = "mail"]
 <2>1. /\ call[q] \in CallRow /\ call[q].pc = "quotas" /\ InPlace(q, call[q]) /\ Holds(q, call[q], Len(member), codes)
   BY <1>2, CallTypes DEF Goes, Moves
 <2>9. call[q].end = "none" BY <2>1 DEF Holds
 <2>2. /\ x.end = "none" /\ x.pc = "mail" /\ x.user = call[q].user /\ x.row = call[q].row /\ x.code = call[q].code
       /\ x.seen = call[q].seen /\ x.to = call[q].to /\ x.set = call[q].set /\ x.end = call[q].end
   BY <2>1, <2>9 DEF CallRow
 <2> HIDE DEF x
 <2>3. InPlace(q, x) BY <1>2, <2>1, <2>2 DEF InPlace, Making, Dropping, SignUps
 <2>4. Holds(q, x, Len(member), codes) BY <1>2, <2>1, <2>2, Typing DEF Holds, Making, Over, SignUps
 <2>5. EntersAccounts(q, call[q], x) BY <1>2, <2>1, <2>2 DEF EntersAccounts, InPlace, Dropping, Making, SignUps
 <2>6. EntersTeams(q, call[q], x) BY <1>2, <2>1, <2>2 DEF EntersTeams, SignUps
 <2>7. EntersHandover(q, call[q], x) /\ EntersGuess(q, call[q], x)
   BY <1>2, <2>1, <2>2 DEF EntersHandover, EntersGuess, InPlace, Guessing, Making, SignUps
 <2>8. "mail" \in Pcs \ {"new"} /\ "quotas" \notin Over \cup {"new"} BY Named DEF Over
 <2> QED BY <1>1, <1>2, <2>3, <2>4, <2>5, <2>6, <2>7, <2>8, GoesTurn DEF x
<1>3. CASE Does(q).op = "oauth" /\ Goes(q, "quotas", "signIn")
 <2> DEFINE x == [call[q] EXCEPT !.pc = "signIn"]
 <2>1. /\ call[q] \in CallRow /\ call[q].pc = "quotas" /\ InPlace(q, call[q]) /\ Holds(q, call[q], Len(member), codes)
   BY <1>3, CallTypes DEF Goes, Moves
 <2>9. call[q].end = "none" BY <2>1 DEF Holds
 <2>2. /\ x.end = "none" /\ x.pc = "signIn" /\ x.user = call[q].user /\ x.row = call[q].row /\ x.code = call[q].code
       /\ x.seen = call[q].seen /\ x.to = call[q].to /\ x.set = call[q].set /\ x.end = call[q].end
   BY <2>1, <2>9 DEF CallRow
 <2> HIDE DEF x
 <2>3. InPlace(q, x) BY <1>3, <2>1, <2>2 DEF InPlace, Making, Dropping, SignUps
 <2>4. Holds(q, x, Len(member), codes) BY <1>3, <2>1, <2>2, Typing DEF Holds, Making, Over, SignUps
 <2>5. EntersAccounts(q, call[q], x) BY <1>3, <2>1, <2>2 DEF EntersAccounts, InPlace, Dropping, Making, SignUps
 <2>6. EntersTeams(q, call[q], x) BY <1>3, <2>1, <2>2 DEF EntersTeams, SignUps
 <2>7. EntersHandover(q, call[q], x) /\ EntersGuess(q, call[q], x)
   BY <1>3, <2>1, <2>2 DEF EntersHandover, EntersGuess, InPlace, Guessing, Making, SignUps
 <2>8. "signIn" \in Pcs \ {"new"} /\ "quotas" \notin Over \cup {"new"} BY Named DEF Over
 <2> QED BY <1>1, <1>3, <2>3, <2>4, <2>5, <2>6, <2>7, <2>8, GoesTurn DEF x
<1>4. CASE Does(q).op = "adminCreate" /\ Goes(q, "quotas", "done")
 <2>1. Ends(q, "quotas", "none")
  <3>1. call[q] \in CallRow /\ call[q].end = "none" /\ call[q].pc = "quotas" BY <1>4, CallTypes DEF Goes, Moves, Holds
  <3>2. [call[q] EXCEPT !.pc = "done", !.end = "none"] = [call[q] EXCEPT !.pc = "done"] BY <3>1 DEF CallRow
  <3> QED BY <1>4, <3>2 DEF Goes, Ends, Moves
 <2> QED BY <1>1, <1>4, <2>1, Named, EndsTurn DEF Dropping
<1>5. Does(q).op \in SignUps BY CallTypes DEF MakeQuotas, Goes, Moves, InPlace, Making
<1> QED BY <1>2, <1>3, <1>4, <1>5 DEF MakeQuotas, AfterTeam, SignUps

\* JoinTeam is a turn of its call.
LEMMA JoinTeamTurn ==
  ASSUME Base, NEW q \in Calls, JoinTeam(q)
  PROVE  Turn(q)
<1>1. plan' = plan /\ codes' \in Nat /\ codes' >= codes BY Typing DEF JoinTeam, outbox
<1>2. CASE Does(q).op = "register" /\ Goes(q, "join", "mail") /\ member[call[q].row].status # "removed"
 <2> DEFINE x == [call[q] EXCEPT !.pc = "mail"]
 <2>1. /\ call[q] \in CallRow /\ call[q].pc = "join" /\ InPlace(q, call[q]) /\ Holds(q, call[q], Len(member), codes)
   BY <1>2, CallTypes DEF Goes, Moves
 <2>9. call[q].end = "none" BY <2>1 DEF Holds
 <2>2. /\ x.end = "none" /\ x.pc = "mail" /\ x.user = call[q].user /\ x.row = call[q].row /\ x.code = call[q].code
       /\ x.seen = call[q].seen /\ x.to = call[q].to /\ x.set = call[q].set /\ x.end = call[q].end
   BY <2>1, <2>9 DEF CallRow
 <2> HIDE DEF x
 <2>3. InPlace(q, x) BY <1>2, <2>1, <2>2 DEF InPlace, Making, Dropping, SignUps
 <2>4. Holds(q, x, Len(member), codes) BY <1>2, <2>1, <2>2, Typing DEF Holds, Making, Over, SignUps
 <2>5. EntersAccounts(q, call[q], x) BY <1>2, <2>1, <2>2 DEF EntersAccounts, InPlace, Dropping, Making, SignUps
 <2>6. EntersTeams(q, call[q], x) BY <1>2, <2>1, <2>2 DEF EntersTeams, SignUps
 <2>7. EntersHandover(q, call[q], x) /\ EntersGuess(q, call[q], x)
   BY <1>2, <2>1, <2>2 DEF EntersHandover, EntersGuess, InPlace, Guessing, Making, SignUps
 <2>8. "mail" \in Pcs \ {"new"} /\ "join" \notin Over \cup {"new"} BY Named DEF Over
 <2> QED BY <1>1, <1>2, <2>3, <2>4, <2>5, <2>6, <2>7, <2>8, GoesTurn DEF x
<1>3. CASE Does(q).op = "oauth" /\ Goes(q, "join", "signIn") /\ member[call[q].row].status # "removed"
 <2> DEFINE x == [call[q] EXCEPT !.pc = "signIn"]
 <2>1. /\ call[q] \in CallRow /\ call[q].pc = "join" /\ InPlace(q, call[q]) /\ Holds(q, call[q], Len(member), codes)
   BY <1>3, CallTypes DEF Goes, Moves
 <2>9. call[q].end = "none" BY <2>1 DEF Holds
 <2>2. /\ x.end = "none" /\ x.pc = "signIn" /\ x.user = call[q].user /\ x.row = call[q].row /\ x.code = call[q].code
       /\ x.seen = call[q].seen /\ x.to = call[q].to /\ x.set = call[q].set /\ x.end = call[q].end
   BY <2>1, <2>9 DEF CallRow
 <2> HIDE DEF x
 <2>3. InPlace(q, x) BY <1>3, <2>1, <2>2 DEF InPlace, Making, Dropping, SignUps
 <2>4. Holds(q, x, Len(member), codes) BY <1>3, <2>1, <2>2, Typing DEF Holds, Making, Over, SignUps
 <2>5. EntersAccounts(q, call[q], x) BY <1>3, <2>1, <2>2 DEF EntersAccounts, InPlace, Dropping, Making, SignUps
 <2>6. EntersTeams(q, call[q], x) BY <1>3, <2>1, <2>2 DEF EntersTeams, SignUps
 <2>7. EntersHandover(q, call[q], x) /\ EntersGuess(q, call[q], x)
   BY <1>3, <2>1, <2>2 DEF EntersHandover, EntersGuess, InPlace, Guessing, Making, SignUps
 <2>8. "signIn" \in Pcs \ {"new"} /\ "join" \notin Over \cup {"new"} BY Named DEF Over
 <2> QED BY <1>1, <1>3, <2>3, <2>4, <2>5, <2>6, <2>7, <2>8, GoesTurn DEF x
<1>4. CASE Does(q).op = "adminCreate" /\ Goes(q, "join", "done") /\ member[call[q].row].status # "removed"
 <2>1. Ends(q, "join", "none")
  <3>1. call[q] \in CallRow /\ call[q].end = "none" /\ call[q].pc = "join" BY <1>4, CallTypes DEF Goes, Moves, Holds
  <3>2. [call[q] EXCEPT !.pc = "done", !.end = "none"] = [call[q] EXCEPT !.pc = "done"] BY <3>1 DEF CallRow
  <3> QED BY <1>4, <3>2 DEF Goes, Ends, Moves
 <2> QED BY <1>1, <1>4, <2>1, Named, EndsTurn DEF Dropping
<1>5. CASE Ends(q, "join", "threw") /\ member[call[q].row].status = "removed"
  BY <1>1, <1>5, Named, EndsTurn DEF Dropping
<1>6. Does(q).op \in SignUps BY CallTypes DEF JoinTeam, InPlace, Making
<1> QED BY <1>2, <1>3, <1>4, <1>5, <1>6 DEF JoinTeam, AfterTeam, SignUps

\* Assign is a turn of its call.
LEMMA AssignTurn ==
  ASSUME Base, NEW q \in Calls, Assign(q)
  PROVE  Turn(q)
<1>1. plan' = plan /\ codes' \in Nat /\ codes' >= codes BY Typing DEF Assign, outbox
<1>2. CASE Goes(q, "assign", "record")
 <2> DEFINE x == [call[q] EXCEPT !.pc = "record"]
 <2>1. /\ call[q] \in CallRow /\ call[q].pc = "assign" /\ InPlace(q, call[q]) /\ Holds(q, call[q], Len(member), codes)
   BY <1>2, CallTypes DEF Goes, Moves
 <2>9. call[q].end = "none" BY <2>1 DEF Holds
 <2>2. /\ x.end = "none" /\ x.pc = "record" /\ x.user = call[q].user /\ x.row = call[q].row /\ x.code = call[q].code
       /\ x.seen = call[q].seen /\ x.to = call[q].to /\ x.set = call[q].set /\ x.end = call[q].end
   BY <2>1, <2>9 DEF CallRow
 <2> HIDE DEF x
 <2>3. InPlace(q, x) BY <1>1, <2>1, <2>2 DEF InPlace, Making, Dropping, SignUps
 <2>4. Holds(q, x, Len(member), codes) BY <1>1, <2>1, <2>2, Typing DEF Holds, Making, Over, SignUps
 <2>5. EntersAccounts(q, call[q], x) BY <1>1, <2>1, <2>2 DEF EntersAccounts, InPlace, Dropping, Making, SignUps
 <2>6. EntersTeams(q, call[q], x) BY <1>1, <2>1, <2>2 DEF EntersTeams, SignUps
 <2>7. EntersHandover(q, call[q], x) /\ EntersGuess(q, call[q], x)
   BY <1>1, <2>1, <2>2 DEF EntersHandover, EntersGuess, InPlace, Guessing, Making, SignUps
 <2>8. "record" \in Pcs \ {"new"} /\ "assign" \notin Over \cup {"new"} BY Named DEF Over
 <2> QED BY <1>1, <1>2, <2>3, <2>4, <2>5, <2>6, <2>7, <2>8, GoesTurn DEF x
<1>3. CASE Ends(q, "assign", "threw") BY <1>1, <1>3, Named, EndsTurn DEF Dropping
<1> QED BY <1>2, <1>3 DEF Assign

\* Validate is a turn of its call.
LEMMA ValidateTurn ==
  ASSUME Base, NEW q \in Calls, Validate(q)
  PROVE  Turn(q)
<1>1. plan' = plan /\ codes' \in Nat /\ codes' >= codes BY Typing DEF Validate, outbox
<1>2. CASE Assignee(call[q].user, call[q].to) /\ Goes(q, "valid", "assign")
 <2> DEFINE x == [call[q] EXCEPT !.pc = "assign"]
 <2>1. /\ call[q] \in CallRow /\ call[q].pc = "valid" /\ InPlace(q, call[q]) /\ Holds(q, call[q], Len(member), codes)
   BY <1>2, CallTypes DEF Goes, Moves
 <2>9. call[q].end = "none" BY <2>1 DEF Holds
 <2>2. /\ x.end = "none" /\ x.pc = "assign" /\ x.user = call[q].user /\ x.row = call[q].row /\ x.code = call[q].code
       /\ x.seen = call[q].seen /\ x.to = call[q].to /\ x.set = call[q].set /\ x.end = call[q].end
   BY <2>1, <2>9 DEF CallRow
 <2> HIDE DEF x
 <2>3. InPlace(q, x) BY <1>2, <2>1, <2>2 DEF InPlace, Making, Dropping, SignUps
 <2>4. Holds(q, x, Len(member), codes) BY <1>2, <2>1, <2>2, Typing DEF Holds, Making, Over, SignUps
 <2>5. EntersAccounts(q, call[q], x) BY <1>2, <2>1, <2>2 DEF EntersAccounts, InPlace, Dropping, Making, SignUps
 <2>6. EntersTeams(q, call[q], x) BY <1>2, <2>1, <2>2 DEF EntersTeams, SignUps
 <2>7. EntersHandover(q, call[q], x) /\ EntersGuess(q, call[q], x)
   BY <1>2, <2>1, <2>2 DEF EntersHandover, EntersGuess, InPlace, Guessing, Making, SignUps
 <2>8. "assign" \in Pcs \ {"new"} /\ "valid" \notin Over \cup {"new"} BY Named DEF Over
 <2> QED BY <1>1, <1>2, <2>3, <2>4, <2>5, <2>6, <2>7, <2>8, GoesTurn DEF x
<1>3. CASE Ends(q, "valid", "nobody") BY <1>1, <1>3, Named, EndsTurn DEF Dropping
<1> QED BY <1>2, <1>3 DEF Validate

\* Restore is a turn of its call.
LEMMA RestoreTurn ==
  ASSUME Base, NEW q \in Calls, Restore(q)
  PROVE  Turn(q)
<1>1. plan' = plan /\ codes' \in Nat /\ codes' >= codes BY Typing DEF Restore, outbox
<1>2. CASE Goes(q, "restore", "signIn")
 <2> DEFINE x == [call[q] EXCEPT !.pc = "signIn"]
 <2>1. /\ call[q] \in CallRow /\ call[q].pc = "restore" /\ InPlace(q, call[q]) /\ Holds(q, call[q], Len(member), codes)
   BY <1>2, CallTypes DEF Goes, Moves
 <2>9. call[q].end = "none" BY <2>1 DEF Holds
 <2>2. /\ x.end = "none" /\ x.pc = "signIn" /\ x.user = call[q].user /\ x.row = call[q].row /\ x.code = call[q].code
       /\ x.seen = call[q].seen /\ x.to = call[q].to /\ x.set = call[q].set /\ x.end = call[q].end
   BY <2>1, <2>9 DEF CallRow
 <2> HIDE DEF x
 <2>3. InPlace(q, x) BY <1>1, <2>1, <2>2 DEF InPlace, Making, Dropping, SignUps
 <2>4. Holds(q, x, Len(member), codes) BY <1>1, <2>1, <2>2, Typing DEF Holds, Making, Over, SignUps
 <2>5. EntersAccounts(q, call[q], x) BY <1>1, <2>1, <2>2 DEF EntersAccounts, InPlace, Dropping, Making, SignUps
 <2>6. EntersTeams(q, call[q], x) BY <1>1, <2>1, <2>2 DEF EntersTeams, SignUps
 <2>7. EntersHandover(q, call[q], x) /\ EntersGuess(q, call[q], x)
   BY <1>1, <2>1, <2>2 DEF EntersHandover, EntersGuess, InPlace, Guessing, Making, SignUps
 <2>8. "signIn" \in Pcs \ {"new"} /\ "restore" \notin Over \cup {"new"} BY Named DEF Over
 <2> QED BY <1>1, <1>2, <2>3, <2>4, <2>5, <2>6, <2>7, <2>8, GoesTurn DEF x
<1>3. CASE Ends(q, "restore", "threw") BY <1>1, <1>3, Named, EndsTurn DEF Dropping
<1> QED BY <1>2, <1>3 DEF Restore

\* ChangeAddress is a turn of its call.
LEMMA ChangeAddressTurn ==
  ASSUME Base, NEW q \in Calls, ChangeAddress(q)
  PROVE  Turn(q)
<1>1. plan' = plan /\ codes' \in Nat /\ codes' >= codes BY Typing DEF ChangeAddress, outbox
<1>2. CASE Goes(q, "change", "clear")
 <2> DEFINE x == [call[q] EXCEPT !.pc = "clear"]
 <2>1. /\ call[q] \in CallRow /\ call[q].pc = "change" /\ InPlace(q, call[q]) /\ Holds(q, call[q], Len(member), codes)
   BY <1>2, CallTypes DEF Goes, Moves
 <2>9. call[q].end = "none" BY <2>1 DEF Holds
 <2>2. /\ x.end = "none" /\ x.pc = "clear" /\ x.user = call[q].user /\ x.row = call[q].row /\ x.code = call[q].code
       /\ x.seen = call[q].seen /\ x.to = call[q].to /\ x.set = call[q].set /\ x.end = call[q].end
   BY <2>1, <2>9 DEF CallRow
 <2> HIDE DEF x
 <2>3. InPlace(q, x) BY <1>1, <2>1, <2>2 DEF InPlace, Making, Dropping, SignUps
 <2>4. Holds(q, x, Len(member), codes) BY <1>1, <2>1, <2>2, Typing DEF Holds, Making, Over, SignUps
 <2>5. EntersAccounts(q, call[q], x) BY <1>1, <2>1, <2>2 DEF EntersAccounts, InPlace, Dropping, Making, SignUps
 <2>6. EntersTeams(q, call[q], x) BY <1>1, <2>1, <2>2 DEF EntersTeams, SignUps
 <2>7. EntersHandover(q, call[q], x) /\ EntersGuess(q, call[q], x)
   BY <1>1, <2>1, <2>2 DEF EntersHandover, EntersGuess, InPlace, Guessing, Making, SignUps
 <2>8. "clear" \in Pcs \ {"new"} /\ "change" \notin Over \cup {"new"} BY Named DEF Over
 <2> QED BY <1>1, <1>2, <2>3, <2>4, <2>5, <2>6, <2>7, <2>8, GoesTurn DEF x
<1>3. CASE Ends(q, "change", "threw") BY <1>1, <1>3, Named, EndsTurn DEF Dropping
<1>4. CASE Ends(q, "change", "changed") BY <1>1, <1>4, Named, EndsTurn DEF Dropping
<1> QED BY <1>2, <1>3, <1>4 DEF ChangeAddress

\* DropTeam is a turn of its call.
LEMMA DropTeamTurn ==
  ASSUME Base, NEW q \in Calls, DropTeam(q)
  PROVE  Turn(q)
<1>1. plan' = plan /\ codes' \in Nat /\ codes' >= codes BY Typing DEF DropTeam, outbox
<1>2. CASE Goes(q, "dropTeam", "dropRows")
 <2> DEFINE x == [call[q] EXCEPT !.pc = "dropRows"]
 <2>1. /\ call[q] \in CallRow /\ call[q].pc = "dropTeam" /\ InPlace(q, call[q]) /\ Holds(q, call[q], Len(member), codes)
   BY <1>2, CallTypes DEF Goes, Moves
 <2>9. call[q].end = "none" BY <2>1 DEF Holds
 <2>2. /\ x.end = "none" /\ x.pc = "dropRows" /\ x.user = call[q].user /\ x.row = call[q].row /\ x.code = call[q].code
       /\ x.seen = call[q].seen /\ x.to = call[q].to /\ x.set = call[q].set /\ x.end = call[q].end
   BY <2>1, <2>9 DEF CallRow
 <2> HIDE DEF x
 <2>3. InPlace(q, x) BY <1>1, <2>1, <2>2 DEF InPlace, Making, Dropping, SignUps
 <2>4. Holds(q, x, Len(member), codes) BY <1>1, <2>1, <2>2, Typing DEF Holds, Making, Over, SignUps
 <2>5. EntersAccounts(q, call[q], x) BY <1>1, <2>1, <2>2 DEF EntersAccounts, InPlace, Dropping, Making, SignUps
 <2>6. EntersTeams(q, call[q], x) BY <1>1, <2>1, <2>2 DEF EntersTeams, SignUps
 <2>7. EntersHandover(q, call[q], x) /\ EntersGuess(q, call[q], x)
   BY <1>1, <2>1, <2>2 DEF EntersHandover, EntersGuess, InPlace, Guessing, Making, SignUps
 <2>8. "dropRows" \in Pcs \ {"new"} /\ "dropTeam" \notin Over \cup {"new"} BY Named DEF Over
 <2> QED BY <1>1, <1>2, <2>3, <2>4, <2>5, <2>6, <2>7, <2>8, GoesTurn DEF x
<1>3. CASE Moves(q, "dropTeam", ToNext(q))
 <2> DEFINE x == ToNext(q)
 <2>1. /\ call[q] \in CallRow /\ call[q].pc = "dropTeam" /\ InPlace(q, call[q]) /\ Holds(q, call[q], Len(member), codes)
   BY <1>3, CallTypes DEF Moves
 <2>2. /\ x \in CallRow /\ x.pc \in {"done", "next"} /\ x.user = call[q].user /\ x.row = call[q].row /\ x.code = call[q].code
       /\ x.seen = call[q].seen /\ x.to = call[q].to /\ x.set = call[q].set /\ x.end = call[q].end /\ x.since = call[q].since
   BY <2>1, Named DEF CallRow, ToNext
 <2> HIDE DEF x
 <2>3. InPlace(q, x) /\ Does(q).op = "cleanup" BY <2>1, <2>2 DEF InPlace, Making, Dropping
 <2>4. Holds(q, x, Len(member), codes') /\ Remembers(q, call[q], x)
   BY <1>1, <2>1, <2>2, <2>3, Typing DEF Holds, Remembers, Making, Over, SignUps
 <2>5. EntersAccounts(q, call[q], x) /\ EntersTeams(q, call[q], x) /\ EntersHandover(q, call[q], x) /\ EntersGuess(q, call[q], x)
   BY <2>1, <2>2, <2>3 DEF EntersAccounts, EntersTeams, EntersHandover, EntersGuess, Dropping, SignUps, Guessing, Holds
 <2>6. Enters(q, call[q], x) BY <2>2, <2>5 DEF Enters
 <2>7. "dropTeam" \in Pcs \ (Over \cup {"new"}) BY Named DEF Over
 <2> QED BY <1>1, <1>3, <2>2, <2>3, <2>4, <2>6, <2>7, MovesTurn DEF x
<1> QED BY <1>2, <1>3 DEF DropTeam

\* DropUser is a turn of its call.
LEMMA DropUserTurn ==
  ASSUME Base, NEW q \in Calls, DropUser(q)
  PROVE  Turn(q)
<1>1. plan' = plan /\ codes' \in Nat /\ codes' >= codes BY Typing DEF DropUser, outbox
<1>2. CASE Moves(q, "dropUser", ToNext(q))
 <2> DEFINE x == ToNext(q)
 <2>1. /\ call[q] \in CallRow /\ call[q].pc = "dropUser" /\ InPlace(q, call[q]) /\ Holds(q, call[q], Len(member), codes)
   BY <1>2, CallTypes DEF Moves
 <2>2. /\ x \in CallRow /\ x.pc \in {"done", "next"} /\ x.user = call[q].user /\ x.row = call[q].row /\ x.code = call[q].code
       /\ x.seen = call[q].seen /\ x.to = call[q].to /\ x.set = call[q].set /\ x.end = call[q].end /\ x.since = call[q].since
   BY <2>1, Named DEF CallRow, ToNext
 <2> HIDE DEF x
 <2>3. InPlace(q, x) /\ Does(q).op = "cleanup" BY <2>1, <2>2 DEF InPlace, Making, Dropping
 <2>4. Holds(q, x, Len(member), codes') /\ Remembers(q, call[q], x)
   BY <1>1, <2>1, <2>2, <2>3, Typing DEF Holds, Remembers, Making, Over, SignUps
 <2>5. EntersAccounts(q, call[q], x) /\ EntersTeams(q, call[q], x) /\ EntersHandover(q, call[q], x) /\ EntersGuess(q, call[q], x)
   BY <2>1, <2>2, <2>3 DEF EntersAccounts, EntersTeams, EntersHandover, EntersGuess, Dropping, SignUps, Guessing, Holds
 <2>6. Enters(q, call[q], x) BY <2>2, <2>5 DEF Enters
 <2>7. "dropUser" \in Pcs \ (Over \cup {"new"}) BY Named DEF Over
 <2> QED BY <1>1, <1>2, <2>2, <2>3, <2>4, <2>6, <2>7, MovesTurn DEF x
<1> QED BY <1>2 DEF DropUser

--------------------
(* The steps that read before they go on *)

\* A wrong answer is noted before it is counted.
LEMMA BeginsWrong ==
  ASSUME Base, NEW q \in Calls, Does(q).op \in Guessing, ~Locked(q), Answers(q, Wrong(q, call[q])),
         plan' = plan, codes' = codes
  PROVE  Turn(q) /\ call'[q].pc = "wrong" /\ call'[q].end = "none"
<1> DEFINE x == Wrong(q, call[q])
<1>1. /\ x \in CallRow /\ x.pc = "wrong" /\ x.user = call[q].user
      /\ x.row = call[q].row /\ x.code = call[q].code /\ x.seen = Tries(Key(q))
      /\ x.to = call[q].to /\ x.set = call[q].set /\ x.end = call[q].end /\ x.seen \in 0 .. MaxTries - 1
  BY WrongIs
<1>2. call[q].pc = "new" /\ call' = [call EXCEPT ![q] = Begun(q, x)] BY DEF Answers
<1>3. /\ call[q].user = None /\ call[q].row = 0 /\ call[q].code = 0 /\ call[q].seen = 0
      /\ call[q].to = None /\ call[q].set = {} /\ call[q].end = "none"
  BY <1>2, NewIs
<1> HIDE DEF x
<1>4. InPlace(q, x) BY <1>1 DEF InPlace, Making, Dropping
<1>5. Holds(q, x, Len(member), codes) BY <1>1, <1>3, Typing DEF Holds, Making, Over, Guessing
<1>6. EntersAccounts(q, call[q], x) /\ EntersTeams(q, call[q], x) /\ EntersHandover(q, call[q], x) /\ EntersGuess(q, call[q], x)
  BY <1>1, <1>2, <1>3 DEF EntersAccounts, EntersTeams, EntersHandover, EntersGuess, Guessing, SignUps
<1>7. x.pc \notin {"new"} \cup Over /\ codes' \in Nat /\ codes' >= codes /\ x.end = "none"
      /\ \A u \in Users : u = x.user \/ u \in x.set => user'[u].st # "none"
  BY <1>1, <1>3, Typing DEF Over
<1>8. x \in CallRow /\ x.pc = "wrong" BY <1>1
<1> QED BY <1>2, <1>4, <1>5, <1>6, <1>7, <1>8, BeginsTurn

\* FindAccount is a turn of its call.
LEMMA FindAccountTurn ==
  ASSUME Base, NEW q \in Calls, FindAccount(q)
  PROVE  Turn(q)
<1>1. plan' = plan /\ codes' = codes /\ user' = user /\ call[q].pc = "new" /\ Does(q).op \in {"register", "adminCreate"}
  BY DEF FindAccount, Starts, Answers, Right, Refused, outbox
<1>2. CASE call' = [call EXCEPT ![q] = Begun(q, Ending(q, "conflict"))]
 <2>1. call[q].pc = "new" /\ call' = [call EXCEPT ![q] = Begun(q, Ending(q, "conflict"))] /\ "conflict" \in Outcomes
   BY <1>1, <1>2, Named DEF Refused, Answers
 <2>2. codes' \in Nat /\ codes' >= codes BY <1>1, Typing
 <2> QED BY <1>1, <1>1, <2>1, <2>2, BeginsDone DEF Guessing
<1>3. CASE /\ call' = [call EXCEPT ![q] = Begun(q, [call[q] EXCEPT !.pc = "create", !.row = IF Does(q).op = "register" THEN FirstOf(Invited(Does(q).email)) ELSE 0])]
 <2> DEFINE x == [call[q] EXCEPT !.pc = "create", !.row = IF Does(q).op = "register" THEN FirstOf(Invited(Does(q).email)) ELSE 0]
 <2>1. /\ call[q] \in CallRow /\ call[q].user = None /\ call[q].row = 0 /\ call[q].code = 0 /\ call[q].seen = 0
       /\ call[q].to = None /\ call[q].set = {} /\ call[q].end = "none"
   BY <1>1, NewIs, CallTypes
 <2>2. /\ x \in CallRow /\ x.pc = "create" /\ x.user = None /\ x.row = (IF Does(q).op = "register" THEN FirstOf(Invited(Does(q).email)) ELSE 0) /\ x.code = 0
       /\ x.seen = 0 /\ x.to = None /\ x.set = {} /\ x.end = "none"
   BY <1>3, InvitedIs, <2>1, Named DEF CallRow, At, Tos
 <2>3. call' = [call EXCEPT ![q] = Begun(q, x)] BY <1>3, InvitedIs
 <2> HIDE DEF x
 <2>4. InPlace(q, x) BY <1>1, <1>3, InvitedIs, <2>2 DEF InPlace, Making, Dropping, SignUps, Guessing
 <2>5. Holds(q, x, Len(member), codes) BY <1>1, <1>3, InvitedIs, <2>2, Typing DEF Holds, Making, Over, SignUps
 <2>6. EntersAccounts(q, call[q], x) BY <1>1, <1>3, InvitedIs, <2>1, <2>2 DEF EntersAccounts, Dropping
 <2>7. EntersTeams(q, call[q], x) BY <1>1, <1>3, InvitedIs, <2>1, <2>2 DEF EntersTeams, SignUps
 <2>8. EntersHandover(q, call[q], x) /\ EntersGuess(q, call[q], x)
   BY <1>1, <1>3, InvitedIs, <2>1, <2>2 DEF EntersHandover, EntersGuess, Guessing
 <2>9. /\ x.pc \notin {"new"} \cup Over /\ codes' \in Nat /\ codes' >= codes /\ x.end = "none" /\ plan' = plan
       /\ call[q].pc = "new" /\ \A u \in Users : u = x.user \/ u \in x.set => user'[u].st # "none"
   BY <1>1, <1>3, InvitedIs, <2>2, Typing DEF Over, Live
 <2> QED BY <2>2, <2>3, <2>4, <2>5, <2>6, <2>7, <2>8, <2>9, BeginsTurn
<1> QED BY <1>2, <1>3 DEF FindAccount, Starts

\* FindIdentity is a turn of its call.
LEMMA FindIdentityTurn ==
  ASSUME Base, NEW q \in Calls, FindIdentity(q)
  PROVE  Turn(q)
<1> DEFINE known == Identified(Does(q).email)
           found == IF known # {} THEN known ELSE With(Does(q).email)
           u == CHOOSE v \in found : TRUE
<1>1. /\ plan' = plan /\ codes' = codes /\ call[q].pc = "new" /\ Does(q).op = "oauth"
      /\ \A v \in Users : user'[v].st = user[v].st
  BY RowTypes DEF FindIdentity, Starts, outbox, UserRow
<1>2. CASE found = {}
 <2>0. call' = [call EXCEPT ![q] = Begun(q, [call[q] EXCEPT !.pc = "create", !.row = FirstOf(Invited(Does(q).email))])]
   BY <1>2 DEF FindIdentity, Starts
 <2> DEFINE x == [call[q] EXCEPT !.pc = "create", !.row = FirstOf(Invited(Does(q).email))]
 <2>1. /\ call[q] \in CallRow /\ call[q].user = None /\ call[q].row = 0 /\ call[q].code = 0 /\ call[q].seen = 0
       /\ call[q].to = None /\ call[q].set = {} /\ call[q].end = "none"
   BY <1>1, NewIs, CallTypes
 <2>2. /\ x \in CallRow /\ x.pc = "create" /\ x.user = None /\ x.row = FirstOf(Invited(Does(q).email)) /\ x.code = 0
       /\ x.seen = 0 /\ x.to = None /\ x.set = {} /\ x.end = "none"
   BY <2>0, InvitedIs, <2>1, Named DEF CallRow, At, Tos
 <2>3. call' = [call EXCEPT ![q] = Begun(q, x)] BY <2>0, InvitedIs
 <2> HIDE DEF x
 <2>4. InPlace(q, x) BY <1>1, <2>0, InvitedIs, <2>2 DEF InPlace, Making, Dropping, SignUps, Guessing
 <2>5. Holds(q, x, Len(member), codes) BY <1>1, <2>0, InvitedIs, <2>2, Typing DEF Holds, Making, Over, SignUps
 <2>6. EntersAccounts(q, call[q], x) BY <1>1, <2>0, InvitedIs, <2>1, <2>2 DEF EntersAccounts, Dropping
 <2>7. EntersTeams(q, call[q], x) BY <1>1, <2>0, InvitedIs, <2>1, <2>2 DEF EntersTeams, SignUps
 <2>8. EntersHandover(q, call[q], x) /\ EntersGuess(q, call[q], x)
   BY <1>1, <2>0, InvitedIs, <2>1, <2>2 DEF EntersHandover, EntersGuess, Guessing
 <2>9. /\ x.pc \notin {"new"} \cup Over /\ codes' \in Nat /\ codes' >= codes /\ x.end = "none" /\ plan' = plan
       /\ call[q].pc = "new" /\ \A v \in Users : v = x.user \/ v \in x.set => user'[v].st # "none"
   BY <1>1, <2>0, InvitedIs, <2>2, Typing DEF Over, Live
 <2> QED BY <2>2, <2>3, <2>4, <2>5, <2>6, <2>7, <2>8, <2>9, BeginsTurn
<1>3. CASE found # {}
 <2>0. call' = [call EXCEPT ![q] = Begun(q, At(q, "signIn", u))] /\ u \in Users /\ Live(u)
   BY <1>3 DEF FindIdentity, Starts, Identified, With
 <2> HIDE DEF u
 <2> DEFINE x == At(q, "signIn", u)
 <2>1. /\ call[q] \in CallRow /\ call[q].user = None /\ call[q].row = 0 /\ call[q].code = 0 /\ call[q].seen = 0
       /\ call[q].to = None /\ call[q].set = {} /\ call[q].end = "none"
   BY <1>1, NewIs, CallTypes
 <2>2. /\ x \in CallRow /\ x.pc = "signIn" /\ x.user = u /\ x.row = 0 /\ x.code = 0
       /\ x.seen = 0 /\ x.to = None /\ x.set = {} /\ x.end = "none"
   BY <2>0, <2>1, Named DEF CallRow, At, Tos
 <2>3. call' = [call EXCEPT ![q] = Begun(q, x)] BY <2>0
 <2> HIDE DEF x
 <2>4. InPlace(q, x) BY <1>1, <2>0, <2>2 DEF InPlace, Making, Dropping, SignUps, Guessing
 <2>5. Holds(q, x, Len(member), codes) BY <1>1, <2>0, <2>2, Typing DEF Holds, Making, Over, SignUps
 <2>6. EntersAccounts(q, call[q], x) BY <1>1, <2>0, <2>1, <2>2 DEF EntersAccounts, Dropping
 <2>7. EntersTeams(q, call[q], x) BY <1>1, <2>0, <2>1, <2>2 DEF EntersTeams, SignUps
 <2>8. EntersHandover(q, call[q], x) /\ EntersGuess(q, call[q], x)
   BY <1>1, <2>0, <2>1, <2>2 DEF EntersHandover, EntersGuess, Guessing
 <2>9. /\ x.pc \notin {"new"} \cup Over /\ codes' \in Nat /\ codes' >= codes /\ x.end = "none" /\ plan' = plan
       /\ call[q].pc = "new" /\ \A v \in Users : v = x.user \/ v \in x.set => user'[v].st # "none"
   BY <1>1, <2>0, <2>2, Typing DEF Over, Live
 <2> QED BY <2>2, <2>3, <2>4, <2>5, <2>6, <2>7, <2>8, <2>9, BeginsTurn
<1> QED BY <1>2, <1>3

\* ReadActivation is a turn of its call.
LEMMA ReadActivationTurn ==
  ASSUME Base, NEW q \in Calls, ReadActivation(q)
  PROVE  Turn(q)
<1>1. plan' = plan /\ codes' = codes /\ user' = user /\ call[q].pc = "new" /\ Does(q).op = "activate"
  BY DEF ReadActivation, Starts, Answers, Right, Refused, outbox
<1>2. CASE Refused(q, "locked")
 <2>1. call[q].pc = "new" /\ call' = [call EXCEPT ![q] = Begun(q, Ending(q, "locked"))] /\ "locked" \in Outcomes
   BY <1>1, <1>2, Named DEF Refused, Answers
 <2>2. codes' \in Nat /\ codes' >= codes BY <1>1, Typing
 <2> QED BY <1>1, <1>1, <2>1, <2>2, BeginsDone DEF Guessing
<1>3. CASE ~Locked(q) /\ Answers(q, Wrong(q, call[q])) BY <1>1, <1>3, BeginsWrong DEF Guessing
<1>4. ASSUME NEW c \in Typed(Does(q).email), c \in Typed(Does(q).email) \ {0}, With(Does(q).email) # {},
             Right(q, c, At(q, "verify", Holder(Does(q).email)))
      PROVE  Turn(q)
 <2> DEFINE h == Holder(Does(q).email)
 <2>0. /\ call' = [call EXCEPT ![q] = Begun(q, [At(q, "verify", h) EXCEPT !.code = c])]
       /\ h \in Users /\ Live(h) /\ user[h].email = Does(q).email /\ c # 0 /\ c \in mailed[Does(q).email] /\ c \in Nat
   BY <1>4, HolderIs, Typing DEF Right, Answers, Typed
 <2> HIDE DEF h
 <2> DEFINE x == [At(q, "verify", h) EXCEPT !.code = c]
 <2>1. /\ call[q] \in CallRow /\ call[q].user = None /\ call[q].row = 0 /\ call[q].code = 0 /\ call[q].seen = 0
       /\ call[q].to = None /\ call[q].set = {} /\ call[q].end = "none"
   BY <1>1, NewIs, CallTypes
 <2>2. /\ x \in CallRow /\ x.pc = "verify" /\ x.user = h /\ x.row = 0 /\ x.code = c
       /\ x.seen = 0 /\ x.to = None /\ x.set = {} /\ x.end = "none"
   BY <2>0, <2>1, Named DEF CallRow, At, Tos
 <2>3. call' = [call EXCEPT ![q] = Begun(q, x)] BY <2>0
 <2> HIDE DEF x
 <2>4. InPlace(q, x) BY <1>1, <2>0, <2>2 DEF InPlace, Making, Dropping, SignUps, Guessing
 <2>5. Holds(q, x, Len(member), codes) BY <1>1, <2>0, <2>2, Typing DEF Holds, Making, Over, SignUps
 <2>6. EntersAccounts(q, call[q], x) BY <1>1, <2>0, <2>1, <2>2 DEF EntersAccounts, Dropping
 <2>7. EntersTeams(q, call[q], x) BY <1>1, <2>0, <2>1, <2>2 DEF EntersTeams, SignUps
 <2>8. EntersHandover(q, call[q], x) /\ EntersGuess(q, call[q], x)
   BY <1>1, <2>0, <2>1, <2>2 DEF EntersHandover, EntersGuess, Guessing
 <2>9. /\ x.pc \notin {"new"} \cup Over /\ codes' \in Nat /\ codes' >= codes /\ x.end = "none" /\ plan' = plan
       /\ call[q].pc = "new" /\ \A u \in Users : u = x.user \/ u \in x.set => user'[u].st # "none"
   BY <1>1, <2>0, <2>2, Typing DEF Over, Live
 <2> QED BY <2>2, <2>3, <2>4, <2>5, <2>6, <2>7, <2>8, <2>9, BeginsTurn
<1> QED BY <1>2, <1>3, <1>4 DEF ReadActivation

\* ReadLogin is a turn of its call.
LEMMA ReadLoginTurn ==
  ASSUME Base, NEW q \in Calls, ReadLogin(q)
  PROVE  Turn(q)
<1>1. plan' = plan /\ codes' = codes /\ user' = user /\ call[q].pc = "new" /\ Does(q).op = "login"
  BY DEF ReadLogin, Starts, Answers, Right, Refused, outbox
<1> DEFINE h == Holder(Does(q).email)
<1>2. CASE Refused(q, "locked")
 <2>1. call[q].pc = "new" /\ call' = [call EXCEPT ![q] = Begun(q, Ending(q, "locked"))] /\ "locked" \in Outcomes
   BY <1>1, <1>2, Named DEF Refused, Answers
 <2>2. codes' \in Nat /\ codes' >= codes BY <1>1, Typing
 <2> QED BY <1>1, <1>1, <2>1, <2>2, BeginsDone DEF Guessing
<1>3. CASE Refused(q, "threw")
 <2>1. call[q].pc = "new" /\ call' = [call EXCEPT ![q] = Begun(q, Ending(q, "threw"))] /\ "threw" \in Outcomes
   BY <1>1, <1>3, Named DEF Refused, Answers
 <2>2. codes' \in Nat /\ codes' >= codes BY <1>1, Typing
 <2> QED BY <1>1, <1>1, <2>1, <2>2, BeginsDone DEF Guessing
<1>4. CASE ~Locked(q) /\ Answers(q, Wrong(q, call[q])) BY <1>1, <1>4, BeginsWrong DEF Guessing
<1>5. ASSUME NEW pc, call' = [call EXCEPT ![q] = Begun(q, [At(q, pc, h) EXCEPT !.code = 0])], With(Does(q).email) # {},
             pc = "done" \/ (pc = "signIn" /\ ~user[h].deleted) \/ pc = "restore"
      PROVE  Turn(q)
 <2>0. h \in Users /\ Live(h) BY <1>5, HolderIs
 <2> HIDE DEF h
 <2> DEFINE x == [At(q, pc, h) EXCEPT !.code = 0]
 <2>1. /\ call[q] \in CallRow /\ call[q].user = None /\ call[q].row = 0 /\ call[q].code = 0 /\ call[q].seen = 0
       /\ call[q].to = None /\ call[q].set = {} /\ call[q].end = "none"
   BY <1>1, NewIs, CallTypes
 <2>2. /\ x \in CallRow /\ x.pc = pc /\ x.user = h /\ x.row = 0 /\ x.code = 0
       /\ x.seen = 0 /\ x.to = None /\ x.set = {} /\ x.end = "none"
   BY <1>5, <2>0, <2>1, Named DEF CallRow, At
 <2>3. call' = [call EXCEPT ![q] = Begun(q, x)] BY <1>5
 <2> HIDE DEF x
 <2>4. InPlace(q, x) BY <1>1, <1>5, <2>2 DEF InPlace, Making, Dropping
 <2>5. Holds(q, x, Len(member), codes') BY <1>1, <1>5, <2>0, <2>2, Typing DEF Holds, Making, Over, SignUps
 <2>6. EntersAccounts(q, call[q], x) BY <1>1, <1>5, <2>1, <2>2 DEF EntersAccounts, Dropping
 <2>7. EntersTeams(q, call[q], x) BY <1>1, <1>5, <2>1, <2>2 DEF EntersTeams, SignUps
 <2>8. EntersHandover(q, call[q], x) /\ EntersGuess(q, call[q], x)
   BY <1>1, <1>5, <2>1, <2>2 DEF EntersHandover, EntersGuess, Guessing
 <2>9. Enters(q, call[q], x) BY <1>1, <2>0, <2>2, <2>6, <2>7, <2>8 DEF Enters, Live
 <2> QED BY <1>1, <1>5, <2>2, <2>3, <2>4, <2>5, <2>9, BegunTurn
<1>6. ASSUME With(Does(q).email) # {}, NEW pc,
             pc = (CASE ~user[h].verified -> "done"
                     [] user[h].verified /\ ~user[h].deleted -> "signIn"
                     [] user[h].verified /\ user[h].deleted -> IF user[h].due = "set" THEN "restore" ELSE "done"),
             Right(q, 0, At(q, pc, h))
      PROVE  Turn(q)
 <2>1. h \in Users BY <1>6, HolderIs
 <2>2. user[h].verified \in BOOLEAN /\ user[h].deleted \in BOOLEAN BY <2>1, RowTypes
 <2>3. call' = [call EXCEPT ![q] = Begun(q, [At(q, pc, h) EXCEPT !.code = 0])] BY <1>6 DEF Right, Answers
 <2> HIDE DEF h
 <2>4. pc = "done" \/ (pc = "signIn" /\ ~user[h].deleted) \/ pc = "restore" BY <1>6, <2>2
 <2> QED BY <1>5, <1>6, <2>3, <2>4
<1> QED BY <1>2, <1>3, <1>4, <1>6 DEF ReadLogin

\* CreateUser is a turn of its call.
LEMMA CreateUserTurn ==
  ASSUME Base, NEW q \in Calls, CreateUser(q)
  PROVE  Turn(q)
<1>1. /\ plan' = plan /\ call[q].pc = "create" /\ call[q] \in CallRow
      /\ InPlace(q, call[q]) /\ Holds(q, call[q], Len(member), codes)
  BY CallTypes DEF CreateUser, Ends, Moves
<1>2. /\ call[q].user = None /\ call[q].seen = 0 /\ call[q].end = "none" /\ Does(q).op \in SignUps
      /\ call[q].row \in 0 .. Len(member) /\ call[q].row \in Nat /\ call[q].set \subseteq Users
  BY <1>1, CallTypes DEF Holds, InPlace, Making
<1> DEFINE u == CHOOSE v \in Unused : TRUE
<1>3. CASE Ends(q, "create", "conflict") /\ codes' = codes
 <2>1. codes' \in Nat /\ codes' >= codes BY <1>3, Typing
 <2> QED BY <1>1, <1>3, <2>1, Named, EndsTurn DEF Dropping
<1>4. CASE /\ Unused # {} /\ codes' = (IF Does(q).op = "register" THEN codes + 1 ELSE codes)
           /\ Moves(q, "create", [At(q, IF call[q].row = 0 THEN "team" ELSE "join", u) EXCEPT !.seen = codes + 1])
           /\ user' = [user EXCEPT ![u] = NewUser(Does(q).op, Does(q).email, codes + 1)]
 <2>0. u \in Unused /\ u \in Users BY <1>4 DEF Unused
 <2>9. user'[u].st = "live" BY <1>4, <2>0, Typing DEF NewUser, NoUser
 <2> HIDE DEF u
 <2> DEFINE pc == IF call[q].row = 0 THEN "team" ELSE "join"
            x == [At(q, pc, u) EXCEPT !.seen = codes + 1]
 <2>1. pc \in Pcs /\ pc \in {"team", "join"} /\ (pc = "join" <=> call[q].row # 0) BY Named
 <2>10. Moves(q, "create", x) /\ codes \in Nat /\ codes + 1 \in Nat /\ codes' \in Nat /\ codes' >= codes
        /\ (Does(q).op = "register" => codes' = codes + 1)
   BY <1>4, Typing
 <2> HIDE DEF pc
 <2>2. /\ x \in CallRow /\ x.pc = pc /\ x.user = u /\ x.row = call[q].row /\ x.code = call[q].code
       /\ x.seen = codes + 1 /\ x.to = call[q].to /\ x.set = call[q].set /\ x.end = call[q].end /\ x.since = call[q].since
   BY <1>1, <2>0, <2>1, <2>10 DEF CallRow, At
 <2> HIDE DEF x
 <2>3. InPlace(q, x) BY <1>2, <2>1, <2>2 DEF InPlace, Making, Dropping
 <2>4. Holds(q, x, Len(member), codes') BY <1>2, <2>0, <2>1, <2>2, <2>10, Typing DEF Holds, Making, Over, SignUps
 <2>5. Remembers(q, call[q], x) BY <1>1, <2>1, <2>2 DEF Remembers, Over
 <2>6. EntersAccounts(q, call[q], x) /\ EntersHandover(q, call[q], x) /\ EntersGuess(q, call[q], x)
   BY <1>1, <1>2, <2>1, <2>2 DEF EntersAccounts, EntersHandover, EntersGuess, Guessing, SignUps
 <2>7. EntersTeams(q, call[q], x) BY <1>1, <1>2, <2>0, <2>1, <2>2 DEF EntersTeams
 <2>8. Enters(q, call[q], x) BY <2>2, <2>6, <2>7, <2>9 DEF Enters
 <2>11. "create" \in Pcs \ (Over \cup {"new"}) BY Named DEF Over
 <2> QED BY <1>1, <2>10, <2>11, <2>2, <2>3, <2>4, <2>5, <2>8, MovesTurn
<1> QED BY <1>3, <1>4 DEF CreateUser, Set, outbox

\* ReadReset is a turn of its call.
LEMMA ReadResetTurn ==
  ASSUME Base, NEW q \in Calls, ReadReset(q)
  PROVE  Turn(q)
<1>1. plan' = plan /\ codes' = codes /\ user' = user /\ call[q].pc = "new" /\ Does(q).op \in {"resetCode", "resetLink"}
  BY DEF ReadReset, Starts, Answers, Right, Refused, outbox
<1> DEFINE h == Holder(Does(q).email)
           asked == With(Does(q).email) # {} /\ user[h].reset # 0
<1>2. CASE Does(q).op # "resetLink" /\ Refused(q, "locked")
 <2>1. call[q].pc = "new" /\ call' = [call EXCEPT ![q] = Begun(q, Ending(q, "locked"))] /\ "locked" \in Outcomes
   BY <1>1, <1>2, Named DEF Refused, Answers
 <2>2. codes' \in Nat /\ codes' >= codes BY <1>1, Typing
 <2> QED BY <1>1, <1>1, <2>1, <2>2, BeginsDone DEF Guessing
<1>3. CASE Does(q).op = "resetLink" /\ Refused(q, "wrong")
 <2>1. call[q].pc = "new" /\ call' = [call EXCEPT ![q] = Begun(q, Ending(q, "wrong"))] /\ "wrong" \in Outcomes
   BY <1>1, <1>3, Named DEF Refused, Answers
 <2>2. codes' \in Nat /\ codes' >= codes BY <1>1, Typing
 <2> QED BY <1>1, <1>3, <2>1, <2>2, BeginsDone DEF Guessing
<1>4. CASE Does(q).op # "resetLink" /\ ~Locked(q) /\ Answers(q, Wrong(q, call[q]))
  BY <1>1, <1>4, BeginsWrong DEF Guessing
<1>5. CASE asked /\ Answers(q, At(q, "expire", h))
 <2>0. call' = [call EXCEPT ![q] = Begun(q, At(q, "expire", h))] /\ h \in Users /\ Live(h)
   BY <1>5, HolderIs DEF Answers
 <2> HIDE DEF h
 <2> DEFINE x == At(q, "expire", h)
 <2>1. /\ call[q] \in CallRow /\ call[q].user = None /\ call[q].row = 0 /\ call[q].code = 0 /\ call[q].seen = 0
       /\ call[q].to = None /\ call[q].set = {} /\ call[q].end = "none"
   BY <1>1, NewIs, CallTypes
 <2>2. /\ x \in CallRow /\ x.pc = "expire" /\ x.user = h /\ x.row = 0 /\ x.code = 0
       /\ x.seen = 0 /\ x.to = None /\ x.set = {} /\ x.end = "none"
   BY <2>0, <2>1, Named DEF CallRow, At, Tos
 <2>3. call' = [call EXCEPT ![q] = Begun(q, x)] BY <2>0
 <2> HIDE DEF x
 <2>4. InPlace(q, x) BY <1>1, <2>0, <2>2 DEF InPlace, Making, Dropping, SignUps, Guessing
 <2>5. Holds(q, x, Len(member), codes) BY <1>1, <2>0, <2>2, Typing DEF Holds, Making, Over, SignUps
 <2>6. EntersAccounts(q, call[q], x) BY <1>1, <2>0, <2>1, <2>2 DEF EntersAccounts, Dropping
 <2>7. EntersTeams(q, call[q], x) BY <1>1, <2>0, <2>1, <2>2 DEF EntersTeams, SignUps
 <2>8. EntersHandover(q, call[q], x) /\ EntersGuess(q, call[q], x)
   BY <1>1, <2>0, <2>1, <2>2 DEF EntersHandover, EntersGuess, Guessing
 <2>9. /\ x.pc \notin {"new"} \cup Over /\ codes' \in Nat /\ codes' >= codes /\ x.end = "none" /\ plan' = plan
       /\ call[q].pc = "new" /\ \A u \in Users : u = x.user \/ u \in x.set => user'[u].st # "none"
   BY <1>1, <2>0, <2>2, Typing DEF Over, Live
 <2> QED BY <2>2, <2>3, <2>4, <2>5, <2>6, <2>7, <2>8, <2>9, BeginsTurn
<1>6. ASSUME NEW c \in Typed(Does(q).email), asked, user[h].reset = c,
             call' = [call EXCEPT ![q] = Begun(q, [At(q, "reset", h) EXCEPT !.code = c])]
      PROVE  Turn(q)
 <2>0. /\ call' = [call EXCEPT ![q] = Begun(q, [At(q, "reset", h) EXCEPT !.code = c])] /\ h \in Users /\ Live(h)
       /\ c # 0 /\ c = user[h].reset /\ c \in Nat
   BY <1>6, HolderIs, RowTypes
 <2> HIDE DEF h
 <2> DEFINE x == [At(q, "reset", h) EXCEPT !.code = c]
 <2>1. /\ call[q] \in CallRow /\ call[q].user = None /\ call[q].row = 0 /\ call[q].code = 0 /\ call[q].seen = 0
       /\ call[q].to = None /\ call[q].set = {} /\ call[q].end = "none"
   BY <1>1, NewIs, CallTypes
 <2>2. /\ x \in CallRow /\ x.pc = "reset" /\ x.user = h /\ x.row = 0 /\ x.code = c
       /\ x.seen = 0 /\ x.to = None /\ x.set = {} /\ x.end = "none"
   BY <2>0, <2>1, Named DEF CallRow, At, Tos
 <2>3. call' = [call EXCEPT ![q] = Begun(q, x)] BY <2>0
 <2> HIDE DEF x
 <2>4. InPlace(q, x) BY <1>1, <2>0, <2>2 DEF InPlace, Making, Dropping, SignUps, Guessing
 <2>5. Holds(q, x, Len(member), codes) BY <1>1, <2>0, <2>2, Typing DEF Holds, Making, Over, SignUps
 <2>6. EntersAccounts(q, call[q], x) BY <1>1, <2>0, <2>1, <2>2 DEF EntersAccounts, Dropping
 <2>7. EntersTeams(q, call[q], x) BY <1>1, <2>0, <2>1, <2>2 DEF EntersTeams, SignUps
 <2>8. EntersHandover(q, call[q], x) /\ EntersGuess(q, call[q], x)
   BY <1>1, <2>0, <2>1, <2>2 DEF EntersHandover, EntersGuess, Guessing
 <2>9. /\ x.pc \notin {"new"} \cup Over /\ codes' \in Nat /\ codes' >= codes /\ x.end = "none" /\ plan' = plan
       /\ call[q].pc = "new" /\ \A u \in Users : u = x.user \/ u \in x.set => user'[u].st # "none"
   BY <1>1, <2>0, <2>2, Typing DEF Over, Live
 <2> QED BY <2>2, <2>3, <2>4, <2>5, <2>6, <2>7, <2>8, <2>9, BeginsTurn
<1>7. ASSUME NEW c \in Typed(Does(q).email), asked, user[h].reset = c,
             Right(q, c, At(q, "reset", h)) \/ Answers(q, [At(q, "reset", h) EXCEPT !.code = c])
      PROVE  Turn(q)
  BY <1>6, <1>7 DEF Right, Answers
<1> HIDE DEF asked, h
<1> QED BY <1>2, <1>3, <1>4, <1>5, <1>7 DEF ReadReset, asked, h

\* ReadChange is a turn of its call.
LEMMA ReadChangeTurn ==
  ASSUME Base, NEW q \in Calls, ReadChange(q)
  PROVE  Turn(q)
<1>1. plan' = plan /\ codes' = codes /\ user' = user /\ call[q].pc = "new" /\ Does(q).op = "confirmChange" /\ Live(Does(q).who)
  BY DEF ReadChange, Starts, Answers, Right, Refused, outbox
<1>2. CASE Refused(q, "locked")
 <2>1. call[q].pc = "new" /\ call' = [call EXCEPT ![q] = Begun(q, Ending(q, "locked"))] /\ "locked" \in Outcomes
   BY <1>1, <1>2, Named DEF Refused, Answers
 <2>2. codes' \in Nat /\ codes' >= codes BY <1>1, Typing
 <2> QED BY <1>1, <1>1, <2>1, <2>2, BeginsDone DEF Guessing
<1>3. CASE Refused(q, "nothing")
 <2>1. call[q].pc = "new" /\ call' = [call EXCEPT ![q] = Begun(q, Ending(q, "nothing"))] /\ "nothing" \in Outcomes
   BY <1>1, <1>3, Named DEF Refused, Answers
 <2>2. codes' \in Nat /\ codes' >= codes BY <1>1, Typing
 <2> QED BY <1>1, <1>1, <2>1, <2>2, BeginsDone DEF Guessing
<1>4. CASE ~Locked(q) /\ Answers(q, Wrong(q, call[q])) BY <1>1, <1>4, BeginsWrong DEF Guessing
<1>5. CASE Answers(q, At(q, "clear", Does(q).who))
 <2>0. call' = [call EXCEPT ![q] = Begun(q, At(q, "clear", Does(q).who))] /\ Does(q).who \in Users /\ Live(Does(q).who)
   BY <1>1, <1>5, Typing DEF Answers
 <2> DEFINE x == At(q, "clear", Does(q).who)
 <2>1. /\ call[q] \in CallRow /\ call[q].user = None /\ call[q].row = 0 /\ call[q].code = 0 /\ call[q].seen = 0
       /\ call[q].to = None /\ call[q].set = {} /\ call[q].end = "none"
   BY <1>1, NewIs, CallTypes
 <2>2. /\ x \in CallRow /\ x.pc = "clear" /\ x.user = Does(q).who /\ x.row = 0 /\ x.code = 0
       /\ x.seen = 0 /\ x.to = None /\ x.set = {} /\ x.end = "none"
   BY <2>0, <2>1, Named DEF CallRow, At, Tos
 <2>3. call' = [call EXCEPT ![q] = Begun(q, x)] BY <2>0
 <2> HIDE DEF x
 <2>4. InPlace(q, x) BY <1>1, <2>0, <2>2 DEF InPlace, Making, Dropping, SignUps, Guessing
 <2>5. Holds(q, x, Len(member), codes) BY <1>1, <2>0, <2>2, Typing DEF Holds, Making, Over, SignUps
 <2>6. EntersAccounts(q, call[q], x) BY <1>1, <2>0, <2>1, <2>2 DEF EntersAccounts, Dropping
 <2>7. EntersTeams(q, call[q], x) BY <1>1, <2>0, <2>1, <2>2 DEF EntersTeams, SignUps
 <2>8. EntersHandover(q, call[q], x) /\ EntersGuess(q, call[q], x)
   BY <1>1, <2>0, <2>1, <2>2 DEF EntersHandover, EntersGuess, Guessing
 <2>9. /\ x.pc \notin {"new"} \cup Over /\ codes' \in Nat /\ codes' >= codes /\ x.end = "none" /\ plan' = plan
       /\ call[q].pc = "new" /\ \A u \in Users : u = x.user \/ u \in x.set => user'[u].st # "none"
   BY <1>1, <2>0, <2>2, Typing DEF Over, Live
 <2> QED BY <2>2, <2>3, <2>4, <2>5, <2>6, <2>7, <2>8, <2>9, BeginsTurn
<1>6. ASSUME user[Does(q).who].pend # None, NEW c \in Typed(user[Does(q).who].pend), c = user[Does(q).who].pcode,
             Right(q, c, [At(q, "change", Does(q).who) EXCEPT !.to = user[Does(q).who].pend])
      PROVE  Turn(q)
 <2> DEFINE e == user[Does(q).who].pend
            w == Does(q).who
 <2>10. w \in Users /\ Live(w) /\ e \in Emails /\ user[w].pcode # 0 /\ user[w].pcode \in Nat
   BY <1>1, <1>6, Typing, RowTypes DEF Base, Accounted
 <2>0. /\ call' = [call EXCEPT ![q] = Begun(q, [At(q, "change", w) EXCEPT !.to = e, !.code = c])]
       /\ w \in Users /\ Live(w) /\ e \in Emails /\ c # 0 /\ c \in Nat /\ c \in mailed[e]
  <3>1. c \in mailed[e] /\ c # 0 /\ c \in Nat BY <1>6, <2>10 DEF Typed
  <3>2. call' = [call EXCEPT ![q] = Begun(q, [[At(q, "change", w) EXCEPT !.to = e] EXCEPT !.code = c])]
    BY <1>6 DEF Right, Answers
  <3> QED BY <2>10, <3>1, <3>2
 <2> HIDE DEF e, w
 <2> DEFINE x == [At(q, "change", w) EXCEPT !.to = e, !.code = c]
 <2>1. /\ call[q] \in CallRow /\ call[q].user = None /\ call[q].row = 0 /\ call[q].code = 0 /\ call[q].seen = 0
       /\ call[q].to = None /\ call[q].set = {} /\ call[q].end = "none"
   BY <1>1, NewIs, CallTypes
 <2>2. /\ x \in CallRow /\ x.pc = "change" /\ x.user = w /\ x.row = 0 /\ x.code = c
       /\ x.seen = 0 /\ x.to = e /\ x.set = {} /\ x.end = "none"
   BY <2>0, <2>1, Named DEF CallRow, At, Tos
 <2>3. call' = [call EXCEPT ![q] = Begun(q, x)] BY <2>0
 <2> HIDE DEF x
 <2>4. InPlace(q, x) BY <1>1, <2>0, <2>2 DEF InPlace, Making, Dropping, SignUps, Guessing
 <2>5. Holds(q, x, Len(member), codes) BY <1>1, <2>0, <2>2, Typing DEF Holds, Making, Over, SignUps
 <2>6. EntersAccounts(q, call[q], x) BY <1>1, <2>0, <2>1, <2>2 DEF EntersAccounts, Dropping
 <2>7. EntersTeams(q, call[q], x) BY <1>1, <2>0, <2>1, <2>2 DEF EntersTeams, SignUps
 <2>8. EntersHandover(q, call[q], x) /\ EntersGuess(q, call[q], x)
   BY <1>1, <2>0, <2>1, <2>2 DEF EntersHandover, EntersGuess, Guessing
 <2>9. /\ x.pc \notin {"new"} \cup Over /\ codes' \in Nat /\ codes' >= codes /\ x.end = "none" /\ plan' = plan
       /\ call[q].pc = "new" /\ \A u \in Users : u = x.user \/ u \in x.set => user'[u].st # "none"
   BY <1>1, <2>0, <2>2, Typing DEF Over, Live
 <2> QED BY <2>2, <2>3, <2>4, <2>5, <2>6, <2>7, <2>8, <2>9, BeginsTurn
<1> QED BY <1>2, <1>3, <1>4, <1>5, <1>6 DEF ReadChange

\* Logout is a turn of its call.
LEMMA LogoutTurn ==
  ASSUME Base, NEW q \in Calls, Logout(q)
  PROVE  Turn(q)
<1>1. /\ plan' = plan /\ codes' = codes /\ codes \in Nat /\ call[q].pc = "new" /\ Does(q).op = "logout"
      /\ Does(q).who \in Users /\ Live(Does(q).who) /\ user'[Does(q).who].st = "live"
  BY Typing, RowTypes DEF Logout, Starts, outbox, Set, UserRow, Live
<1> DEFINE x == At(q, "done", Does(q).who)
<1>2. /\ call[q] \in CallRow /\ call[q].user = None /\ call[q].row = 0 /\ call[q].code = 0 /\ call[q].seen = 0
      /\ call[q].to = None /\ call[q].set = {} /\ call[q].end = "none"
  BY <1>1, NewIs, CallTypes
<1>3. /\ x \in CallRow /\ x.pc = "done" /\ x.user = Does(q).who /\ x.row = 0 /\ x.code = 0
      /\ x.seen = 0 /\ x.to = None /\ x.set = {} /\ x.end = "none"
  BY <1>1, <1>2, Named DEF CallRow, At, Ending
<1>4. call' = [call EXCEPT ![q] = Begun(q, x)] BY DEF Logout, Starts
<1> HIDE DEF x
<1>5. InPlace(q, x) /\ Holds(q, x, Len(member), codes')
  BY <1>1, <1>3, Typing DEF InPlace, Making, Dropping, Over, Holds
<1>6. EntersAccounts(q, call[q], x) /\ EntersTeams(q, call[q], x) /\ EntersHandover(q, call[q], x) /\ EntersGuess(q, call[q], x)
  BY <1>1, <1>2, <1>3 DEF EntersAccounts, EntersTeams, EntersHandover, EntersGuess, Guessing, SignUps
<1>7. Enters(q, call[q], x) BY <1>1, <1>3, <1>6 DEF Enters
<1> QED BY <1>1, <1>3, <1>4, <1>5, <1>7, BegunTurn

\* AdminVerify is a turn of its call.
LEMMA AdminVerifyTurn ==
  ASSUME Base, NEW q \in Calls, AdminVerify(q)
  PROVE  Turn(q)
<1>1. /\ plan' = plan /\ codes' = codes /\ codes \in Nat /\ call[q].pc = "new" /\ Does(q).op = "adminVerify"
      /\ Does(q).who \in Users /\ Live(Does(q).who) /\ user'[Does(q).who].st = "live"
  BY Typing, RowTypes DEF AdminVerify, Starts, outbox, Set, UserRow, Live
<1> DEFINE x == [Ending(q, "verified") EXCEPT !.user = Does(q).who]
<1>2. /\ call[q] \in CallRow /\ call[q].user = None /\ call[q].row = 0 /\ call[q].code = 0 /\ call[q].seen = 0
      /\ call[q].to = None /\ call[q].set = {} /\ call[q].end = "none"
  BY <1>1, NewIs, CallTypes
<1>3. /\ x \in CallRow /\ x.pc = "done" /\ x.user = Does(q).who /\ x.row = 0 /\ x.code = 0
      /\ x.seen = 0 /\ x.to = None /\ x.set = {} /\ x.end = "verified"
  BY <1>1, <1>2, Named DEF CallRow, At, Ending
<1>4. call' = [call EXCEPT ![q] = Begun(q, x)] BY DEF AdminVerify, Starts
<1> HIDE DEF x
<1>5. InPlace(q, x) /\ Holds(q, x, Len(member), codes')
  BY <1>1, <1>3, Typing DEF InPlace, Making, Dropping, Over, Holds
<1>6. EntersAccounts(q, call[q], x) /\ EntersTeams(q, call[q], x) /\ EntersHandover(q, call[q], x) /\ EntersGuess(q, call[q], x)
  BY <1>1, <1>2, <1>3 DEF EntersAccounts, EntersTeams, EntersHandover, EntersGuess, Guessing, SignUps
<1>7. Enters(q, call[q], x) BY <1>1, <1>3, <1>6 DEF Enters
<1> QED BY <1>1, <1>3, <1>4, <1>5, <1>7, BegunTurn

\* ListDeleted is a turn of its call.
LEMMA ListDeletedTurn ==
  ASSUME Base, NEW q \in Calls, ListDeleted(q)
  PROVE  Turn(q)
<1>1. plan' = plan /\ codes' = codes /\ user' = user /\ call[q].pc = "new" /\ Does(q).op = "cleanup"
  BY DEF ListDeleted, Starts, Answers, Right, Refused, outbox
<1> DEFINE x == [call[q] EXCEPT !.pc = IF Doomed = {} THEN "done" ELSE "next", !.set = Doomed]
<1>2. /\ call[q] \in CallRow /\ call[q].user = None /\ call[q].row = 0 /\ call[q].code = 0 /\ call[q].seen = 0
      /\ call[q].to = None /\ call[q].set = {} /\ call[q].end = "none" /\ Doomed \in SUBSET Users
  BY <1>1, NewIs, CallTypes DEF Doomed
<1>3. /\ x \in CallRow /\ x.pc \in {"done", "next"} /\ x.user = None /\ x.row = 0 /\ x.code = 0
      /\ x.seen = 0 /\ x.to = None /\ x.set = Doomed /\ x.end = "none"
  BY <1>2, Named DEF CallRow
<1>4. call' = [call EXCEPT ![q] = Begun(q, x)] BY DEF ListDeleted, Starts
<1> HIDE DEF x
<1>5. InPlace(q, x) /\ Holds(q, x, Len(member), codes')
  BY <1>1, <1>3, Typing DEF InPlace, Making, Dropping, Over, Holds, SignUps
<1>6. EntersAccounts(q, call[q], x) /\ EntersTeams(q, call[q], x) /\ EntersHandover(q, call[q], x) /\ EntersGuess(q, call[q], x)
  BY <1>1, <1>2, <1>3 DEF EntersAccounts, EntersTeams, EntersHandover, EntersGuess, Guessing, SignUps
<1>7. \A u \in Doomed : user'[u].st # "none" BY <1>1 DEF Doomed, Live
<1>8. Enters(q, call[q], x) BY <1>3, <1>6, <1>7, Typing DEF Enters
<1> QED BY <1>1, <1>3, <1>4, <1>5, <1>8, BegunTurn

\* InspectTeam is a turn of its call.
LEMMA InspectTeamTurn ==
  ASSUME Base, NEW q \in Calls, InspectTeam(q)
  PROVE  Turn(q)
<1>1. plan' = plan /\ codes' = codes /\ user' = user /\ codes \in Nat BY Typing DEF InspectTeam, outbox
<1>2. PICK u \in call[q].set :
        Moves(q, "next", [call[q] EXCEPT !.user = u, !.set = @ \ {u}, !.pc = IF team[u].st = "live" /\ Alone(u) THEN "dropTeam" ELSE "dropRows"])
  BY DEF InspectTeam
<1> DEFINE pc == IF team[u].st = "live" /\ Alone(u) THEN "dropTeam" ELSE "dropRows"
           x == [call[q] EXCEPT !.user = u, !.set = @ \ {u}, !.pc = pc]
<1>3. /\ call[q] \in CallRow /\ call[q].pc = "next" /\ InPlace(q, call[q]) /\ Holds(q, call[q], Len(member), codes)
      /\ u \in Users /\ call[q].set \subseteq Users
  BY <1>2, CallTypes DEF Moves
<1>4. pc \in {"dropTeam", "dropRows"} /\ pc \in Pcs /\ Moves(q, "next", x) BY <1>2, Named
<1> HIDE DEF pc
<1>5. /\ x \in CallRow /\ x.pc = pc /\ x.user = u /\ x.row = call[q].row /\ x.code = call[q].code
      /\ x.seen = call[q].seen /\ x.to = call[q].to /\ x.set = call[q].set \ {u} /\ x.end = call[q].end /\ x.since = call[q].since
  BY <1>3, <1>4 DEF CallRow
<1> HIDE DEF x
<1>6. InPlace(q, x) /\ Does(q).op = "cleanup" BY <1>3, <1>4, <1>5 DEF InPlace, Making, Dropping
<1>7. Holds(q, x, Len(member), codes') /\ Remembers(q, call[q], x)
  BY <1>1, <1>3, <1>4, <1>5, <1>6, Typing DEF Holds, Remembers, Making, Over, SignUps
<1>8. EntersAccounts(q, call[q], x) /\ EntersTeams(q, call[q], x) /\ EntersHandover(q, call[q], x) /\ EntersGuess(q, call[q], x)
  BY <1>3, <1>4, <1>5, <1>6 DEF EntersAccounts, EntersTeams, EntersHandover, EntersGuess, Dropping, SignUps, Guessing, Holds
<1>9. Enters(q, call[q], x) BY <1>2, <1>5, <1>8 DEF Enters
<1>10. "next" \in Pcs \ (Over \cup {"new"}) BY Named DEF Over
<1> QED BY <1>1, <1>4, <1>5, <1>6, <1>7, <1>9, <1>10, MovesTurn

\* CheckInvite is a turn of its call.
LEMMA CheckInviteTurn ==
  ASSUME Base, NEW q \in Calls, CheckInvite(q)
  PROVE  Turn(q)
<1>1. plan' = plan /\ codes' = codes /\ user' = user /\ call[q].pc = "new" /\ Does(q).op = "invite" /\ Does(q).who \in Users
  BY Typing DEF CheckInvite, Starts, Answers, Right, Refused, outbox
<1> DEFINE t == Does(q).who
           asked == OwnerOf(t, t) /\ Stranger(t, Does(q).email)
<1>2. call' = [call EXCEPT ![q] = Begun(q, IF asked THEN At(q, "invite", t) ELSE Ending(q, "refused"))]
  BY DEF CheckInvite, Starts
<1>3. asked => With(Does(q).email) = {} /\ user[t].st # "none" BY <1>1 DEF Stranger, OwnerOf, Base, Known
<1> HIDE DEF asked, t
<1>4. CASE asked
 <2>0. call' = [call EXCEPT ![q] = Begun(q, At(q, "invite", t))] /\ t \in Users /\ With(Does(q).email) = {} /\ user[t].st # "none"
   BY <1>1, <1>2, <1>3, <1>4 DEF t
 <2> DEFINE x == At(q, "invite", t)
 <2>1. /\ call[q] \in CallRow /\ call[q].user = None /\ call[q].row = 0 /\ call[q].code = 0 /\ call[q].seen = 0
       /\ call[q].to = None /\ call[q].set = {} /\ call[q].end = "none"
   BY <1>1, NewIs, CallTypes
 <2>2. /\ x \in CallRow /\ x.pc = "invite" /\ x.user = t /\ x.row = 0 /\ x.code = 0
       /\ x.seen = 0 /\ x.to = None /\ x.set = {} /\ x.end = "none"
   BY <2>0, <2>1, Named DEF CallRow, At, Tos
 <2>3. call' = [call EXCEPT ![q] = Begun(q, x)] BY <2>0
 <2> HIDE DEF x
 <2>4. InPlace(q, x) BY <1>1, <2>0, <2>2 DEF InPlace, Making, Dropping, SignUps, Guessing
 <2>5. Holds(q, x, Len(member), codes) BY <1>1, <2>0, <2>2, Typing DEF Holds, Making, Over, SignUps
 <2>6. EntersAccounts(q, call[q], x) BY <1>1, <2>0, <2>1, <2>2 DEF EntersAccounts, Dropping
 <2>7. EntersTeams(q, call[q], x) BY <1>1, <2>0, <2>1, <2>2 DEF EntersTeams, SignUps
 <2>8. EntersHandover(q, call[q], x) /\ EntersGuess(q, call[q], x)
   BY <1>1, <2>0, <2>1, <2>2 DEF EntersHandover, EntersGuess, Guessing
 <2>9. /\ x.pc \notin {"new"} \cup Over /\ codes' \in Nat /\ codes' >= codes /\ x.end = "none" /\ plan' = plan
       /\ call[q].pc = "new" /\ \A u \in Users : u = x.user \/ u \in x.set => user'[u].st # "none"
   BY <1>1, <2>0, <2>2, Typing DEF Over, Live
 <2> QED BY <2>2, <2>3, <2>4, <2>5, <2>6, <2>7, <2>8, <2>9, BeginsTurn
<1>5. CASE ~asked
 <2>1. call' = [call EXCEPT ![q] = Begun(q, Ending(q, "refused"))] /\ "refused" \in Outcomes /\ codes' \in Nat /\ codes' >= codes
   BY <1>1, <1>2, <1>5, Named, Typing
 <2> QED BY <1>1, <2>1, BeginsDone DEF Guessing
<1> QED BY <1>4, <1>5

\* FindMember is a turn of its call.
LEMMA FindMemberTurn ==
  ASSUME Base, NEW q \in Calls, FindMember(q)
  PROVE  Turn(q)
<1>1. plan' = plan /\ codes' = codes /\ user' = user /\ call[q].pc = "new" /\ Does(q).op = "remove"
  BY DEF FindMember, Starts, Answers, Right, Refused, outbox
<1>2. PICK i \in DOMAIN member : call' = [call EXCEPT ![q] = Begun(q, [call[q] EXCEPT !.pc = "remove", !.row = i])]
  BY DEF FindMember, Starts
<1>3. i \in 1 .. Len(member) /\ i \in Nat /\ i # 0 BY <1>2, Typing
<1>4. Turn(q)
 <2>0. call' = [call EXCEPT ![q] = Begun(q, [call[q] EXCEPT !.pc = "remove", !.row = i])] /\ i \in 1 .. Len(member) /\ i \in Nat /\ i # 0
   BY <1>2, <1>3
 <2> DEFINE x == [call[q] EXCEPT !.pc = "remove", !.row = i]
 <2>1. /\ call[q] \in CallRow /\ call[q].user = None /\ call[q].row = 0 /\ call[q].code = 0 /\ call[q].seen = 0
       /\ call[q].to = None /\ call[q].set = {} /\ call[q].end = "none"
   BY <1>1, NewIs, CallTypes
 <2>2. /\ x \in CallRow /\ x.pc = "remove" /\ x.user = None /\ x.row = i /\ x.code = 0
       /\ x.seen = 0 /\ x.to = None /\ x.set = {} /\ x.end = "none"
   BY <2>0, <2>1, Named DEF CallRow, At, Tos
 <2>3. call' = [call EXCEPT ![q] = Begun(q, x)] BY <2>0
 <2> HIDE DEF x
 <2>4. InPlace(q, x) BY <1>1, <2>0, <2>2 DEF InPlace, Making, Dropping, SignUps, Guessing
 <2>5. Holds(q, x, Len(member), codes) BY <1>1, <2>0, <2>2, Typing DEF Holds, Making, Over, SignUps
 <2>6. EntersAccounts(q, call[q], x) BY <1>1, <2>0, <2>1, <2>2 DEF EntersAccounts, Dropping
 <2>7. EntersTeams(q, call[q], x) BY <1>1, <2>0, <2>1, <2>2 DEF EntersTeams, SignUps
 <2>8. EntersHandover(q, call[q], x) /\ EntersGuess(q, call[q], x)
   BY <1>1, <2>0, <2>1, <2>2 DEF EntersHandover, EntersGuess, Guessing
 <2>9. /\ x.pc \notin {"new"} \cup Over /\ codes' \in Nat /\ codes' >= codes /\ x.end = "none" /\ plan' = plan
       /\ call[q].pc = "new" /\ \A u \in Users : u = x.user \/ u \in x.set => user'[u].st # "none"
   BY <1>1, <2>0, <2>2, Typing DEF Over, Live
 <2> QED BY <2>2, <2>3, <2>4, <2>5, <2>6, <2>7, <2>8, <2>9, BeginsTurn
<1> QED BY <1>4

\* ReadRoster is a turn of its call.
LEMMA ReadRosterTurn ==
  ASSUME Base, NEW q \in Calls, ReadRoster(q)
  PROVE  Turn(q)
<1>1. plan' = plan /\ codes' = codes /\ user' = user /\ call[q].pc = "new" /\ Does(q).op = "roster" /\ Does(q).who \in Users
  BY Typing DEF ReadRoster, Starts, Answers, Right, Refused, outbox
<1> DEFINE t == Does(q).who
           known == {member[i].user : i \in Members(t)}
<1>2. PICK S \in SUBSET known, on \in {0, 1}, d \in known \cup {None, "keep"} :
        call' = [call EXCEPT ![q] = Begun(q, [At(q, "roster", t) EXCEPT !.set = S, !.code = on, !.to = d])]
  BY DEF ReadRoster, Starts
<1>3. known \subseteq Users /\ \A u \in known : user[u].st # "none"
 <2>1. \A i \in Members(t) : member[i].user \in Users /\ user[member[i].user].st # "none"
   BY Typing DEF Base, Accounted, Known, Members
 <2> QED BY <2>1
<1>4. team[t].st = "live" /\ user[t].st # "none" BY <1>1 DEF ReadRoster, OwnerOf, Base, Known
<1> HIDE DEF known, t
<1>5. Turn(q)
 <2>0. /\ call' = [call EXCEPT ![q] = Begun(q, [At(q, "roster", t) EXCEPT !.set = S, !.code = on, !.to = d])]
       /\ t \in Users /\ t = Does(q).who /\ S \in SUBSET Users /\ on \in Nat /\ d \in Users \cup {None, "keep"}
       /\ user[t].st # "none" /\ (\A u \in S : user[u].st # "none")
   BY <1>1, <1>2, <1>3, <1>4 DEF t
 <2> DEFINE x == [At(q, "roster", t) EXCEPT !.set = S, !.code = on, !.to = d]
 <2>1. /\ call[q] \in CallRow /\ call[q].user = None /\ call[q].row = 0 /\ call[q].code = 0 /\ call[q].seen = 0
       /\ call[q].to = None /\ call[q].set = {} /\ call[q].end = "none"
   BY <1>1, NewIs, CallTypes
 <2>2. /\ x \in CallRow /\ x.pc = "roster" /\ x.user = t /\ x.row = 0 /\ x.code = on
       /\ x.seen = 0 /\ x.to = d /\ x.set = S /\ x.end = "none"
   BY <2>0, <2>1, Named DEF CallRow, At, Tos
 <2>3. call' = [call EXCEPT ![q] = Begun(q, x)] BY <2>0
 <2> HIDE DEF x
 <2>4. InPlace(q, x) BY <1>1, <2>0, <2>2 DEF InPlace, Making, Dropping, SignUps, Guessing
 <2>5. Holds(q, x, Len(member), codes) BY <1>1, <2>0, <2>2, Typing DEF Holds, Making, Over, SignUps
 <2>6. EntersAccounts(q, call[q], x) BY <1>1, <2>0, <2>1, <2>2 DEF EntersAccounts, Dropping
 <2>7. EntersTeams(q, call[q], x) BY <1>1, <2>0, <2>1, <2>2 DEF EntersTeams, SignUps
 <2>8. EntersHandover(q, call[q], x) /\ EntersGuess(q, call[q], x)
   BY <1>1, <2>0, <2>1, <2>2 DEF EntersHandover, EntersGuess, Guessing
 <2>9. /\ x.pc \notin {"new"} \cup Over /\ codes' \in Nat /\ codes' >= codes /\ x.end = "none" /\ plan' = plan
       /\ call[q].pc = "new" /\ \A u \in Users : u = x.user \/ u \in x.set => user'[u].st # "none"
   BY <1>1, <2>0, <2>2, Typing DEF Over, Live
 <2> QED BY <2>2, <2>3, <2>4, <2>5, <2>6, <2>7, <2>8, <2>9, BeginsTurn
<1> QED BY <1>5

\* Resolve is a turn of its call.
LEMMA ResolveTurn ==
  ASSUME Base, NEW q \in Calls, Resolve(q)
  PROVE  Turn(q)
<1>1. plan' = plan /\ codes' = codes /\ user' = user /\ call[q].pc = "new" /\ Does(q).op = "handover" /\ Does(q).who \in Users
  BY Typing DEF Resolve, Starts, Answers, Right, Refused, outbox
<1> DEFINE t == Does(q).who
<1>2. call' = [call EXCEPT ![q] = Begun(q, IF team[t].st = "live" THEN [At(q, "valid", t) EXCEPT !.to = NextIn(t)] ELSE Ending(q, "nobody"))]
  BY DEF Resolve, Starts
<1>3. NextIn(t) \in Users /\ (team[t].st = "live" => user[t].st # "none") BY <1>1, NextIsUser DEF Base, Known
<1> HIDE DEF t
<1>4. CASE team[t].st = "live"
 <2>0. /\ call' = [call EXCEPT ![q] = Begun(q, [At(q, "valid", t) EXCEPT !.to = NextIn(t)])] /\ t \in Users /\ t = Does(q).who
       /\ NextIn(t) \in Users /\ user[t].st # "none" /\ team[t].st = "live"
   BY <1>1, <1>2, <1>3, <1>4 DEF t
 <2> DEFINE x == [At(q, "valid", t) EXCEPT !.to = NextIn(t)]
 <2>1. /\ call[q] \in CallRow /\ call[q].user = None /\ call[q].row = 0 /\ call[q].code = 0 /\ call[q].seen = 0
       /\ call[q].to = None /\ call[q].set = {} /\ call[q].end = "none"
   BY <1>1, NewIs, CallTypes
 <2>2. /\ x \in CallRow /\ x.pc = "valid" /\ x.user = t /\ x.row = 0 /\ x.code = 0
       /\ x.seen = 0 /\ x.to = NextIn(t) /\ x.set = {} /\ x.end = "none"
   BY <2>0, <2>1, Named DEF CallRow, At, Tos
 <2>3. call' = [call EXCEPT ![q] = Begun(q, x)] BY <2>0
 <2> HIDE DEF x
 <2>4. InPlace(q, x) BY <1>1, <2>0, <2>2 DEF InPlace, Making, Dropping, SignUps, Guessing
 <2>5. Holds(q, x, Len(member), codes) BY <1>1, <2>0, <2>2, Typing DEF Holds, Making, Over, SignUps
 <2>6. EntersAccounts(q, call[q], x) BY <1>1, <2>0, <2>1, <2>2 DEF EntersAccounts, Dropping
 <2>7. EntersTeams(q, call[q], x) BY <1>1, <2>0, <2>1, <2>2 DEF EntersTeams, SignUps
 <2>8. EntersHandover(q, call[q], x) /\ EntersGuess(q, call[q], x)
   BY <1>1, <2>0, <2>1, <2>2 DEF EntersHandover, EntersGuess, Guessing
 <2>9. /\ x.pc \notin {"new"} \cup Over /\ codes' \in Nat /\ codes' >= codes /\ x.end = "none" /\ plan' = plan
       /\ call[q].pc = "new" /\ \A u \in Users : u = x.user \/ u \in x.set => user'[u].st # "none"
   BY <1>1, <2>0, <2>2, Typing DEF Over, Live
 <2> QED BY <2>2, <2>3, <2>4, <2>5, <2>6, <2>7, <2>8, <2>9, BeginsTurn
<1>5. CASE team[t].st # "live"
 <2>1. call' = [call EXCEPT ![q] = Begun(q, Ending(q, "nobody"))] /\ "nobody" \in Outcomes /\ codes' \in Nat /\ codes' >= codes
   BY <1>1, <1>2, <1>5, Named, Typing
 <2> QED BY <1>1, <2>1, BeginsDone DEF Guessing
<1> QED BY <1>4, <1>5

\* Die is a turn of its call.
LEMMA DieTurn ==
  ASSUME Base, NEW q \in Calls, Die(q)
  PROVE  Turn(q)
<1>1. plan' = plan /\ codes' = codes /\ user' = user /\ codes \in Nat /\ call[q].pc \notin {"new"} \cup Over
  BY Typing DEF Die, outbox
<1> DEFINE x == [call[q] EXCEPT !.pc = "dead"]
<1>2. call[q] \in CallRow /\ InPlace(q, call[q]) /\ Holds(q, call[q], Len(member), codes) /\ call[q].pc \in Pcs
  BY CallTypes
<1>3. call[q].end = "none" BY <1>1, <1>2 DEF Holds, Over
<1>4. /\ x \in CallRow /\ x.pc = "dead" /\ x.user = call[q].user /\ x.row = call[q].row /\ x.code = call[q].code
      /\ x.seen = call[q].seen /\ x.to = call[q].to /\ x.set = call[q].set /\ x.end = "none" /\ x.since = call[q].since
  BY <1>2, <1>3, Named DEF CallRow
<1>5. Moves(q, call[q].pc, x) BY Typing DEF Die, Moves
<1> HIDE DEF x
<1>6. InPlace(q, x) BY <1>4 DEF InPlace, Making, Dropping
<1>7. Holds(q, x, Len(member), codes') /\ Remembers(q, call[q], x)
  BY <1>1, <1>2, <1>4, Typing DEF Holds, Remembers, Making, Over, SignUps
<1>8. EntersAccounts(q, call[q], x) /\ EntersTeams(q, call[q], x) /\ EntersHandover(q, call[q], x) /\ EntersGuess(q, call[q], x)
  BY <1>1, <1>2, <1>4 DEF EntersAccounts, EntersTeams, EntersHandover, EntersGuess, Dropping, SignUps, Guessing, Holds, Over
<1>9. Enters(q, call[q], x) BY <1>4, <1>8 DEF Enters
<1> QED BY <1>1, <1>2, <1>4, <1>5, <1>6, <1>7, <1>9, MovesTurn

--------------------
(* Steps of calls *)

Step(q) == SignUpStep(q) \/ SessionStep(q) \/ DeletionStep(q) \/ TeamStep(q) \/ Die(q)

\* Every step of a call is a turn of that call.
LEMMA StepTurn ==
  ASSUME Base, NEW q \in Calls, Step(q)
  PROVE  Turn(q)
<1>1. CASE SignUpStep(q)
  BY <1>1, FindAccountTurn, FindIdentityTurn, CreateUserTurn, JoinTeamTurn, MakeTeamTurn, MakeOwnerTurn, MakeQuotasTurn,
     SendRegisterMailTurn, SignInTurn, ReadActivationTurn, VerifyTurn, ResendCodeTurn
  DEF SignUpStep
<1>2. CASE SessionStep(q)
  BY <1>2, CountTryTurn, ReadLoginTurn, RestoreTurn, ReadSessionTurn, RenewTurn, LogoutTurn, LostPasswordTurn, ReadResetTurn,
     ExpireResetTurn, WriteResetTurn, ChangePasswordTurn, AskChangeTurn, ParkChangeTurn, ReadChangeTurn,
     ChangeAddressTurn, FindChangeTurn, ClearChangeTurn, AskConnectTurn, ConnectTurn, DisconnectTurn
  DEF SessionStep
<1>3. CASE DeletionStep(q)
  BY <1>3, CheckEligibleTurn, ScheduleTurn, ReadDeletionTurn, CancelDeletionTurn, AdminDeleteTurn, AdminRestoreTurn,
     AdminVerifyTurn, AdminAskEmailTurn, AdminEmailTurn, ListDeletedTurn, InspectTeamTurn, DropTeamTurn, DropRowsTurn,
     DropUserTurn
  DEF DeletionStep
<1>4. CASE TeamStep(q)
  BY <1>4, CheckInviteTurn, CreateInviteTurn, FindMemberTurn, RemoveMemberTurn, ReadRosterTurn, WriteRosterTurn, ResolveTurn,
     ValidateTurn, AssignTurn, RecordTurn
  DEF TeamStep
<1> QED BY <1>1, <1>2, <1>3, <1>4, DieTurn DEF Step

\* Where a step is taken.
LEMMA Where ==
  ASSUME NEW q \in Calls
  PROVE  /\ CreateUser(q) => call[q].pc = "create"
         /\ JoinTeam(q) => call[q].pc = "join"
         /\ MakeTeam(q) => call[q].pc = "team"
         /\ MakeOwner(q) => call[q].pc = "owner"
         /\ MakeQuotas(q) => call[q].pc = "quotas"
         /\ SendRegisterMail(q) => call[q].pc = "mail"
         /\ SignIn(q) => call[q].pc = "signIn"
         /\ Verify(q) => call[q].pc = "verify"
         /\ CountTry(q) => call[q].pc = "wrong"
         /\ Restore(q) => call[q].pc = "restore"
         /\ Renew(q) => call[q].pc = "renew"
         /\ ExpireReset(q) => call[q].pc = "expire"
         /\ WriteReset(q) => call[q].pc = "reset"
         /\ ParkChange(q) => call[q].pc = "pend"
         /\ ChangeAddress(q) => call[q].pc = "change"
         /\ ClearChange(q) => call[q].pc = "clear"
         /\ Connect(q) => call[q].pc = "link"
         /\ Schedule(q) => call[q].pc = "schedule"
         /\ CancelDeletion(q) => call[q].pc = "cancel"
         /\ AdminEmail(q) => call[q].pc = "email"
         /\ InspectTeam(q) => call[q].pc = "next"
         /\ DropTeam(q) => call[q].pc = "dropTeam"
         /\ DropRows(q) => call[q].pc = "dropRows"
         /\ DropUser(q) => call[q].pc = "dropUser"
         /\ CreateInvite(q) => call[q].pc = "invite"
         /\ RemoveMember(q) => call[q].pc = "remove"
         /\ WriteRoster(q) => call[q].pc = "roster"
         /\ Validate(q) => call[q].pc = "valid"
         /\ Assign(q) => call[q].pc = "assign"
         /\ Record(q) => call[q].pc = "record"
         /\ FindAccount(q) => call[q].pc = "new" /\ Does(q).op \in {"register", "adminCreate"}
         /\ FindIdentity(q) => call[q].pc = "new" /\ Does(q).op = "oauth"
         /\ ReadActivation(q) => call[q].pc = "new" /\ Does(q).op = "activate"
         /\ ResendCode(q) => call[q].pc = "new" /\ Does(q).op = "resend"
         /\ ReadLogin(q) => call[q].pc = "new" /\ Does(q).op = "login"
         /\ ReadSession(q) => call[q].pc = "new" /\ Does(q).op = "refresh"
         /\ Logout(q) => call[q].pc = "new" /\ Does(q).op = "logout"
         /\ LostPassword(q) => call[q].pc = "new" /\ Does(q).op = "lostPassword"
         /\ ReadReset(q) => call[q].pc = "new" /\ Does(q).op \in {"resetCode", "resetLink"}
         /\ ChangePassword(q) => call[q].pc = "new" /\ Does(q).op = "changePassword"
         /\ AskChange(q) => call[q].pc = "new" /\ Does(q).op = "requestChange"
         /\ ReadChange(q) => call[q].pc = "new" /\ Does(q).op = "confirmChange"
         /\ FindChange(q) => call[q].pc = "new" /\ Does(q).op = "cancelChange"
         /\ AskConnect(q) => call[q].pc = "new" /\ Does(q).op = "connect"
         /\ Disconnect(q) => call[q].pc = "new" /\ Does(q).op = "disconnect"
         /\ CheckEligible(q) => call[q].pc = "new" /\ Does(q).op = "requestDeletion"
         /\ ReadDeletion(q) => call[q].pc = "new" /\ Does(q).op = "cancelDeletion"
         /\ AdminDelete(q) => call[q].pc = "new" /\ Does(q).op = "adminDelete"
         /\ AdminRestore(q) => call[q].pc = "new" /\ Does(q).op = "adminRestore"
         /\ AdminVerify(q) => call[q].pc = "new" /\ Does(q).op = "adminVerify"
         /\ AdminAskEmail(q) => call[q].pc = "new" /\ Does(q).op = "adminEmail"
         /\ ListDeleted(q) => call[q].pc = "new" /\ Does(q).op = "cleanup"
         /\ CheckInvite(q) => call[q].pc = "new" /\ Does(q).op = "invite"
         /\ FindMember(q) => call[q].pc = "new" /\ Does(q).op = "remove"
         /\ ReadRoster(q) => call[q].pc = "new" /\ Does(q).op = "roster"
         /\ Resolve(q) => call[q].pc = "new" /\ Does(q).op = "handover"
<1>1. CreateUser(q) => call[q].pc = "create" BY DEF CreateUser, Starts, Answers, Right, Refused, Moves, Goes, Ends
<1>2. JoinTeam(q) => call[q].pc = "join" BY DEF JoinTeam, Starts, Answers, Right, Refused, Moves, Goes, Ends
<1>3. MakeTeam(q) => call[q].pc = "team" BY DEF MakeTeam, Starts, Answers, Right, Refused, Moves, Goes, Ends
<1>4. MakeOwner(q) => call[q].pc = "owner" BY DEF MakeOwner, Starts, Answers, Right, Refused, Moves, Goes, Ends
<1>5. MakeQuotas(q) => call[q].pc = "quotas" BY DEF MakeQuotas, Starts, Answers, Right, Refused, Moves, Goes, Ends
<1>6. SendRegisterMail(q) => call[q].pc = "mail"
  BY DEF SendRegisterMail, Starts, Answers, Right, Refused, Moves, Goes, Ends
<1>7. SignIn(q) => call[q].pc = "signIn" BY DEF SignIn, Starts, Answers, Right, Refused, Moves, Goes, Ends
<1>8. Verify(q) => call[q].pc = "verify" BY DEF Verify, Starts, Answers, Right, Refused, Moves, Goes, Ends
<1>9. CountTry(q) => call[q].pc = "wrong" BY DEF CountTry, Starts, Answers, Right, Refused, Moves, Goes, Ends
<1>10. Restore(q) => call[q].pc = "restore" BY DEF Restore, Starts, Answers, Right, Refused, Moves, Goes, Ends
<1>11. Renew(q) => call[q].pc = "renew" BY DEF Renew, Starts, Answers, Right, Refused, Moves, Goes, Ends
<1>12. ExpireReset(q) => call[q].pc = "expire" BY DEF ExpireReset, Starts, Answers, Right, Refused, Moves, Goes, Ends
<1>13. WriteReset(q) => call[q].pc = "reset" BY DEF WriteReset, Starts, Answers, Right, Refused, Moves, Goes, Ends
<1>14. ParkChange(q) => call[q].pc = "pend" BY DEF ParkChange, Starts, Answers, Right, Refused, Moves, Goes, Ends
<1>15. ChangeAddress(q) => call[q].pc = "change"
  BY DEF ChangeAddress, Starts, Answers, Right, Refused, Moves, Goes, Ends
<1>16. ClearChange(q) => call[q].pc = "clear" BY DEF ClearChange, Starts, Answers, Right, Refused, Moves, Goes, Ends
<1>17. Connect(q) => call[q].pc = "link" BY DEF Connect, Starts, Answers, Right, Refused, Moves, Goes, Ends
<1>18. Schedule(q) => call[q].pc = "schedule" BY DEF Schedule, Starts, Answers, Right, Refused, Moves, Goes, Ends
<1>19. CancelDeletion(q) => call[q].pc = "cancel"
  BY DEF CancelDeletion, Starts, Answers, Right, Refused, Moves, Goes, Ends
<1>20. AdminEmail(q) => call[q].pc = "email" BY DEF AdminEmail, Starts, Answers, Right, Refused, Moves, Goes, Ends
<1>21. InspectTeam(q) => call[q].pc = "next" BY DEF InspectTeam, Starts, Answers, Right, Refused, Moves, Goes, Ends
<1>22. DropTeam(q) => call[q].pc = "dropTeam" BY DEF DropTeam, Starts, Answers, Right, Refused, Moves, Goes, Ends
<1>23. DropRows(q) => call[q].pc = "dropRows" BY DEF DropRows, Starts, Answers, Right, Refused, Moves, Goes, Ends
<1>24. DropUser(q) => call[q].pc = "dropUser" BY DEF DropUser, Starts, Answers, Right, Refused, Moves, Goes, Ends
<1>25. CreateInvite(q) => call[q].pc = "invite"
  BY DEF CreateInvite, Starts, Answers, Right, Refused, Moves, Goes, Ends
<1>26. RemoveMember(q) => call[q].pc = "remove"
  BY DEF RemoveMember, Starts, Answers, Right, Refused, Moves, Goes, Ends
<1>27. WriteRoster(q) => call[q].pc = "roster" BY DEF WriteRoster, Starts, Answers, Right, Refused, Moves, Goes, Ends
<1>28. Validate(q) => call[q].pc = "valid" BY DEF Validate, Starts, Answers, Right, Refused, Moves, Goes, Ends
<1>29. Assign(q) => call[q].pc = "assign" BY DEF Assign, Starts, Answers, Right, Refused, Moves, Goes, Ends
<1>30. Record(q) => call[q].pc = "record" BY DEF Record, Starts, Answers, Right, Refused, Moves, Goes, Ends
<1>31. FindAccount(q) => call[q].pc = "new" /\ Does(q).op \in {"register", "adminCreate"}
  BY DEF FindAccount, Starts, Answers, Right, Refused, Moves, Goes, Ends
<1>32. FindIdentity(q) => call[q].pc = "new" /\ Does(q).op = "oauth"
  BY DEF FindIdentity, Starts, Answers, Right, Refused, Moves, Goes, Ends
<1>33. ReadActivation(q) => call[q].pc = "new" /\ Does(q).op = "activate"
  BY DEF ReadActivation, Starts, Answers, Right, Refused, Moves, Goes, Ends
<1>34. ResendCode(q) => call[q].pc = "new" /\ Does(q).op = "resend"
  BY DEF ResendCode, Starts, Answers, Right, Refused, Moves, Goes, Ends
<1>35. ReadLogin(q) => call[q].pc = "new" /\ Does(q).op = "login"
  BY DEF ReadLogin, Starts, Answers, Right, Refused, Moves, Goes, Ends
<1>36. ReadSession(q) => call[q].pc = "new" /\ Does(q).op = "refresh"
  BY DEF ReadSession, Starts, Answers, Right, Refused, Moves, Goes, Ends
<1>37. Logout(q) => call[q].pc = "new" /\ Does(q).op = "logout"
  BY DEF Logout, Starts, Answers, Right, Refused, Moves, Goes, Ends
<1>38. LostPassword(q) => call[q].pc = "new" /\ Does(q).op = "lostPassword"
  BY DEF LostPassword, Starts, Answers, Right, Refused, Moves, Goes, Ends
<1>39. ReadReset(q) => call[q].pc = "new" /\ Does(q).op \in {"resetCode", "resetLink"}
  BY DEF ReadReset, Starts, Answers, Right, Refused, Moves, Goes, Ends
<1>40. ChangePassword(q) => call[q].pc = "new" /\ Does(q).op = "changePassword"
  BY DEF ChangePassword, Starts, Answers, Right, Refused, Moves, Goes, Ends
<1>41. AskChange(q) => call[q].pc = "new" /\ Does(q).op = "requestChange"
  BY DEF AskChange, Starts, Answers, Right, Refused, Moves, Goes, Ends
<1>42. ReadChange(q) => call[q].pc = "new" /\ Does(q).op = "confirmChange"
  BY DEF ReadChange, Starts, Answers, Right, Refused, Moves, Goes, Ends
<1>43. FindChange(q) => call[q].pc = "new" /\ Does(q).op = "cancelChange"
  BY DEF FindChange, Starts, Answers, Right, Refused, Moves, Goes, Ends
<1>44. AskConnect(q) => call[q].pc = "new" /\ Does(q).op = "connect"
  BY DEF AskConnect, Starts, Answers, Right, Refused, Moves, Goes, Ends
<1>45. Disconnect(q) => call[q].pc = "new" /\ Does(q).op = "disconnect"
  BY DEF Disconnect, Starts, Answers, Right, Refused, Moves, Goes, Ends
<1>46. CheckEligible(q) => call[q].pc = "new" /\ Does(q).op = "requestDeletion"
  BY DEF CheckEligible, Starts, Answers, Right, Refused, Moves, Goes, Ends
<1>47. ReadDeletion(q) => call[q].pc = "new" /\ Does(q).op = "cancelDeletion"
  BY DEF ReadDeletion, Starts, Answers, Right, Refused, Moves, Goes, Ends
<1>48. AdminDelete(q) => call[q].pc = "new" /\ Does(q).op = "adminDelete"
  BY DEF AdminDelete, Starts, Answers, Right, Refused, Moves, Goes, Ends
<1>49. AdminRestore(q) => call[q].pc = "new" /\ Does(q).op = "adminRestore"
  BY DEF AdminRestore, Starts, Answers, Right, Refused, Moves, Goes, Ends
<1>50. AdminVerify(q) => call[q].pc = "new" /\ Does(q).op = "adminVerify"
  BY DEF AdminVerify, Starts, Answers, Right, Refused, Moves, Goes, Ends
<1>51. AdminAskEmail(q) => call[q].pc = "new" /\ Does(q).op = "adminEmail"
  BY DEF AdminAskEmail, Starts, Answers, Right, Refused, Moves, Goes, Ends
<1>52. ListDeleted(q) => call[q].pc = "new" /\ Does(q).op = "cleanup"
  BY DEF ListDeleted, Starts, Answers, Right, Refused, Moves, Goes, Ends
<1>53. CheckInvite(q) => call[q].pc = "new" /\ Does(q).op = "invite"
  BY DEF CheckInvite, Starts, Answers, Right, Refused, Moves, Goes, Ends
<1>54. FindMember(q) => call[q].pc = "new" /\ Does(q).op = "remove"
  BY DEF FindMember, Starts, Answers, Right, Refused, Moves, Goes, Ends
<1>55. ReadRoster(q) => call[q].pc = "new" /\ Does(q).op = "roster"
  BY DEF ReadRoster, Starts, Answers, Right, Refused, Moves, Goes, Ends
<1>56. Resolve(q) => call[q].pc = "new" /\ Does(q).op = "handover"
  BY DEF Resolve, Starts, Answers, Right, Refused, Moves, Goes, Ends
<1> QED
  BY <1>1, <1>2, <1>3, <1>4, <1>5, <1>6, <1>7, <1>8, <1>9, <1>10, <1>11, <1>12, <1>13, <1>14, <1>15, <1>16, <1>17,
<1>18, <1>19, <1>20, <1>21, <1>22, <1>23, <1>24, <1>25, <1>26, <1>27, <1>28, <1>29, <1>30, <1>31, <1>32, <1>33,
<1>34, <1>35, <1>36, <1>37, <1>38, <1>39, <1>40, <1>41, <1>42, <1>43, <1>44, <1>45, <1>46, <1>47, <1>48, <1>49,
<1>50, <1>51, <1>52, <1>53, <1>54, <1>55, <1>56

\* Whose step it is, by the place of the call.
LEMMA AtPlace ==
  ASSUME NEW q \in Calls, Step(q), call[q].pc # "new", ~Die(q)
  PROVE  /\ call[q].pc = "create" => CreateUser(q)
         /\ call[q].pc = "join" => JoinTeam(q)
         /\ call[q].pc = "team" => MakeTeam(q)
         /\ call[q].pc = "owner" => MakeOwner(q)
         /\ call[q].pc = "quotas" => MakeQuotas(q)
         /\ call[q].pc = "mail" => SendRegisterMail(q)
         /\ call[q].pc = "signIn" => SignIn(q)
         /\ call[q].pc = "verify" => Verify(q)
         /\ call[q].pc = "wrong" => CountTry(q)
         /\ call[q].pc = "restore" => Restore(q)
         /\ call[q].pc = "renew" => Renew(q)
         /\ call[q].pc = "expire" => ExpireReset(q)
         /\ call[q].pc = "reset" => WriteReset(q)
         /\ call[q].pc = "pend" => ParkChange(q)
         /\ call[q].pc = "change" => ChangeAddress(q)
         /\ call[q].pc = "clear" => ClearChange(q)
         /\ call[q].pc = "link" => Connect(q)
         /\ call[q].pc = "schedule" => Schedule(q)
         /\ call[q].pc = "cancel" => CancelDeletion(q)
         /\ call[q].pc = "email" => AdminEmail(q)
         /\ call[q].pc = "next" => InspectTeam(q)
         /\ call[q].pc = "dropTeam" => DropTeam(q)
         /\ call[q].pc = "dropRows" => DropRows(q)
         /\ call[q].pc = "dropUser" => DropUser(q)
         /\ call[q].pc = "invite" => CreateInvite(q)
         /\ call[q].pc = "remove" => RemoveMember(q)
         /\ call[q].pc = "roster" => WriteRoster(q)
         /\ call[q].pc = "valid" => Validate(q)
         /\ call[q].pc = "assign" => Assign(q)
         /\ call[q].pc = "record" => Record(q)
  BY Where DEF Step, SignUpStep, SessionStep, DeletionStep, TeamStep

\* Whose step it is, by the kind of the call.
LEMMA AtStart ==
  ASSUME NEW q \in Calls, Step(q), call[q].pc = "new"
  PROVE  /\ Does(q).op = "register" => FindAccount(q)
         /\ Does(q).op = "adminCreate" => FindAccount(q)
         /\ Does(q).op = "oauth" => FindIdentity(q)
         /\ Does(q).op = "activate" => ReadActivation(q)
         /\ Does(q).op = "resend" => ResendCode(q)
         /\ Does(q).op = "login" => ReadLogin(q)
         /\ Does(q).op = "refresh" => ReadSession(q)
         /\ Does(q).op = "logout" => Logout(q)
         /\ Does(q).op = "lostPassword" => LostPassword(q)
         /\ Does(q).op = "resetCode" => ReadReset(q)
         /\ Does(q).op = "resetLink" => ReadReset(q)
         /\ Does(q).op = "changePassword" => ChangePassword(q)
         /\ Does(q).op = "requestChange" => AskChange(q)
         /\ Does(q).op = "confirmChange" => ReadChange(q)
         /\ Does(q).op = "cancelChange" => FindChange(q)
         /\ Does(q).op = "connect" => AskConnect(q)
         /\ Does(q).op = "disconnect" => Disconnect(q)
         /\ Does(q).op = "requestDeletion" => CheckEligible(q)
         /\ Does(q).op = "cancelDeletion" => ReadDeletion(q)
         /\ Does(q).op = "adminDelete" => AdminDelete(q)
         /\ Does(q).op = "adminRestore" => AdminRestore(q)
         /\ Does(q).op = "adminVerify" => AdminVerify(q)
         /\ Does(q).op = "adminEmail" => AdminAskEmail(q)
         /\ Does(q).op = "cleanup" => ListDeleted(q)
         /\ Does(q).op = "invite" => CheckInvite(q)
         /\ Does(q).op = "remove" => FindMember(q)
         /\ Does(q).op = "roster" => ReadRoster(q)
         /\ Does(q).op = "handover" => Resolve(q)
<1>1. ~Die(q) BY DEF Die
<1> QED BY <1>1, Where DEF Step, SignUpStep, SessionStep, DeletionStep, TeamStep

--------------------
(* What a step does to the accounts *)

Readdressed(q, u, s) ==
  /\ call[q].user = u
  /\ \/ call[q].pc = "change" /\ call'[q].end = "changed" /\ s.email = call[q].to
     \/ call[q].pc = "email" /\ call'[q].end = "saved" /\ s.email = Does(q).email
  /\ With(s.email) \subseteq {u}
Born(q, u, s) ==
  /\ call[q].pc = "create" /\ call'[q].pc \in {"team", "join"} /\ call'[q].user = u /\ user[u].st = "none" /\ With(Does(q).email) = {}
  /\ s = NewUser(Does(q).op, Does(q).email, codes + 1)
Died(q, u, s) == call[q].pc = "dropUser" /\ call[q].user = u /\ Live(u) /\ s = [NoUser EXCEPT !.st = "gone"]
\* A live account's new row s: what of it has changed, and by which call.
Edited(q, u, s) ==
  /\ Live(u) /\ s.st = "live"
  /\ s.email = user[u].email \/ Readdressed(q, u, s)
  /\ s.verified /\ ~user[u].verified =>
       \/ call[q].pc = "verify" /\ call[q].user = u
       \/ call[q].pc = "change" /\ Readdressed(q, u, s)
       \/ Does(q).op = "adminVerify" /\ call'[q].user = u
  /\ s.deleted /\ ~user[u].deleted => Does(q).op \in {"requestDeletion", "adminDelete"}
  /\ s.deleted /\ s.due = "none" => (user[u].deleted /\ user[u].due = "none") \/ Does(q).op = "adminDelete"
  /\ user[u].deleted /\ user[u].due = "past" => (s.deleted /\ s.due = "past") \/ Does(q).op \in Restorers
  /\ user[u].session /\ ~s.session => Does(q).op \in Revokers
  /\ s.session /\ ~user[u].session => call[q].pc \in {"signIn", "renew"} /\ call[q].user = u
  /\ s.reset \in {0, user[u].reset} \/ (s.reset = codes + 1 /\ codes' = codes + 1 /\ u = Holder(Does(q).email))
  /\ s.pend # None => s.pcode # 0
UserMove(q, u, s) == s \in UserRow /\ (s = user[u] \/ Born(q, u, s) \/ Died(q, u, s) \/ Edited(q, u, s))
UsersMove(q) == user' \in [Users -> UserRow] /\ \A u \in Users : UserMove(q, u, user'[u])

\* The types of a living account's row, and of the next code.
LiveRow(u) ==
  /\ user[u] \in UserRow /\ user[u].st = "live" /\ codes \in Nat /\ codes + 1 \in Nat
  /\ (user[u].pend # None => user[u].pcode # 0) /\ user[u].email \in Emails
  /\ user[u].session \in BOOLEAN /\ user[u].deleted \in BOOLEAN /\ user[u].verified \in BOOLEAN /\ user[u].token \in {"none", "held", "late"}

\* One account changes.
LEMMA OneMoves ==
  ASSUME Base, NEW q \in Calls, NEW u \in Users, NEW s, user' = [user EXCEPT ![u] = s], UserMove(q, u, s)
  PROVE  UsersMove(q)
<1>1. user \in [Users -> UserRow] /\ s \in UserRow BY Typing DEF UserMove
<1> QED BY <1>1 DEF UsersMove, UserMove

\* No account changes.
LEMMA NoneMoves ==
  ASSUME Base, NEW q \in Calls, user' = user
  PROVE  UsersMove(q)
  BY Typing DEF UsersMove, UserMove

\* How a call ends.
LEMMA EndsIs ==
  ASSUME Base, NEW q \in Calls, NEW from, NEW how, Ends(q, from, how)
  PROVE  call'[q].pc = "done" /\ call'[q].end = how
<1>1. call \in [Calls -> CallRow] /\ call[q] \in CallRow BY Typing, CallTypes
<1> QED BY <1>1 DEF Ends, Moves, CallRow

\* The call of an administrator who vouches for an address names the account.
LEMMA AdminVerifyUser ==
  ASSUME Base, NEW q \in Calls, AdminVerify(q)
  PROVE  call'[q].user = Does(q).who
<1>1. call \in [Calls -> CallRow] /\ call[q] \in CallRow /\ call' = [call EXCEPT ![q] = Begun(q, [Ending(q, "verified") EXCEPT !.user = Does(q).who])]
  BY Typing, CallTypes DEF AdminVerify, Starts
<1> QED BY <1>1 DEF Begun, Ending, CallRow

\* What SignIn does to the accounts.
LEMMA SignInUsers ==
  ASSUME Base, NEW q \in Calls, SignIn(q)
  PROVE  UsersMove(q)
<1>1. call[q].pc = "signIn" /\ call[q].user \in Users BY Where, CallTypes, Named DEF Holds, Over
<1> DEFINE u == call[q].user
           s == [user[u] EXCEPT !.session = TRUE, !.token = Token(u)]
<1>2. CASE user' = user BY <1>2, NoneMoves
<1>3. CASE user' # user
 <2>1. user' = [user EXCEPT ![u] = s] /\ u \in Users /\ Live(u) /\ u = call[q].user
   BY <1>1, <1>3, Typing DEF SignIn, Set, Ends, Moves, Live, Restored, Changed, Unparked
 <2>2. LiveRow(u) BY <2>1, Typing, RowTypes DEF Live, Base, Accounted, LiveRow
 <2> HIDE DEF u
 <2>3. s \in UserRow /\ s.st = user[u].st /\ s.email = user[u].email /\ s.verified = user[u].verified /\ s.act = user[u].act /\ s.reset = user[u].reset /\ s.pend = user[u].pend
       /\ s.pcode = user[u].pcode /\ s.deleted = user[u].deleted /\ s.due = user[u].due /\ s.pass = user[u].pass /\ s.id = user[u].id /\ s.session = TRUE /\ s.token \in {"none", "held", "late"}
   BY <1>1, <2>1, <2>2, Typing DEF UserRow, Token, LiveRow
 <2> HIDE DEF s
 <2>4. Edited(q, u, s) BY <1>1, <2>1, <2>2, <2>3 DEF Edited, Readdressed, Restorers, Revokers, LiveRow
 <2> QED BY <2>1, <2>3, <2>4, OneMoves DEF UserMove
<1> QED BY <1>2, <1>3

\* What Renew does to the accounts.
LEMMA RenewUsers ==
  ASSUME Base, NEW q \in Calls, Renew(q)
  PROVE  UsersMove(q)
<1>1. call[q].pc = "renew" /\ call[q].user \in Users BY Where, CallTypes, Named DEF Holds, Over
<1> DEFINE u == call[q].user
           s == [user[u] EXCEPT !.session = TRUE, !.token = Token(u)]
<1>2. CASE user' = user BY <1>2, NoneMoves
<1>3. CASE user' # user
 <2>1. user' = [user EXCEPT ![u] = s] /\ u \in Users /\ Live(u) /\ u = call[q].user
   BY <1>1, <1>3, Typing DEF Renew, Set, Ends, Moves, Live, Restored, Changed, Unparked
 <2>2. LiveRow(u) BY <2>1, Typing, RowTypes DEF Live, Base, Accounted, LiveRow
 <2> HIDE DEF u
 <2>3. s \in UserRow /\ s.st = user[u].st /\ s.email = user[u].email /\ s.verified = user[u].verified /\ s.act = user[u].act /\ s.reset = user[u].reset /\ s.pend = user[u].pend
       /\ s.pcode = user[u].pcode /\ s.deleted = user[u].deleted /\ s.due = user[u].due /\ s.pass = user[u].pass /\ s.id = user[u].id /\ s.session = TRUE /\ s.token \in {"none", "held", "late"}
   BY <1>1, <2>1, <2>2, Typing DEF UserRow, Token, LiveRow
 <2> HIDE DEF s
 <2>4. Edited(q, u, s) BY <1>1, <2>1, <2>2, <2>3 DEF Edited, Readdressed, Restorers, Revokers, LiveRow
 <2> QED BY <2>1, <2>3, <2>4, OneMoves DEF UserMove
<1> QED BY <1>2, <1>3

\* What Verify does to the accounts.
LEMMA VerifyUsers ==
  ASSUME Base, NEW q \in Calls, Verify(q)
  PROVE  UsersMove(q)
<1>1. call[q].pc = "verify" /\ call[q].user \in Users BY Where, CallTypes, Named DEF Holds, Over
<1> DEFINE u == call[q].user
           tk == IF HasTeam(u) THEN Token(u) ELSE user[u].token
           s == [user[u] EXCEPT !.verified = TRUE, !.act = 0, !.token = tk]
<1>2. CASE user' = user BY <1>2, NoneMoves
<1>3. CASE user' # user
 <2>1. user' = [user EXCEPT ![u] = s] /\ u \in Users /\ Live(u) /\ u = call[q].user
   BY <1>1, <1>3, Typing DEF Verify, Set, Ends, Moves, Live, Restored, Changed, Unparked
 <2>2. LiveRow(u) BY <2>1, Typing, RowTypes DEF Live, Base, Accounted, LiveRow
 <2>7. tk \in {"none", "held", "late"} BY <2>2 DEF Token, LiveRow
 <2> HIDE DEF u, tk
 <2>3. s \in UserRow /\ s.st = user[u].st /\ s.email = user[u].email /\ s.reset = user[u].reset /\ s.pend = user[u].pend /\ s.pcode = user[u].pcode /\ s.session = user[u].session
       /\ s.deleted = user[u].deleted /\ s.due = user[u].due /\ s.pass = user[u].pass /\ s.id = user[u].id /\ s.verified = TRUE /\ s.act = 0 /\ s.token \in {"none", "held", "late"}
   BY <1>1, <2>1, <2>2, <2>7, Typing DEF UserRow, LiveRow
 <2> HIDE DEF s
 <2>4. Edited(q, u, s) BY <1>1, <2>1, <2>2, <2>3 DEF Edited, Readdressed, Restorers, Revokers, LiveRow
 <2> QED BY <2>1, <2>3, <2>4, OneMoves DEF UserMove
<1> QED BY <1>2, <1>3

\* What ResendCode does to the accounts.
LEMMA ResendCodeUsers ==
  ASSUME Base, NEW q \in Calls, ResendCode(q)
  PROVE  UsersMove(q)
<1>1. call[q].pc = "new" /\ Does(q).op \in {"resend"} BY Where, CallTypes DEF Holds, Over
<1> DEFINE u == Holder(Does(q).email)
           s == [user[u] EXCEPT !.act = codes + 1]
<1>2. CASE user' = user BY <1>2, NoneMoves
<1>3. CASE user' # user
 <2>1. user' = [user EXCEPT ![u] = s] /\ u \in Users /\ Live(u)
   BY <1>1, <1>3, Typing, HolderIs DEF ResendCode, Set, Ends, Moves, Live, Restored, Changed, Unparked, With
 <2>2. LiveRow(u) BY <2>1, Typing, RowTypes DEF Live, Base, Accounted, LiveRow
 <2> HIDE DEF u
 <2>3. s \in UserRow /\ s.st = user[u].st /\ s.email = user[u].email /\ s.verified = user[u].verified /\ s.reset = user[u].reset /\ s.pend = user[u].pend /\ s.pcode = user[u].pcode
       /\ s.session = user[u].session /\ s.token = user[u].token /\ s.deleted = user[u].deleted /\ s.due = user[u].due /\ s.pass = user[u].pass /\ s.id = user[u].id /\ s.act = codes + 1
   BY <1>1, <2>1, <2>2, Typing DEF UserRow, Token, LiveRow
 <2> HIDE DEF s
 <2>4. Edited(q, u, s) BY <1>1, <2>1, <2>2, <2>3 DEF Edited, Readdressed, Restorers, Revokers, LiveRow
 <2> QED BY <2>1, <2>3, <2>4, OneMoves DEF UserMove
<1> QED BY <1>2, <1>3

\* What LostPassword does to the accounts.
LEMMA LostPasswordUsers ==
  ASSUME Base, NEW q \in Calls, LostPassword(q)
  PROVE  UsersMove(q)
<1>1. call[q].pc = "new" /\ Does(q).op \in {"lostPassword"} BY Where, CallTypes DEF Holds, Over
<1> DEFINE u == Holder(Does(q).email)
           s == [user[u] EXCEPT !.reset = codes + 1]
<1>2. CASE user' = user BY <1>2, NoneMoves
<1>3. CASE user' # user
 <2>1. user' = [user EXCEPT ![u] = s] /\ u \in Users /\ Live(u) /\ codes' = codes + 1 /\ u = Holder(Does(q).email)
   BY <1>1, <1>3, Typing, HolderIs DEF LostPassword, Set, Ends, Moves, Live, Restored, Changed, Unparked
 <2>2. LiveRow(u) BY <2>1, Typing, RowTypes DEF Live, Base, Accounted, LiveRow
 <2> HIDE DEF u
 <2>3. s \in UserRow /\ s.st = user[u].st /\ s.email = user[u].email /\ s.verified = user[u].verified /\ s.act = user[u].act /\ s.pend = user[u].pend /\ s.pcode = user[u].pcode
       /\ s.session = user[u].session /\ s.token = user[u].token /\ s.deleted = user[u].deleted /\ s.due = user[u].due /\ s.pass = user[u].pass /\ s.id = user[u].id /\ s.reset = codes + 1
   BY <1>1, <2>1, <2>2, Typing DEF UserRow, Token, LiveRow
 <2> HIDE DEF s
 <2>4. Edited(q, u, s) BY <1>1, <2>1, <2>2, <2>3 DEF Edited, Readdressed, Restorers, Revokers, LiveRow
 <2> QED BY <2>1, <2>3, <2>4, OneMoves DEF UserMove
<1> QED BY <1>2, <1>3

\* What Restore does to the accounts.
LEMMA RestoreUsers ==
  ASSUME Base, NEW q \in Calls, Restore(q)
  PROVE  UsersMove(q)
<1>1. call[q].pc = "restore" /\ call[q].user \in Users BY Where, CallTypes, Named DEF Holds, Over
<1> DEFINE u == call[q].user
           s == [user[u] EXCEPT !.deleted = FALSE, !.due = "none"]
<1>2. CASE user' = user BY <1>2, NoneMoves
<1>3. CASE user' # user
 <2>1. user' = [user EXCEPT ![u] = s] /\ u \in Users /\ Live(u) /\ Does(q).op = "login"
   BY <1>1, <1>3, Typing, CallTypes DEF Restore, Set, Ends, Moves, Live, Restored, Changed, Unparked, InPlace
 <2>2. LiveRow(u) BY <2>1, Typing, RowTypes DEF Live, Base, Accounted, LiveRow
 <2> HIDE DEF u
 <2>3. s \in UserRow /\ s.st = user[u].st /\ s.email = user[u].email /\ s.verified = user[u].verified /\ s.act = user[u].act /\ s.reset = user[u].reset /\ s.pend = user[u].pend
       /\ s.pcode = user[u].pcode /\ s.session = user[u].session /\ s.token = user[u].token /\ s.pass = user[u].pass /\ s.id = user[u].id /\ s.deleted = FALSE /\ s.due = "none"
   BY <1>1, <2>1, <2>2, Typing DEF UserRow, Token, LiveRow
 <2> HIDE DEF s
 <2>4. Edited(q, u, s) BY <1>1, <2>1, <2>2, <2>3 DEF Edited, Readdressed, Restorers, Revokers, LiveRow
 <2> QED BY <2>1, <2>3, <2>4, OneMoves DEF UserMove
<1> QED BY <1>2, <1>3

\* What CancelDeletion does to the accounts.
LEMMA CancelDeletionUsers ==
  ASSUME Base, NEW q \in Calls, CancelDeletion(q)
  PROVE  UsersMove(q)
<1>1. call[q].pc = "cancel" /\ call[q].user \in Users BY Where, CallTypes, Named DEF Holds, Over
<1> DEFINE u == call[q].user
           s == [user[u] EXCEPT !.deleted = FALSE, !.due = "none"]
<1>2. CASE user' = user BY <1>2, NoneMoves
<1>3. CASE user' # user
 <2>1. user' = [user EXCEPT ![u] = s] /\ u \in Users /\ Live(u) /\ Does(q).op = "cancelDeletion"
   BY <1>1, <1>3, Typing, CallTypes DEF CancelDeletion, Set, Ends, Moves, Live, Restored, Changed, Unparked, InPlace
 <2>2. LiveRow(u) BY <2>1, Typing, RowTypes DEF Live, Base, Accounted, LiveRow
 <2> HIDE DEF u
 <2>3. s \in UserRow /\ s.st = user[u].st /\ s.email = user[u].email /\ s.verified = user[u].verified /\ s.act = user[u].act /\ s.reset = user[u].reset /\ s.pend = user[u].pend
       /\ s.pcode = user[u].pcode /\ s.session = user[u].session /\ s.token = user[u].token /\ s.pass = user[u].pass /\ s.id = user[u].id /\ s.deleted = FALSE /\ s.due = "none"
   BY <1>1, <2>1, <2>2, Typing DEF UserRow, Token, LiveRow
 <2> HIDE DEF s
 <2>4. Edited(q, u, s) BY <1>1, <2>1, <2>2, <2>3 DEF Edited, Readdressed, Restorers, Revokers, LiveRow
 <2> QED BY <2>1, <2>3, <2>4, OneMoves DEF UserMove
<1> QED BY <1>2, <1>3

\* What Logout does to the accounts.
LEMMA LogoutUsers ==
  ASSUME Base, NEW q \in Calls, Logout(q)
  PROVE  UsersMove(q)
<1>1. call[q].pc = "new" /\ Does(q).op \in {"logout"} BY Where, CallTypes DEF Holds, Over
<1> DEFINE u == Does(q).who
           s == [user[u] EXCEPT !.session = FALSE]
<1>2. CASE user' = user BY <1>2, NoneMoves
<1>3. CASE user' # user
 <2>1. user' = [user EXCEPT ![u] = s] /\ u \in Users /\ Live(u)
   BY <1>1, <1>3, Typing DEF Logout, Set, Ends, Moves, Live, Restored, Changed, Unparked
 <2>2. LiveRow(u) BY <2>1, Typing, RowTypes DEF Live, Base, Accounted, LiveRow
 <2> HIDE DEF u
 <2>3. s \in UserRow /\ s.st = user[u].st /\ s.email = user[u].email /\ s.verified = user[u].verified /\ s.act = user[u].act /\ s.reset = user[u].reset /\ s.pend = user[u].pend
       /\ s.pcode = user[u].pcode /\ s.token = user[u].token /\ s.deleted = user[u].deleted /\ s.due = user[u].due /\ s.pass = user[u].pass /\ s.id = user[u].id /\ s.session = FALSE
   BY <1>1, <2>1, <2>2, Typing DEF UserRow, Token, LiveRow
 <2> HIDE DEF s
 <2>4. Edited(q, u, s) BY <1>1, <2>1, <2>2, <2>3 DEF Edited, Readdressed, Restorers, Revokers, LiveRow
 <2> QED BY <2>1, <2>3, <2>4, OneMoves DEF UserMove
<1> QED BY <1>2, <1>3

\* What ExpireReset does to the accounts.
LEMMA ExpireResetUsers ==
  ASSUME Base, NEW q \in Calls, ExpireReset(q)
  PROVE  UsersMove(q)
<1>1. call[q].pc = "expire" /\ call[q].user \in Users BY Where, CallTypes, Named DEF Holds, Over
<1> DEFINE u == call[q].user
           s == [user[u] EXCEPT !.reset = 0]
<1>2. CASE user' = user BY <1>2, NoneMoves
<1>3. CASE user' # user
 <2>1. user' = [user EXCEPT ![u] = s] /\ u \in Users /\ Live(u)
   BY <1>1, <1>3, Typing DEF ExpireReset, Set, Ends, Moves, Live, Restored, Changed, Unparked
 <2>2. LiveRow(u) BY <2>1, Typing, RowTypes DEF Live, Base, Accounted, LiveRow
 <2> HIDE DEF u
 <2>3. s \in UserRow /\ s.st = user[u].st /\ s.email = user[u].email /\ s.verified = user[u].verified /\ s.act = user[u].act /\ s.pend = user[u].pend /\ s.pcode = user[u].pcode
       /\ s.session = user[u].session /\ s.token = user[u].token /\ s.deleted = user[u].deleted /\ s.due = user[u].due /\ s.pass = user[u].pass /\ s.id = user[u].id /\ s.reset = 0
   BY <1>1, <2>1, <2>2, Typing DEF UserRow, Token, LiveRow
 <2> HIDE DEF s
 <2>4. Edited(q, u, s) BY <1>1, <2>1, <2>2, <2>3 DEF Edited, Readdressed, Restorers, Revokers, LiveRow
 <2> QED BY <2>1, <2>3, <2>4, OneMoves DEF UserMove
<1> QED BY <1>2, <1>3

\* What WriteReset does to the accounts.
LEMMA WriteResetUsers ==
  ASSUME Base, NEW q \in Calls, WriteReset(q)
  PROVE  UsersMove(q)
<1>1. call[q].pc = "reset" /\ call[q].user \in Users BY Where, CallTypes, Named DEF Holds, Over
<1> DEFINE u == call[q].user
           s == [user[u] EXCEPT !.pass = TRUE, !.reset = 0]
<1>2. CASE user' = user BY <1>2, NoneMoves
<1>3. CASE user' # user
 <2>1. user' = [user EXCEPT ![u] = s] /\ u \in Users /\ Live(u)
   BY <1>1, <1>3, Typing DEF WriteReset, Set, Ends, Moves, Live, Restored, Changed, Unparked
 <2>2. LiveRow(u) BY <2>1, Typing, RowTypes DEF Live, Base, Accounted, LiveRow
 <2> HIDE DEF u
 <2>3. s \in UserRow /\ s.st = user[u].st /\ s.email = user[u].email /\ s.verified = user[u].verified /\ s.act = user[u].act /\ s.pend = user[u].pend /\ s.pcode = user[u].pcode
       /\ s.session = user[u].session /\ s.token = user[u].token /\ s.deleted = user[u].deleted /\ s.due = user[u].due /\ s.id = user[u].id /\ s.pass = TRUE /\ s.reset = 0
   BY <1>1, <2>1, <2>2, Typing DEF UserRow, Token, LiveRow
 <2> HIDE DEF s
 <2>4. Edited(q, u, s) BY <1>1, <2>1, <2>2, <2>3 DEF Edited, Readdressed, Restorers, Revokers, LiveRow
 <2> QED BY <2>1, <2>3, <2>4, OneMoves DEF UserMove
<1> QED BY <1>2, <1>3

\* What ChangePassword does to the accounts.
LEMMA ChangePasswordUsers ==
  ASSUME Base, NEW q \in Calls, ChangePassword(q)
  PROVE  UsersMove(q)
<1>1. call[q].pc = "new" /\ Does(q).op \in {"changePassword"} BY Where, CallTypes DEF Holds, Over
<1> DEFINE u == Does(q).who
           s == [user[u] EXCEPT !.pass = TRUE]
<1>2. CASE user' = user BY <1>2, NoneMoves
<1>3. CASE user' # user
 <2>1. user' = [user EXCEPT ![u] = s] /\ u \in Users /\ Live(u)
   BY <1>1, <1>3, Typing DEF ChangePassword, Set, Ends, Moves, Live, Restored, Changed, Unparked
 <2>2. LiveRow(u) BY <2>1, Typing, RowTypes DEF Live, Base, Accounted, LiveRow
 <2> HIDE DEF u
 <2>3. s \in UserRow /\ s.st = user[u].st /\ s.email = user[u].email /\ s.verified = user[u].verified /\ s.act = user[u].act /\ s.reset = user[u].reset /\ s.pend = user[u].pend
       /\ s.pcode = user[u].pcode /\ s.session = user[u].session /\ s.token = user[u].token /\ s.deleted = user[u].deleted /\ s.due = user[u].due /\ s.id = user[u].id /\ s.pass = TRUE
   BY <1>1, <2>1, <2>2, Typing DEF UserRow, Token, LiveRow
 <2> HIDE DEF s
 <2>4. Edited(q, u, s) BY <1>1, <2>1, <2>2, <2>3 DEF Edited, Readdressed, Restorers, Revokers, LiveRow
 <2> QED BY <2>1, <2>3, <2>4, OneMoves DEF UserMove
<1> QED BY <1>2, <1>3

\* What Connect does to the accounts.
LEMMA ConnectUsers ==
  ASSUME Base, NEW q \in Calls, Connect(q)
  PROVE  UsersMove(q)
<1>1. call[q].pc = "link" /\ call[q].user \in Users BY Where, CallTypes, Named DEF Holds, Over
<1> DEFINE u == call[q].user
           s == [user[u] EXCEPT !.id = Does(q).email]
<1>2. CASE user' = user BY <1>2, NoneMoves
<1>3. CASE user' # user
 <2>1. user' = [user EXCEPT ![u] = s] /\ u \in Users /\ Live(u)
   BY <1>1, <1>3, Typing DEF Connect, Set, Ends, Moves, Live, Restored, Changed, Unparked
 <2>2. LiveRow(u) BY <2>1, Typing, RowTypes DEF Live, Base, Accounted, LiveRow
 <2> HIDE DEF u
 <2>3. s \in UserRow /\ s.st = user[u].st /\ s.email = user[u].email /\ s.verified = user[u].verified /\ s.act = user[u].act /\ s.reset = user[u].reset /\ s.pend = user[u].pend
       /\ s.pcode = user[u].pcode /\ s.session = user[u].session /\ s.token = user[u].token /\ s.deleted = user[u].deleted /\ s.due = user[u].due /\ s.pass = user[u].pass /\ s.id = Does(q).email
   BY <1>1, <2>1, <2>2, Typing DEF UserRow, Token, LiveRow
 <2> HIDE DEF s
 <2>4. Edited(q, u, s) BY <1>1, <2>1, <2>2, <2>3 DEF Edited, Readdressed, Restorers, Revokers, LiveRow
 <2> QED BY <2>1, <2>3, <2>4, OneMoves DEF UserMove
<1> QED BY <1>2, <1>3

\* What Disconnect does to the accounts.
LEMMA DisconnectUsers ==
  ASSUME Base, NEW q \in Calls, Disconnect(q)
  PROVE  UsersMove(q)
<1>1. call[q].pc = "new" /\ Does(q).op \in {"disconnect"} BY Where, CallTypes DEF Holds, Over
<1> DEFINE u == Does(q).who
           s == [user[u] EXCEPT !.id = None]
<1>2. CASE user' = user BY <1>2, NoneMoves
<1>3. CASE user' # user
 <2>1. user' = [user EXCEPT ![u] = s] /\ u \in Users /\ Live(u)
   BY <1>1, <1>3, Typing DEF Disconnect, Set, Ends, Moves, Live, Restored, Changed, Unparked
 <2>2. LiveRow(u) BY <2>1, Typing, RowTypes DEF Live, Base, Accounted, LiveRow
 <2> HIDE DEF u
 <2>3. s \in UserRow /\ s.st = user[u].st /\ s.email = user[u].email /\ s.verified = user[u].verified /\ s.act = user[u].act /\ s.reset = user[u].reset /\ s.pend = user[u].pend
       /\ s.pcode = user[u].pcode /\ s.session = user[u].session /\ s.token = user[u].token /\ s.deleted = user[u].deleted /\ s.due = user[u].due /\ s.pass = user[u].pass /\ s.id = None
   BY <1>1, <2>1, <2>2, Typing DEF UserRow, Token, LiveRow
 <2> HIDE DEF s
 <2>4. Edited(q, u, s) BY <1>1, <2>1, <2>2, <2>3 DEF Edited, Readdressed, Restorers, Revokers, LiveRow
 <2> QED BY <2>1, <2>3, <2>4, OneMoves DEF UserMove
<1> QED BY <1>2, <1>3

\* What ParkChange does to the accounts.
LEMMA ParkChangeUsers ==
  ASSUME Base, NEW q \in Calls, ParkChange(q)
  PROVE  UsersMove(q)
<1>1. call[q].pc = "pend" /\ call[q].user \in Users BY Where, CallTypes, Named DEF Holds, Over
<1> DEFINE u == call[q].user
           s == [user[u] EXCEPT !.pend = Does(q).email, !.pcode = codes + 1]
<1>2. CASE user' = user BY <1>2, NoneMoves
<1>3. CASE user' # user
 <2>1. user' = [user EXCEPT ![u] = s] /\ u \in Users /\ Live(u)
   BY <1>1, <1>3, Typing DEF ParkChange, Set, Ends, Moves, Live, Restored, Changed, Unparked
 <2>2. LiveRow(u) BY <2>1, Typing, RowTypes DEF Live, Base, Accounted, LiveRow
 <2> HIDE DEF u
 <2>3. s \in UserRow /\ s.st = user[u].st /\ s.email = user[u].email /\ s.verified = user[u].verified /\ s.act = user[u].act /\ s.reset = user[u].reset /\ s.session = user[u].session
       /\ s.token = user[u].token /\ s.deleted = user[u].deleted /\ s.due = user[u].due /\ s.pass = user[u].pass /\ s.id = user[u].id /\ s.pend = Does(q).email /\ s.pcode = codes + 1
   BY <1>1, <2>1, <2>2, Typing DEF UserRow, Token, LiveRow
 <2> HIDE DEF s
 <2>4. Edited(q, u, s) BY <1>1, <2>1, <2>2, <2>3 DEF Edited, Readdressed, Restorers, Revokers, LiveRow
 <2> QED BY <2>1, <2>3, <2>4, OneMoves DEF UserMove
<1> QED BY <1>2, <1>3

\* What ClearChange does to the accounts.
LEMMA ClearChangeUsers ==
  ASSUME Base, NEW q \in Calls, ClearChange(q)
  PROVE  UsersMove(q)
<1>1. call[q].pc = "clear" /\ call[q].user \in Users BY Where, CallTypes, Named DEF Holds, Over
<1> DEFINE u == call[q].user
           s == [user[u] EXCEPT !.pend = None, !.pcode = 0]
<1>2. CASE user' = user BY <1>2, NoneMoves
<1>3. CASE user' # user
 <2>1. user' = [user EXCEPT ![u] = s] /\ u \in Users /\ Live(u)
   BY <1>1, <1>3, Typing DEF ClearChange, Set, Ends, Moves, Live, Restored, Changed, Unparked
 <2>2. LiveRow(u) BY <2>1, Typing, RowTypes DEF Live, Base, Accounted, LiveRow
 <2> HIDE DEF u
 <2>3. s \in UserRow /\ s.st = user[u].st /\ s.email = user[u].email /\ s.verified = user[u].verified /\ s.act = user[u].act /\ s.reset = user[u].reset /\ s.session = user[u].session
       /\ s.token = user[u].token /\ s.deleted = user[u].deleted /\ s.due = user[u].due /\ s.pass = user[u].pass /\ s.id = user[u].id /\ s.pend = None /\ s.pcode = 0
   BY <1>1, <2>1, <2>2, Typing DEF UserRow, Token, LiveRow
 <2> HIDE DEF s
 <2>4. Edited(q, u, s) BY <1>1, <2>1, <2>2, <2>3 DEF Edited, Readdressed, Restorers, Revokers, LiveRow
 <2> QED BY <2>1, <2>3, <2>4, OneMoves DEF UserMove
<1> QED BY <1>2, <1>3

\* What ChangeAddress does to the accounts.
LEMMA ChangeAddressUsers ==
  ASSUME Base, NEW q \in Calls, ChangeAddress(q)
  PROVE  UsersMove(q)
<1>1. call[q].pc = "change" /\ call[q].user \in Users BY Where, CallTypes, Named DEF Holds, Over
<1> DEFINE u == call[q].user
           s == [[user[u] EXCEPT !.pend = None, !.pcode = 0] EXCEPT !.email = call[q].to, !.verified = TRUE, !.session = FALSE]
<1>2. CASE user' = user BY <1>2, NoneMoves
<1>3. CASE user' # user
 <2>0. Ends(q, "change", "changed") /\ Live(call[q].user) /\ call[q].to \in Emails /\ Does(q).op = "confirmChange" /\ With(call[q].to) \subseteq {call[q].user}
   BY <1>1, <1>3, CallTypes DEF ChangeAddress, InPlace, Holds
 <2>9. call'[q].end = "changed" BY <2>0, EndsIs
 <2>1. user' = [user EXCEPT ![u] = s] /\ u \in Users /\ Live(u) /\ With(call[q].to) \subseteq {u} /\ call'[q].end = "changed" /\ u = call[q].user /\ call[q].to \in Emails /\ Does(q).op = "confirmChange"
   BY <1>1, <1>3, Typing, <2>0, <2>9 DEF ChangeAddress, Set, Ends, Moves, Live, Restored, Changed, Unparked
 <2>2. LiveRow(u) BY <2>1, Typing, RowTypes DEF Live, Base, Accounted, LiveRow
 <2> HIDE DEF u
 <2>3. s \in UserRow /\ s.st = user[u].st /\ s.act = user[u].act /\ s.reset = user[u].reset /\ s.token = user[u].token /\ s.deleted = user[u].deleted /\ s.due = user[u].due
       /\ s.pass = user[u].pass /\ s.id = user[u].id /\ s.email = call[q].to /\ s.verified = TRUE /\ s.session = FALSE /\ s.pend = None /\ s.pcode = 0
   BY <1>1, <2>1, <2>2, Typing DEF UserRow, Token, LiveRow
 <2> HIDE DEF s
 <2>4. Edited(q, u, s) BY <1>1, <2>1, <2>2, <2>3 DEF Edited, Readdressed, Restorers, Revokers, LiveRow
 <2> QED BY <2>1, <2>3, <2>4, OneMoves DEF UserMove
<1> QED BY <1>2, <1>3

\* What Schedule does to the accounts.
LEMMA ScheduleUsers ==
  ASSUME Base, NEW q \in Calls, Schedule(q)
  PROVE  UsersMove(q)
<1>1. call[q].pc = "schedule" /\ call[q].user \in Users BY Where, CallTypes, Named DEF Holds, Over
<1> DEFINE u == call[q].user
           s == [user[u] EXCEPT !.deleted = TRUE, !.due = "set", !.session = FALSE]
<1>2. CASE user' = user BY <1>2, NoneMoves
<1>3. CASE user' # user
 <2>1. user' = [user EXCEPT ![u] = s] /\ u \in Users /\ Live(u) /\ Does(q).op = "requestDeletion"
   BY <1>1, <1>3, Typing, CallTypes DEF Schedule, Set, Ends, Moves, Live, Restored, Changed, Unparked, InPlace
 <2>2. LiveRow(u) BY <2>1, Typing, RowTypes DEF Live, Base, Accounted, LiveRow
 <2> HIDE DEF u
 <2>3. s \in UserRow /\ s.st = user[u].st /\ s.email = user[u].email /\ s.verified = user[u].verified /\ s.act = user[u].act /\ s.reset = user[u].reset /\ s.pend = user[u].pend
       /\ s.pcode = user[u].pcode /\ s.token = user[u].token /\ s.pass = user[u].pass /\ s.id = user[u].id /\ s.deleted = TRUE /\ s.due = "set" /\ s.session = FALSE
   BY <1>1, <2>1, <2>2, Typing DEF UserRow, Token, LiveRow
 <2> HIDE DEF s
 <2>4. Edited(q, u, s) BY <1>1, <2>1, <2>2, <2>3 DEF Edited, Readdressed, Restorers, Revokers, LiveRow
 <2> QED BY <2>1, <2>3, <2>4, OneMoves DEF UserMove
<1> QED BY <1>2, <1>3

\* What AdminDelete does to the accounts.
LEMMA AdminDeleteUsers ==
  ASSUME Base, NEW q \in Calls, AdminDelete(q)
  PROVE  UsersMove(q)
<1>1. call[q].pc = "new" /\ Does(q).op \in {"adminDelete"} BY Where, CallTypes DEF Holds, Over
<1> DEFINE u == Does(q).who
           s == [user[u] EXCEPT !.deleted = TRUE]
<1>2. CASE user' = user BY <1>2, NoneMoves
<1>3. CASE user' # user
 <2>1. user' = [user EXCEPT ![u] = s] /\ u \in Users /\ Live(u)
   BY <1>1, <1>3, Typing DEF AdminDelete, Set, Ends, Moves, Live, Restored, Changed, Unparked
 <2>2. LiveRow(u) BY <2>1, Typing, RowTypes DEF Live, Base, Accounted, LiveRow
 <2> HIDE DEF u
 <2>3. s \in UserRow /\ s.st = user[u].st /\ s.email = user[u].email /\ s.verified = user[u].verified /\ s.act = user[u].act /\ s.reset = user[u].reset /\ s.pend = user[u].pend
       /\ s.pcode = user[u].pcode /\ s.session = user[u].session /\ s.token = user[u].token /\ s.due = user[u].due /\ s.pass = user[u].pass /\ s.id = user[u].id /\ s.deleted = TRUE
   BY <1>1, <2>1, <2>2, Typing DEF UserRow, Token, LiveRow
 <2> HIDE DEF s
 <2>4. Edited(q, u, s) BY <1>1, <2>1, <2>2, <2>3 DEF Edited, Readdressed, Restorers, Revokers, LiveRow
 <2> QED BY <2>1, <2>3, <2>4, OneMoves DEF UserMove
<1> QED BY <1>2, <1>3

\* What AdminRestore does to the accounts.
LEMMA AdminRestoreUsers ==
  ASSUME Base, NEW q \in Calls, AdminRestore(q)
  PROVE  UsersMove(q)
<1>1. call[q].pc = "new" /\ Does(q).op \in {"adminRestore"} BY Where, CallTypes DEF Holds, Over
<1> DEFINE u == Does(q).who
           s == [user[u] EXCEPT !.deleted = FALSE]
<1>2. CASE user' = user BY <1>2, NoneMoves
<1>3. CASE user' # user
 <2>1. user' = [user EXCEPT ![u] = s] /\ u \in Users /\ Live(u)
   BY <1>1, <1>3, Typing DEF AdminRestore, Set, Ends, Moves, Live, Restored, Changed, Unparked
 <2>2. LiveRow(u) BY <2>1, Typing, RowTypes DEF Live, Base, Accounted, LiveRow
 <2> HIDE DEF u
 <2>3. s \in UserRow /\ s.st = user[u].st /\ s.email = user[u].email /\ s.verified = user[u].verified /\ s.act = user[u].act /\ s.reset = user[u].reset /\ s.pend = user[u].pend
       /\ s.pcode = user[u].pcode /\ s.session = user[u].session /\ s.token = user[u].token /\ s.due = user[u].due /\ s.pass = user[u].pass /\ s.id = user[u].id /\ s.deleted = FALSE
   BY <1>1, <2>1, <2>2, Typing DEF UserRow, Token, LiveRow
 <2> HIDE DEF s
 <2>4. Edited(q, u, s) BY <1>1, <2>1, <2>2, <2>3 DEF Edited, Readdressed, Restorers, Revokers, LiveRow
 <2> QED BY <2>1, <2>3, <2>4, OneMoves DEF UserMove
<1> QED BY <1>2, <1>3

\* What AdminVerify does to the accounts.
LEMMA AdminVerifyUsers ==
  ASSUME Base, NEW q \in Calls, AdminVerify(q)
  PROVE  UsersMove(q)
<1>1. call[q].pc = "new" /\ Does(q).op \in {"adminVerify"} BY Where, CallTypes DEF Holds, Over
<1> DEFINE u == Does(q).who
           s == [user[u] EXCEPT !.verified = TRUE]
<1>2. CASE user' = user BY <1>2, NoneMoves
<1>3. CASE user' # user
 <2>1. user' = [user EXCEPT ![u] = s] /\ u \in Users /\ Live(u) /\ call'[q].user = u
   BY <1>1, <1>3, Typing, AdminVerifyUser DEF AdminVerify, Set, Ends, Moves, Live, Restored, Changed, Unparked
 <2>2. LiveRow(u) BY <2>1, Typing, RowTypes DEF Live, Base, Accounted, LiveRow
 <2> HIDE DEF u
 <2>3. s \in UserRow /\ s.st = user[u].st /\ s.email = user[u].email /\ s.act = user[u].act /\ s.reset = user[u].reset /\ s.pend = user[u].pend /\ s.pcode = user[u].pcode
       /\ s.session = user[u].session /\ s.token = user[u].token /\ s.deleted = user[u].deleted /\ s.due = user[u].due /\ s.pass = user[u].pass /\ s.id = user[u].id /\ s.verified = TRUE
   BY <1>1, <2>1, <2>2, Typing DEF UserRow, Token, LiveRow
 <2> HIDE DEF s
 <2>4. Edited(q, u, s) BY <1>1, <2>1, <2>2, <2>3 DEF Edited, Readdressed, Restorers, Revokers, LiveRow
 <2> QED BY <2>1, <2>3, <2>4, OneMoves DEF UserMove
<1> QED BY <1>2, <1>3

\* What AdminEmail does to the accounts.
LEMMA AdminEmailUsers ==
  ASSUME Base, NEW q \in Calls, AdminEmail(q)
  PROVE  UsersMove(q)
<1>1. call[q].pc = "email" /\ call[q].user \in Users BY Where, CallTypes, Named DEF Holds, Over
<1> DEFINE u == call[q].user
           s == [user[u] EXCEPT !.email = Does(q).email]
<1>2. CASE user' = user BY <1>2, NoneMoves
<1>3. CASE user' # user
 <2>0. Ends(q, "email", "saved") /\ Live(call[q].user) /\ With(Does(q).email) \subseteq {call[q].user}
   BY <1>1, <1>3, CallTypes DEF AdminEmail, InPlace, Holds
 <2>9. call'[q].end = "saved" BY <2>0, EndsIs
 <2>1. user' = [user EXCEPT ![u] = s] /\ u \in Users /\ Live(u) /\ With(Does(q).email) \subseteq {u} /\ call'[q].end = "saved" /\ u = call[q].user
   BY <1>1, <1>3, Typing, <2>0, <2>9 DEF AdminEmail, Set, Ends, Moves, Live, Restored, Changed, Unparked
 <2>2. LiveRow(u) BY <2>1, Typing, RowTypes DEF Live, Base, Accounted, LiveRow
 <2> HIDE DEF u
 <2>3. s \in UserRow /\ s.st = user[u].st /\ s.verified = user[u].verified /\ s.act = user[u].act /\ s.reset = user[u].reset /\ s.pend = user[u].pend /\ s.pcode = user[u].pcode
       /\ s.session = user[u].session /\ s.token = user[u].token /\ s.deleted = user[u].deleted /\ s.due = user[u].due /\ s.pass = user[u].pass /\ s.id = user[u].id /\ s.email = Does(q).email
   BY <1>1, <2>1, <2>2, Typing DEF UserRow, Token, LiveRow
 <2> HIDE DEF s
 <2>4. Edited(q, u, s) BY <1>1, <2>1, <2>2, <2>3 DEF Edited, Readdressed, Restorers, Revokers, LiveRow
 <2> QED BY <2>1, <2>3, <2>4, OneMoves DEF UserMove
<1> QED BY <1>2, <1>3

\* What FindIdentity does to the accounts.
LEMMA FindIdentityUsers ==
  ASSUME Base, NEW q \in Calls, FindIdentity(q)
  PROVE  UsersMove(q)
<1> DEFINE e == Does(q).email
           known == Identified(e)
           found == IF known # {} THEN known ELSE With(e)
           to(u) == known = {} /\ u \in found /\ user[u].id = None
           s(u) == IF to(u) THEN [user[u] EXCEPT !.id = e] ELSE user[u]
<1>1. user' = [u \in Users |-> s(u)] BY DEF FindIdentity
<1>2. \A u \in Users : to(u) => Live(u) BY DEF With
<1>3. e \in Emails BY Typing
<1> HIDE DEF to, e
<1>4. ASSUME NEW u \in Users
      PROVE  UserMove(q, u, s(u))
 <2>1. user[u] \in UserRow /\ (user[u].pend # None => user[u].pcode # 0) BY RowTypes DEF Base, Accounted
 <2>2. CASE ~to(u) BY <2>1, <2>2 DEF UserMove
 <2>3. CASE to(u)
  <3> DEFINE t == [user[u] EXCEPT !.id = e]
  <3>1. t \in UserRow /\ \A f \in {0} : /\ t.st = user[u].st /\ t.email = user[u].email /\ t.verified = user[u].verified
           /\ t.reset = user[u].reset /\ t.pend = user[u].pend /\ t.pcode = user[u].pcode /\ t.session = user[u].session
           /\ t.deleted = user[u].deleted /\ t.due = user[u].due
    BY <1>3, <2>1 DEF UserRow
  <3>2. Live(u) BY <1>2, <2>3
  <3> HIDE DEF t
  <3>3. Edited(q, u, t) BY <2>1, <3>1, <3>2 DEF Edited, Live
  <3> QED BY <2>3, <3>1, <3>3 DEF UserMove, t
 <2> QED BY <2>2, <2>3
<1> QED BY <1>1, <1>4 DEF UsersMove, UserMove

\* The new account is the one its call names.
LEMMA CreateIs ==
  ASSUME Base, NEW q \in Calls, CreateUser(q), call'[q].pc \in {"team", "join"}
  PROVE  /\ call'[q].user \in Unused /\ With(Does(q).email) = {} /\ user[call'[q].user].st = "none" /\ call'[q].user \in Users
         /\ user' = [user EXCEPT ![call'[q].user] = NewUser(Does(q).op, Does(q).email, codes + 1)]
         /\ codes' = (IF Does(q).op = "register" THEN codes + 1 ELSE codes) /\ call[q].pc = "create"
<1> DEFINE u == CHOOSE v \in Unused : TRUE
<1>1. call \in [Calls -> CallRow] /\ call[q] \in CallRow BY Typing, CallTypes
<1>2. ~Ends(q, "create", "conflict") BY EndsIs
<1>3. /\ Unused # {} /\ codes' = (IF Does(q).op = "register" THEN codes + 1 ELSE codes) /\ With(Does(q).email) = {}
      /\ Moves(q, "create", [At(q, IF call[q].row = 0 THEN "team" ELSE "join", u) EXCEPT !.seen = codes + 1])
      /\ user' = [user EXCEPT ![u] = NewUser(Does(q).op, Does(q).email, codes + 1)]
  BY <1>2 DEF CreateUser, Set
<1>4. u \in Unused BY <1>3
<1> HIDE DEF u
<1>5. call'[q].user = u /\ call[q].pc = "create" BY <1>1, <1>3 DEF Moves, At, CallRow
<1> QED BY <1>3, <1>4, <1>5 DEF Unused

\* The row of a new account.
LEMMA NewUserIs ==
  ASSUME NEW op \in Ops, NEW e \in Emails, NEW c \in Nat
  PROVE  LET s == NewUser(op, e, c) IN
         /\ s \in UserRow /\ s.st = "live" /\ s.email = e /\ (s.verified <=> op # "register") /\ s.reset = 0
         /\ s.pend = None /\ ~s.deleted /\ s.due = "none" /\ ~s.session
<1> DEFINE v == op # "register"
           w == op # "oauth"
           a == IF op = "register" THEN c ELSE 0
           i == IF op = "oauth" THEN e ELSE None
           s == [NoUser EXCEPT !.st = "live", !.email = e, !.verified = v, !.pass = w, !.act = a, !.id = i]
<1>1. v \in BOOLEAN /\ w \in BOOLEAN /\ a \in Nat /\ i \in Emails \cup {None} OBVIOUS
<1>2. s = NewUser(op, e, c) /\ (v <=> op # "register") BY DEF NewUser
<1> HIDE DEF v, w, a, i
<1>3. /\ s \in UserRow /\ s.st = "live" /\ s.email = e /\ s.verified = v /\ s.reset = 0
      /\ s.pend = None /\ s.deleted = FALSE /\ s.due = "none" /\ s.session = FALSE
  BY <1>1 DEF NoUser, UserRow
<1> HIDE DEF s
<1> QED BY <1>1, <1>2, <1>3

\* What CreateUser does to the accounts.
LEMMA CreateUserUsers ==
  ASSUME Base, NEW q \in Calls, CreateUser(q)
  PROVE  UsersMove(q)
<1>1. CASE Ends(q, "create", "conflict")
 <2>1. user' = user
  <3>1. CASE With(Does(q).email) # {} \/ (Does(q).op = "oauth" /\ Identified(Does(q).email) # {})
    BY <3>1 DEF CreateUser
  <3>2. CASE ~(With(Does(q).email) # {} \/ (Does(q).op = "oauth" /\ Identified(Does(q).email) # {}))
   <4>1. call'[q].pc = "done" BY <1>1, EndsIs
   <4>2. call'[q].pc \in {"team", "join"}
    <5> DEFINE pc == IF call[q].row = 0 THEN "team" ELSE "join"
               x(u) == [At(q, pc, u) EXCEPT !.seen = codes + 1]
    <5>1. Moves(q, "create", x(CHOOSE v \in Unused : TRUE)) BY <3>2 DEF CreateUser
    <5>2. call \in [Calls -> CallRow] /\ call[q] \in CallRow BY Typing, CallTypes
    <5> QED BY <5>1, <5>2 DEF Moves, At, CallRow
   <4> QED BY <4>1, <4>2
  <3> QED BY <3>1, <3>2
 <2> QED BY <2>1, NoneMoves
<1>2. CASE ~Ends(q, "create", "conflict")
 <2>1. call'[q].pc \in {"team", "join"}
  <3> DEFINE pc == IF call[q].row = 0 THEN "team" ELSE "join"
             x(u) == [At(q, pc, u) EXCEPT !.seen = codes + 1]
  <3>1. Moves(q, "create", x(CHOOSE v \in Unused : TRUE)) BY <1>2 DEF CreateUser
  <3>2. call \in [Calls -> CallRow] /\ call[q] \in CallRow BY Typing, CallTypes
  <3> QED BY <3>1, <3>2 DEF Moves, At, CallRow
 <2> DEFINE u == call'[q].user
            s == NewUser(Does(q).op, Does(q).email, codes + 1)
 <2>2. /\ With(Does(q).email) = {} /\ user[u].st = "none" /\ u \in Users /\ user' = [user EXCEPT ![u] = s] /\ call[q].pc = "create"
   BY <2>1, CreateIs
 <2>3. s \in UserRow BY Typing, NewUserIs
 <2>4. Born(q, u, s) BY <2>1, <2>2 DEF Born
 <2> HIDE DEF u, s
 <2> QED BY <2>2, <2>3, <2>4, OneMoves DEF UserMove
<1> QED BY <1>1, <1>2

\* What DropUser does to the accounts.
LEMMA DropUserUsers ==
  ASSUME Base, NEW q \in Calls, DropUser(q)
  PROVE  UsersMove(q)
<1> DEFINE u == call[q].user
           s == [NoUser EXCEPT !.st = "gone"]
<1>1. call[q].pc = "dropUser" /\ u \in Users BY Where, CallTypes DEF Holds, Over
<1>2. CASE ~Live(u) BY <1>2, NoneMoves DEF DropUser
<1>3. CASE Live(u)
 <2>1. user' = [user EXCEPT ![u] = s] /\ Died(q, u, s) BY <1>1, <1>3 DEF DropUser, Set, Died
 <2>2. s \in UserRow BY DEF NoUser, UserRow
 <2> QED BY <1>1, <2>1, <2>2, OneMoves DEF UserMove
<1> QED BY <1>2, <1>3

\* Every step changes the accounts in one of these ways.
LEMMA StepUsers ==
  ASSUME Base, NEW q \in Calls, Step(q)
  PROVE  UsersMove(q)
<1>1. CASE FindAccount(q) \/ JoinTeam(q) \/ MakeTeam(q) \/ MakeOwner(q) \/ MakeQuotas(q) \/ SendRegisterMail(q) \/
            ReadActivation(q) \/ CountTry(q)
  BY <1>1, NoneMoves DEF FindAccount, JoinTeam, MakeTeam, MakeOwner, MakeQuotas, SendRegisterMail, ReadActivation, CountTry
<1>2. CASE ReadLogin(q) \/ ReadSession(q) \/ ReadReset(q) \/ AskChange(q) \/ ReadChange(q) \/ FindChange(q) \/
            AskConnect(q) \/ CheckEligible(q)
  BY <1>2, NoneMoves DEF ReadLogin, ReadSession, ReadReset, AskChange, ReadChange, FindChange, AskConnect, CheckEligible
<1>3. CASE ReadDeletion(q) \/ AdminAskEmail(q) \/ ListDeleted(q) \/ InspectTeam(q) \/ DropTeam(q) \/ DropRows(q) \/
            CheckInvite(q) \/ CreateInvite(q)
  BY <1>3, NoneMoves DEF ReadDeletion, AdminAskEmail, ListDeleted, InspectTeam, DropTeam, DropRows, CheckInvite, CreateInvite
<1>4. CASE FindMember(q) \/ RemoveMember(q) \/ ReadRoster(q) \/ WriteRoster(q) \/ Resolve(q) \/ Validate(q) \/
            Assign(q) \/ Record(q)
  BY <1>4, NoneMoves DEF FindMember, RemoveMember, ReadRoster, WriteRoster, Resolve, Validate, Assign, Record
<1>5. CASE Die(q) BY <1>5, NoneMoves DEF Die
<1>6. CASE FindIdentity(q) \/ CreateUser(q) \/ SignIn(q) \/ Verify(q) \/ ResendCode(q) \/ Restore(q) \/ Renew(q) \/
            Logout(q) \/ LostPassword(q) \/ ExpireReset(q) \/ WriteReset(q) \/ ChangePassword(q) \/ Connect(q) \/
            Disconnect(q) \/ ParkChange(q) \/ ClearChange(q) \/ ChangeAddress(q) \/ Schedule(q) \/ CancelDeletion(q) \/
            AdminDelete(q) \/ AdminRestore(q) \/ AdminVerify(q) \/ AdminEmail(q) \/ DropUser(q)
  BY <1>6, FindIdentityUsers, CreateUserUsers, SignInUsers, VerifyUsers, ResendCodeUsers, RestoreUsers, RenewUsers,
     LogoutUsers, LostPasswordUsers, ExpireResetUsers, WriteResetUsers, ChangePasswordUsers, ConnectUsers,
     DisconnectUsers, ParkChangeUsers, ClearChangeUsers, ChangeAddressUsers, ScheduleUsers, CancelDeletionUsers,
     AdminDeleteUsers, AdminRestoreUsers, AdminVerifyUsers, AdminEmailUsers, DropUserUsers
<1> QED BY <1>1, <1>2, <1>3, <1>4, <1>5, <1>6 DEF Step, SignUpStep, SessionStep, DeletionStep, TeamStep

--------------------
(* What a step does to the codes that were sent *)

OutboxMoves(q) ==
  /\ codes' \in Nat /\ codes' \in {codes, codes + 1} /\ mailed' \in [Emails -> SUBSET (1 .. codes')]
  /\ \A e \in Emails : mailed[e] \subseteq mailed'[e]

\* One code more is sent to an address.
LEMMA PostIs ==
  ASSUME Base, NEW q \in Calls, NEW e \in Emails, NEW c \in 1 .. codes', codes' \in {codes, codes + 1}, Post(e, c)
  PROVE  OutboxMoves(q)
<1>1. codes \in Nat /\ codes' \in Nat /\ codes' >= codes /\ mailed \in [Emails -> SUBSET (1 .. codes)] BY Typing
<1>2. \A f \in Emails : mailed[f] \in SUBSET (1 .. codes') BY <1>1
<1>3. mailed' = [mailed EXCEPT ![e] = mailed[e] \cup {c}] BY DEF Post
<1>4. mailed[e] \cup {c} \in SUBSET (1 .. codes') BY <1>2
<1>5. mailed' \in [Emails -> SUBSET (1 .. codes')] BY <1>1, <1>2, <1>3, <1>4
<1>6. \A f \in Emails : mailed[f] \subseteq mailed'[f] BY <1>1, <1>3
<1> QED BY <1>1, <1>5, <1>6 DEF OutboxMoves

\* Nothing is sent.
LEMMA NothingPosted ==
  ASSUME Base, NEW q \in Calls, mailed' = mailed, codes' \in {codes, codes + 1}
  PROVE  OutboxMoves(q)
<1>1. codes \in Nat /\ codes' \in Nat /\ codes' >= codes /\ mailed \in [Emails -> SUBSET (1 .. codes)] BY Typing
<1>2. \A f \in Emails : mailed[f] \in SUBSET (1 .. codes') BY <1>1
<1> QED BY <1>1, <1>2 DEF OutboxMoves

\* Codes only grow, and what was sent to an address stays sent.
LEMMA StepOutbox ==
  ASSUME Base, NEW q \in Calls, Step(q)
  PROVE  OutboxMoves(q)
<1>1. codes \in Nat /\ codes + 1 \in Nat /\ Does(q).email \in Emails BY Typing
<1>2. CASE CreateUser(q) BY <1>2, NothingPosted DEF CreateUser, outbox
<1>3. CASE SendRegisterMail(q)
 <2>1. call[q].seen \in 1 .. codes
  <3>1. call[q].pc = "mail" /\ InPlace(q, call[q]) /\ Holds(q, call[q], Len(member), codes) BY <1>3, Where, CallTypes
  <3> QED BY <1>1, <3>1 DEF InPlace, Holds, SignUps
 <2> QED BY <1>1, <1>3, <2>1, PostIs DEF SendRegisterMail
<1>4. CASE ResendCode(q) \/ LostPassword(q) \/ ParkChange(q)
 <2>1. UNCHANGED outbox \/ (codes' = codes + 1 /\ Post(Does(q).email, codes + 1))
   BY <1>4 DEF ResendCode, LostPassword, ParkChange
 <2>2. CASE UNCHANGED outbox BY <2>2, NothingPosted DEF outbox
 <2>3. CASE codes' = codes + 1 /\ Post(Does(q).email, codes + 1)
  <3>1. codes + 1 \in 1 .. codes' BY <1>1, <2>3
  <3> QED BY <1>1, <2>3, <3>1, PostIs
 <2> QED BY <2>1, <2>2, <2>3
<1>5. CASE FindAccount(q) \/ FindIdentity(q) \/ JoinTeam(q) \/ MakeTeam(q) \/ MakeOwner(q) \/ MakeQuotas(q) \/
            SignIn(q) \/ ReadActivation(q) \/ Verify(q) \/ CountTry(q) \/ ReadLogin(q) \/ Restore(q) \/ ReadSession(q) \/
            Renew(q)
  BY <1>5, NothingPosted DEF outbox, FindAccount, FindIdentity, JoinTeam, MakeTeam, MakeOwner, MakeQuotas, SignIn, ReadActivation, Verify, CountTry,
       ReadLogin, Restore, ReadSession, Renew
<1>6. CASE Logout(q) \/ ReadReset(q) \/ ExpireReset(q) \/ WriteReset(q) \/ ChangePassword(q) \/ AskChange(q) \/
            ReadChange(q) \/ ChangeAddress(q) \/ FindChange(q) \/ ClearChange(q) \/ AskConnect(q) \/ Connect(q) \/
            Disconnect(q) \/ CheckEligible(q)
  BY <1>6, NothingPosted DEF outbox, Logout, ReadReset, ExpireReset, WriteReset, ChangePassword, AskChange, ReadChange, ChangeAddress, FindChange,
       ClearChange, AskConnect, Connect, Disconnect, CheckEligible
<1>7. CASE Schedule(q) \/ ReadDeletion(q) \/ CancelDeletion(q) \/ AdminDelete(q) \/ AdminRestore(q) \/ AdminVerify(q) \/
            AdminAskEmail(q) \/ AdminEmail(q) \/ ListDeleted(q) \/ InspectTeam(q) \/ DropTeam(q) \/ DropRows(q) \/
            DropUser(q) \/ CheckInvite(q)
  BY <1>7, NothingPosted DEF outbox, Schedule, ReadDeletion, CancelDeletion, AdminDelete, AdminRestore, AdminVerify, AdminAskEmail, AdminEmail,
       ListDeleted, InspectTeam, DropTeam, DropRows, DropUser, CheckInvite
<1>8. CASE CreateInvite(q) \/ FindMember(q) \/ RemoveMember(q) \/ ReadRoster(q) \/ WriteRoster(q) \/ Resolve(q) \/
            Validate(q) \/ Assign(q) \/ Record(q) \/ Die(q)
  BY <1>8, NothingPosted DEF outbox, CreateInvite, FindMember, RemoveMember, ReadRoster, WriteRoster, Resolve, Validate, Assign, Record, Die
<1> QED BY <1>2, <1>3, <1>4, <1>5, <1>6, <1>7, <1>8 DEF Step, SignUpStep, SessionStep, DeletionStep, TeamStep

--------------------
(* What a step does to the teams and their members *)

Joined(q, i, n) ==
  /\ call[q].pc = "join" /\ call[q].row = i /\ member[i].status # "removed"
  /\ n.user = call[q].user /\ n.status = "active"
RowMove(q, i, n) ==
  /\ n \in MemberRow /\ n.team = member[i].team /\ n.email = member[i].email
  /\ \/ n.user = member[i].user /\ n.status = member[i].status
     \/ n.user = member[i].user /\ n.status = "removed" /\ Does(q).op \in {"remove", "cleanup"}
     \/ Joined(q, i, n)
Added(q, n) ==
  \/ call[q].pc = "owner" /\ n.team = call[q].user /\ n.user = call[q].user /\ n.email = None /\ n.status = "active"
  \/ call[q].pc = "invite" /\ n.user = None /\ n.email = Does(q).email /\ n.status = "pending"
MembersMove(q) ==
  /\ member' \in Seq(MemberRow)
  /\ \/ Len(member') = Len(member)
     \/ Len(member') = Len(member) + 1 /\ Added(q, member'[Len(member) + 1])
  /\ \A i \in 1 .. Len(member) : RowMove(q, i, member'[i])
  /\ Does(q).op = "handover" => member' = member
TeamRowMove(q, u) ==
  \/ team'[u].st = team[u].st
  \/ team'[u].st = "live" /\ call[q].pc = "team" /\ call[q].user = u /\ call'[q].pc = "owner"
  \/ /\ team'[u].st = "gone" /\ Does(q).op = "cleanup" /\ call[q].user = u
     /\ \A i \in OfTeam(u) : member'[i].status = "removed"
TeamsMove(q) == team' \in [Users -> TeamRow] /\ \A u \in Users : TeamRowMove(q, u)

\* No row changes.
LEMMA RowsStay ==
  ASSUME Base, NEW q \in Calls, member' = member
  PROVE  MembersMove(q)
<1>1. member \in Seq(MemberRow) /\ \A i \in 1 .. Len(member) : member[i] \in MemberRow BY Typing
<1> QED BY <1>1 DEF MembersMove, RowMove

\* Rows are changed where they are.
LEMMA RowsEdited ==
  ASSUME Base, NEW q \in Calls, Does(q).op # "handover", member' \in [1 .. Len(member) -> MemberRow],
         \A i \in 1 .. Len(member) : RowMove(q, i, member'[i])
  PROVE  MembersMove(q)
<1>1. Len(member) \in Nat BY Typing
<1>2. member' \in Seq(MemberRow) /\ Len(member') = Len(member) BY <1>1
<1> QED BY <1>2 DEF MembersMove

\* A row is added at the end.
LEMMA RowAdded ==
  ASSUME Base, NEW q \in Calls, Does(q).op # "handover", NEW n \in MemberRow, member' = Append(member, n), Added(q, n)
  PROVE  MembersMove(q) /\ Len(member') = Len(member) + 1 /\ member'[Len(member) + 1] = n
<1>1. member \in Seq(MemberRow) /\ Len(member) \in Nat /\ \A i \in 1 .. Len(member) : member[i] \in MemberRow
  BY Typing
<1>2. /\ member' \in Seq(MemberRow) /\ Len(member') = Len(member) + 1 /\ member'[Len(member) + 1] = n
      /\ \A i \in 1 .. Len(member) : member'[i] = member[i]
  BY <1>1
<1> QED BY <1>1, <1>2 DEF MembersMove, RowMove

\* Rows that are taken away.
LEMMA WithoutIs ==
  ASSUME Base, NEW q \in Calls, Does(q).op = "cleanup", NEW R, member' = Without(R)
  PROVE  MembersMove(q) /\ \A i \in 1 .. Len(member) : i \in R => member'[i].status = "removed"
<1>1. \A i \in 1 .. Len(member) : member[i] \in MemberRow BY Typing
<1> DEFINE n(i) == IF i \in R THEN [member[i] EXCEPT !.status = "removed"] ELSE member[i]
<1>2. member' = [i \in 1 .. Len(member) |-> n(i)] BY Typing DEF Without
<1>3. ASSUME NEW i \in 1 .. Len(member)
      PROVE  RowMove(q, i, n(i)) /\ n(i) \in MemberRow /\ (i \in R => n(i).status = "removed")
 <2>1. CASE i \in R BY <1>1, <1>3, <2>1 DEF RowMove, MemberRow
 <2>2. CASE i \notin R BY <1>1, <1>3, <2>2 DEF RowMove
 <2> QED BY <2>1, <2>2
<1> HIDE DEF n
<1>4. member' \in [1 .. Len(member) -> MemberRow] /\ \A i \in 1 .. Len(member) : member'[i] = n(i) BY <1>2, <1>3
<1> QED BY <1>3, <1>4, RowsEdited

\* One row is changed.
LEMMA OneRowIs ==
  ASSUME Base, NEW q \in Calls, Does(q).op # "handover", NEW i \in 1 .. Len(member), NEW n \in MemberRow,
         member' = [member EXCEPT ![i] = n], RowMove(q, i, n)
  PROVE  MembersMove(q) /\ member'[i] = n
<1>1. member \in Seq(MemberRow) /\ Len(member) \in Nat /\ \A j \in 1 .. Len(member) : member[j] \in MemberRow
  BY Typing
<1>2. /\ member' \in [1 .. Len(member) -> MemberRow] /\ member'[i] = n
      /\ \A j \in 1 .. Len(member) : j # i => member'[j] = member[j]
  BY <1>1
<1>3. \A j \in 1 .. Len(member) : RowMove(q, j, member'[j]) BY <1>1, <1>2 DEF RowMove
<1> QED BY <1>2, <1>3, RowsEdited

\* What JoinTeam does to the rows of members.
LEMMA JoinTeamMembers ==
  ASSUME Base, NEW q \in Calls, JoinTeam(q)
  PROVE  /\ MembersMove(q)
         /\ call'[q].pc # "done" \/ call'[q].end # "threw" => Joined(q, call[q].row, member'[call[q].row])
<1> DEFINE i == call[q].row
           n == [member[i] EXCEPT !.user = call[q].user, !.status = "active"]
<1>1. /\ call[q].pc = "join" /\ i \in 1 .. Len(member) /\ call[q].user \in Users /\ Does(q).op \in SignUps
      /\ member[i] \in MemberRow
 <2>1. call[q].pc = "join" /\ InPlace(q, call[q]) /\ Holds(q, call[q], Len(member), codes) BY Where, CallTypes
 <2>2. i \in 1 .. Len(member) /\ call[q].user \in Users /\ Does(q).op \in SignUps
   BY <2>1, Typing DEF InPlace, Holds, Over, Making
 <2> QED BY <2>1, <2>2, Typing
<1>2. CASE member[i].status = "removed"
 <2>1. member' = member /\ Ends(q, "join", "threw") BY <1>2 DEF JoinTeam
 <2> QED BY <2>1, RowsStay, EndsIs
<1>3. CASE member[i].status # "removed"
 <2>1. member' = [member EXCEPT ![i].user = call[q].user, ![i].status = "active"] BY <1>3 DEF JoinTeam
 <2>2. member \in Seq(MemberRow) BY Typing
 <2>3. member' = [member EXCEPT ![i] = n] BY <1>1, <2>1, <2>2 DEF MemberRow
 <2>4. n \in MemberRow /\ n.team = member[i].team /\ n.email = member[i].email /\ n.user = call[q].user /\ n.status = "active"
       /\ n.chat = member[i].chat
   BY <1>1 DEF MemberRow
 <2>5. Joined(q, i, n) BY <1>1, <1>3, <2>4 DEF Joined
 <2> HIDE DEF n
 <2>6. RowMove(q, i, n) BY <2>4, <2>5 DEF RowMove
 <2> QED BY <1>1, <2>3, <2>4, <2>5, <2>6, OneRowIs DEF SignUps
<1> QED BY <1>2, <1>3

\* What RemoveMember does to the rows of members.
LEMMA RemoveMemberMembers ==
  ASSUME Base, NEW q \in Calls, RemoveMember(q)
  PROVE  MembersMove(q)
<1> DEFINE i == call[q].row
           n == [member[i] EXCEPT !.status = "removed"]
<1>1. call[q].pc = "remove" /\ i \in 1 .. Len(member) /\ Does(q).op = "remove" /\ member[i] \in MemberRow
 <2>1. call[q].pc = "remove" /\ InPlace(q, call[q]) /\ Holds(q, call[q], Len(member), codes) BY Where, CallTypes
 <2>2. i \in 1 .. Len(member) /\ Does(q).op = "remove" BY <2>1, Typing DEF InPlace, Holds
 <2> QED BY <2>1, <2>2, Typing
<1>2. CASE member' = member BY <1>2, RowsStay
<1>3. CASE member' # member
 <2>1. member' = [member EXCEPT ![i].status = "removed"] BY <1>3 DEF RemoveMember
 <2>2. member' = [member EXCEPT ![i] = n] BY <1>1, <2>1, Typing DEF MemberRow
 <2>3. n \in MemberRow /\ n.team = member[i].team /\ n.email = member[i].email /\ n.user = member[i].user /\ n.status = "removed"
   BY <1>1 DEF MemberRow
 <2> HIDE DEF n
 <2>4. RowMove(q, i, n) BY <1>1, <2>3 DEF RowMove
 <2> QED BY <1>1, <2>2, <2>3, <2>4, OneRowIs
<1> QED BY <1>2, <1>3

\* What MakeOwner does to the rows of members.
LEMMA MakeOwnerMembers ==
  ASSUME Base, NEW q \in Calls, MakeOwner(q)
  PROVE  /\ MembersMove(q) /\ Len(member') = Len(member) + 1
         /\ member'[Len(member) + 1].user = call[q].user /\ member'[Len(member) + 1].status = "active"
         /\ member'[Len(member) + 1].email = None
<1> DEFINE b == Does(q).op # "adminCreate"
           n == Row(call[q].user, call[q].user, None, "active", b)
<1>1. /\ call[q].pc = "owner" /\ call[q].user \in Users /\ Does(q).op \in SignUps
  BY Where, CallTypes DEF InPlace, Holds, Over, Making
<1>2. b \in BOOLEAN OBVIOUS
<1>3. member' = Append(member, n) BY DEF MakeOwner
<1> HIDE DEF b
<1>4. n \in MemberRow /\ Added(q, n) /\ n.user = call[q].user /\ n.status = "active" /\ n.email = None
  BY <1>1, <1>2 DEF Row, MemberRow, Added
<1> HIDE DEF n
<1> QED BY <1>1, <1>3, <1>4, RowAdded DEF SignUps

\* What CreateInvite does to the rows of members.
LEMMA CreateInviteMembers ==
  ASSUME Base, NEW q \in Calls, CreateInvite(q)
  PROVE  MembersMove(q)
<1> DEFINE n == Row(call[q].user, None, Does(q).email, "pending", FALSE)
<1>1. /\ call[q].pc = "invite" /\ call[q].user \in Users /\ Does(q).op = "invite" /\ Does(q).email \in Emails
  BY Where, CallTypes, Typing DEF InPlace, Holds, Over
<1>2. CASE member' = member BY <1>2, RowsStay
<1>3. CASE member' # member
 <2>1. member' = Append(member, n) BY <1>3 DEF CreateInvite
 <2>2. n \in MemberRow /\ Added(q, n) BY <1>1 DEF Row, MemberRow, Added
 <2> HIDE DEF n
 <2> QED BY <1>1, <2>1, <2>2, RowAdded
<1> QED BY <1>2, <1>3

\* A roster changes flags only.
LEMMA WriteRosterMembers ==
  ASSUME Base, NEW q \in Calls, WriteRoster(q)
  PROVE  MembersMove(q)
<1>1. call[q].pc = "roster" /\ Does(q).op = "roster" BY Where, CallTypes DEF InPlace
<1>2. CASE member' = member BY <1>2, RowsStay
<1>3. CASE member' # member
 <2>1. member' = [i \in 1 .. Len(member) |-> Flagged(q, member[i])] BY <1>3, Typing DEF WriteRoster, teams
 <2>2. ASSUME NEW i \in 1 .. Len(member)
       PROVE  Flagged(q, member[i]) \in MemberRow /\ RowMove(q, i, Flagged(q, member[i]))
  <3> DEFINE m == member[i]
             b == call[q].code = 1
  <3>1. m \in MemberRow /\ b \in BOOLEAN BY <2>2, Typing
  <3>2. Flagged(q, m) \in {m, [m EXCEPT !.chat = TRUE], [m EXCEPT !.chat = b]} BY DEF Flagged
  <3> HIDE DEF b
  <3>3. ASSUME NEW n \in {m, [m EXCEPT !.chat = TRUE], [m EXCEPT !.chat = b]}
        PROVE  n \in MemberRow /\ RowMove(q, i, n)
    BY <1>1, <3>1, <3>3 DEF MemberRow, RowMove
  <3> QED BY <3>2, <3>3
 <2>3. member' \in [1 .. Len(member) -> MemberRow] /\ \A i \in 1 .. Len(member) : RowMove(q, i, member'[i])
   BY <2>1, <2>2
 <2> QED BY <1>1, <2>3, RowsEdited
<1> QED BY <1>2, <1>3

\* What the cleanup takes away.
LEMMA DropMembers ==
  ASSUME Base, NEW q \in Calls, DropTeam(q) \/ DropRows(q) \/ DropUser(q)
  PROVE  MembersMove(q)
<1>1. call[q].pc \in Dropping /\ Does(q).op = "cleanup"
 <2>1. call[q].pc \in Dropping BY Where DEF Dropping
 <2> QED BY <2>1, CallTypes DEF InPlace
<1>2. CASE member' = member BY <1>2, RowsStay
<1>3. CASE member' # member
 <2>1. \E R : member' = Without(R) BY <1>3 DEF DropTeam, DropRows, DropUser, teams
 <2> QED BY <1>1, <2>1, WithoutIs
<1> QED BY <1>2, <1>3

\* Every step moves the rows of members as MembersMove says.
LEMMA StepMembers ==
  ASSUME Base, NEW q \in Calls, Step(q)
  PROVE  MembersMove(q)
<1>1. CASE JoinTeam(q) \/ RemoveMember(q) \/ MakeOwner(q) \/ CreateInvite(q) \/ WriteRoster(q)
  BY <1>1, JoinTeamMembers, RemoveMemberMembers, MakeOwnerMembers, CreateInviteMembers, WriteRosterMembers
<1>2. CASE DropTeam(q) \/ DropRows(q) \/ DropUser(q) BY <1>2, DropMembers
<1>3. CASE FindAccount(q) \/ FindIdentity(q) \/ CreateUser(q) \/ MakeTeam(q) \/ MakeQuotas(q) \/ SendRegisterMail(q) \/
            SignIn(q) \/ ReadActivation(q) \/ Verify(q) \/ ResendCode(q) \/ CountTry(q) \/ ReadLogin(q) \/ Restore(q) \/
            ReadSession(q)
  BY <1>3, RowsStay DEF teams, FindAccount, FindIdentity, CreateUser, MakeTeam, MakeQuotas, SendRegisterMail, SignIn, ReadActivation, Verify,
       ResendCode, CountTry, ReadLogin, Restore, ReadSession
<1>4. CASE Renew(q) \/ Logout(q) \/ LostPassword(q) \/ ReadReset(q) \/ ExpireReset(q) \/ WriteReset(q) \/
            ChangePassword(q) \/ AskChange(q) \/ ParkChange(q) \/ ReadChange(q) \/ ChangeAddress(q) \/ FindChange(q) \/
            ClearChange(q) \/ AskConnect(q)
  BY <1>4, RowsStay DEF teams, Renew, Logout, LostPassword, ReadReset, ExpireReset, WriteReset, ChangePassword, AskChange, ParkChange,
       ReadChange, ChangeAddress, FindChange, ClearChange, AskConnect
<1>5. CASE Connect(q) \/ Disconnect(q) \/ CheckEligible(q) \/ Schedule(q) \/ ReadDeletion(q) \/ CancelDeletion(q) \/
            AdminDelete(q) \/ AdminRestore(q) \/ AdminVerify(q) \/ AdminAskEmail(q) \/ AdminEmail(q) \/ ListDeleted(q) \/
            InspectTeam(q) \/ CheckInvite(q)
  BY <1>5, RowsStay DEF teams, Connect, Disconnect, CheckEligible, Schedule, ReadDeletion, CancelDeletion, AdminDelete, AdminRestore,
       AdminVerify, AdminAskEmail, AdminEmail, ListDeleted, InspectTeam, CheckInvite
<1>6. CASE FindMember(q) \/ ReadRoster(q) \/ Resolve(q) \/ Validate(q) \/ Assign(q) \/ Record(q) \/ Die(q)
  BY <1>6, RowsStay DEF teams, FindMember, ReadRoster, Resolve, Validate, Assign, Record, Die
<1> QED BY <1>1, <1>2, <1>3, <1>4, <1>5, <1>6 DEF Step, SignUpStep, SessionStep, DeletionStep, TeamStep

--------------------
(* What a step does to the teams, and to the counts of wrong answers *)

\* No team changes.
LEMMA TeamsStay ==
  ASSUME Base, NEW q \in Calls, team' = team
  PROVE  TeamsMove(q)
  BY Typing DEF TeamsMove, TeamRowMove

\* One team changes, and is neither made nor taken away.
LEMMA TeamEdited ==
  ASSUME Base, NEW q \in Calls, NEW u \in Users, NEW t \in TeamRow, team' = [team EXCEPT ![u] = t],
         t.st = team[u].st \/ (t.st = "live" /\ call[q].pc = "team" /\ call[q].user = u /\ call'[q].pc = "owner")
  PROVE  TeamsMove(q)
<1>1. team \in [Users -> TeamRow] BY Typing
<1> QED BY <1>1 DEF TeamsMove, TeamRowMove

\* What MakeTeam does to the teams.
LEMMA MakeTeamTeams ==
  ASSUME Base, NEW q \in Calls, MakeTeam(q)
  PROVE  TeamsMove(q)
<1> DEFINE u == call[q].user
           d == IF Does(q).op = "adminCreate" THEN None ELSE NewTeam(u).default
           t == [NewTeam(u) EXCEPT !.default = d]
<1>1. call[q].pc = "team" /\ u \in Users BY Where, CallTypes DEF Holds, Over
<1>2. call'[q].pc = "owner" BY CallTypes, Typing DEF MakeTeam, Goes, Moves, CallRow
<1>3. team' = [team EXCEPT ![u] = t] BY DEF MakeTeam
<1>4. NewTeam(u) \in TeamRow /\ NewTeam(u).default = u /\ NewTeam(u).st = "live" BY <1>1 DEF NewTeam, NoTeam, TeamRow
<1>5. d \in Users \cup {None} BY <1>1, <1>4
<1> HIDE DEF d
<1>6. t \in TeamRow /\ t.st = "live" BY <1>4, <1>5 DEF TeamRow
<1>7. u = call[q].user OBVIOUS
<1> HIDE DEF u, t
<1> QED BY <1>1, <1>2, <1>3, <1>6, <1>7, TeamEdited

\* What MakeQuotas does to the teams.
LEMMA MakeQuotasTeams ==
  ASSUME Base, NEW q \in Calls, MakeQuotas(q)
  PROVE  TeamsMove(q)
<1> DEFINE u == call[q].user
           t == [team[u] EXCEPT !.quota = TRUE]
<1>1. u \in Users BY Where, CallTypes DEF Holds, Over
<1>2. team \in [Users -> TeamRow] /\ team[u] \in TeamRow BY <1>1, Typing
<1>3. team' = [team EXCEPT ![u] = t] BY <1>1, <1>2 DEF MakeQuotas, TeamRow
<1> HIDE DEF u
<1>4. t \in TeamRow /\ t.st = team[u].st BY <1>2 DEF TeamRow
<1> HIDE DEF t
<1> QED BY <1>1, <1>3, <1>4, TeamEdited

\* Saving the roster starts the rotation anew.
LEMMA WriteRosterTeams ==
  ASSUME Base, NEW q \in Calls, WriteRoster(q)
  PROVE  TeamsMove(q) /\ (call'[q].end = "saved" => team'[call[q].user].last = None)
<1> DEFINE u == call[q].user
           d == Default(q, u)
           t == [team[u] EXCEPT !.default = d, !.last = None]
<1>1. call[q].pc = "roster" /\ u \in Users /\ call[q].to \in Users \cup {None, "keep"}
  BY Where, CallTypes DEF Holds, Over
<1>2. team[u] \in TeamRow /\ team \in [Users -> TeamRow] BY <1>1, Typing
<1>3. d \in Users \cup {None} BY <1>1, <1>2 DEF Default, TeamRow
<1>4. CASE UNCHANGED teams /\ Ends(q, "roster", "threw") BY <1>4, TeamsStay, EndsIs DEF teams
<1>5. CASE team' = [team EXCEPT ![u] = Rostered(q, u)]
 <2>1. team' = [team EXCEPT ![u] = t] BY <1>5 DEF Rostered
 <2>2. u = call[q].user OBVIOUS
 <2> HIDE DEF u, d
 <2>3. t \in TeamRow /\ t.st = team[u].st /\ t.last = None BY <1>2, <1>3 DEF TeamRow
 <2> HIDE DEF t
 <2>4. team'[u] = t BY <1>1, <1>2, <2>1
 <2> QED BY <1>1, <2>1, <2>2, <2>3, <2>4, TeamEdited
<1> QED BY <1>4, <1>5 DEF WriteRoster

\* The agent who was assigned is the last one of a team there is.
LEMMA RecordTeams ==
  ASSUME Base, NEW q \in Calls, Record(q)
  PROVE  /\ TeamsMove(q) /\ call'[q].end = "assigned"
         /\ team[call[q].user].st = "live" => team'[call[q].user].last = call[q].to
<1> DEFINE u == call[q].user
           t == [team[u] EXCEPT !.last = call[q].to]
<1>0. call'[q].end = "assigned"
 <2>1. Ends(q, "record", "assigned") BY DEF Record
 <2> QED BY <2>1, EndsIs
<1>1. call[q].pc = "record" /\ u \in Users /\ call[q].to \in Users /\ call'[q].end = "assigned"
  BY <1>0, Where, CallTypes DEF Holds, Over
<1>2. team[u] \in TeamRow /\ team \in [Users -> TeamRow] BY <1>1, Typing
<1>3. CASE team[u].st # "live" BY <1>1, <1>3, TeamsStay DEF Record
<1>4. CASE team[u].st = "live"
 <2>1. team' = [team EXCEPT ![u] = t] BY <1>2, <1>4 DEF Record, TeamRow
 <2>2. t \in TeamRow /\ t.st = team[u].st /\ t.last = call[q].to BY <1>1, <1>2 DEF TeamRow
 <2>3. u = call[q].user OBVIOUS
 <2> HIDE DEF u, t
 <2>4. team'[u] = t BY <1>1, <1>2, <2>1
 <2> QED BY <1>1, <2>1, <2>2, <2>3, <2>4, TeamEdited
<1> QED BY <1>3, <1>4

\* A team that goes takes its rows along.
LEMMA DropTeams ==
  ASSUME Base, NEW q \in Calls, DropTeam(q) \/ DropUser(q)
  PROVE  TeamsMove(q)
<1> DEFINE u == call[q].user
           t == [team[u] EXCEPT !.st = "gone"]
<1>1. call[q].pc \in Dropping /\ u \in Users /\ Does(q).op = "cleanup"
  BY Where, CallTypes DEF Holds, Over, InPlace, Dropping
<1>2. team[u] \in TeamRow /\ team \in [Users -> TeamRow] BY <1>1, Typing
<1>3. CASE team' = team BY <1>3, TeamsStay
<1>4. CASE team' # team
 <2>1. /\ team' = [team EXCEPT ![u].st = "gone"]
       /\ \E R : OfTeam(u) \subseteq R /\ member' = Without(R)
   BY <1>4 DEF DropTeam, DropUser, teams
 <2>2. team' = [team EXCEPT ![u] = t] /\ t \in TeamRow /\ t.st = "gone" BY <1>1, <1>2, <2>1 DEF TeamRow
 <2>3. \A i \in OfTeam(u) : member'[i].status = "removed" BY <1>1, <2>1, WithoutIs, Typing DEF OfTeam
 <2>4. u = call[q].user OBVIOUS
 <2> HIDE DEF u, t
 <2>5. team' \in [Users -> TeamRow] /\ team'[u].st = "gone" /\ \A v \in Users : v # u => team'[v] = team[v]
   BY <1>1, <1>2, <2>2
 <2> QED BY <1>1, <2>3, <2>4, <2>5 DEF TeamsMove, TeamRowMove
<1> QED BY <1>3, <1>4

\* Every step moves the teams as TeamsMove says.
LEMMA StepTeams ==
  ASSUME Base, NEW q \in Calls, Step(q)
  PROVE  TeamsMove(q)
<1>1. CASE MakeTeam(q) \/ MakeQuotas(q) \/ WriteRoster(q) \/ Record(q)
  BY <1>1, MakeTeamTeams, MakeQuotasTeams, WriteRosterTeams, RecordTeams
<1>2. CASE DropTeam(q) \/ DropUser(q) BY <1>2, DropTeams
<1>3. CASE FindAccount(q) \/ FindIdentity(q) \/ CreateUser(q) \/ JoinTeam(q) \/ MakeOwner(q) \/ SendRegisterMail(q) \/
            SignIn(q) \/ ReadActivation(q) \/ Verify(q) \/ ResendCode(q) \/ CountTry(q) \/ ReadLogin(q) \/ Restore(q) \/
            ReadSession(q)
  BY <1>3, TeamsStay DEF teams, FindAccount, FindIdentity, CreateUser, JoinTeam, MakeOwner, SendRegisterMail, SignIn, ReadActivation, Verify,
       ResendCode, CountTry, ReadLogin, Restore, ReadSession
<1>4. CASE Renew(q) \/ Logout(q) \/ LostPassword(q) \/ ReadReset(q) \/ ExpireReset(q) \/ WriteReset(q) \/
            ChangePassword(q) \/ AskChange(q) \/ ParkChange(q) \/ ReadChange(q) \/ ChangeAddress(q) \/ FindChange(q) \/
            ClearChange(q) \/ AskConnect(q)
  BY <1>4, TeamsStay DEF teams, Renew, Logout, LostPassword, ReadReset, ExpireReset, WriteReset, ChangePassword, AskChange, ParkChange,
       ReadChange, ChangeAddress, FindChange, ClearChange, AskConnect
<1>5. CASE Connect(q) \/ Disconnect(q) \/ CheckEligible(q) \/ Schedule(q) \/ ReadDeletion(q) \/ CancelDeletion(q) \/
            AdminDelete(q) \/ AdminRestore(q) \/ AdminVerify(q) \/ AdminAskEmail(q) \/ AdminEmail(q) \/ ListDeleted(q) \/
            InspectTeam(q) \/ DropRows(q)
  BY <1>5, TeamsStay DEF teams, Connect, Disconnect, CheckEligible, Schedule, ReadDeletion, CancelDeletion, AdminDelete, AdminRestore,
       AdminVerify, AdminAskEmail, AdminEmail, ListDeleted, InspectTeam, DropRows
<1>6. CASE CheckInvite(q) \/ CreateInvite(q) \/ FindMember(q) \/ RemoveMember(q) \/ ReadRoster(q) \/ Resolve(q) \/
            Validate(q) \/ Assign(q) \/ Die(q)
  BY <1>6, TeamsStay DEF teams, CheckInvite, CreateInvite, FindMember, RemoveMember, ReadRoster, Resolve, Validate, Assign, Die
<1> QED BY <1>1, <1>2, <1>3, <1>4, <1>5, <1>6 DEF Step, SignUpStep, SessionStep, DeletionStep, TeamStep

\* The counts and the locks change for the subject of a guess only.
CacheMoves(q) ==
  /\ locked' \subseteq Kinds /\ DOMAIN tries' \subseteq Kinds /\ \A k \in DOMAIN tries' : tries'[k] \in 1 .. MaxTries - 1
  /\ spent' \subseteq Calls
  /\ \A k \in Kinds : Does(q).op \notin Guessing \/ k # Key(q) => Tries(k)' = Tries(k) /\ (k \in locked' <=> k \in locked)
  /\ spent' = spent \/ (Does(q).op \in Guessing /\ spent' = spent \cup Misses(Key(q)))
  /\ IF Does(q).op \in Guessing /\ call'[q].end = "wrong"
     THEN /\ spent' = spent
          /\ IF call[q].seen + 1 >= MaxTries THEN Key(q) \in locked'
             ELSE Tries(Key(q))' = call[q].seen + 1 /\ locked' = locked
     ELSE \/ tries' = tries /\ locked' = locked /\ spent' = spent
          \/ Key(q) \notin locked' /\ spent' = spent \cup Misses(Key(q)) /\ call'[q].pc # "wrong"

\* The counts of wrong answers stay.
LEMMA CacheStays ==
  ASSUME Base, NEW q \in Calls, tries' = tries, locked' = locked, spent' = spent, Does(q).op \in Guessing => call'[q].end # "wrong"
  PROVE  CacheMoves(q)
<1>1. /\ locked \subseteq Kinds /\ DOMAIN tries \subseteq Kinds /\ spent \subseteq Calls
      /\ \A k \in DOMAIN tries : tries[k] \in 1 .. MaxTries - 1
  BY Typing
<1> QED BY <1>1 DEF CacheMoves, Tries

\* The key of a guess.
LEMMA KeyIs ==
  ASSUME Base, NEW q \in Calls, Does(q).op \in Guessing
  PROVE  Key(q) \in Kinds
  BY Typing DEF Key, Subject, Kinds

\* Attempts that are forgotten.
LEMMA ForgottenIs ==
  ASSUME Base, NEW k \in Kinds, Forget({k})
  PROVE  /\ DOMAIN tries' \subseteq Kinds /\ \A j \in DOMAIN tries' : tries'[j] \in 1 .. MaxTries - 1
         /\ \A j \in Kinds : j # k => Tries(j)' = Tries(j)
<1>1. DOMAIN tries \subseteq Kinds /\ \A j \in DOMAIN tries : tries[j] \in 1 .. MaxTries - 1 BY Typing
<1>2. tries' = [j \in DOMAIN tries \ {k} |-> tries[j]] BY DEF Forget
<1>3. DOMAIN tries' = DOMAIN tries \ {k} /\ \A j \in DOMAIN tries' : tries'[j] = tries[j] BY <1>2
<1> QED BY <1>1, <1>3 DEF Tries

\* A right answer clears the count of its subject.
LEMMA RightMoves ==
  ASSUME Base, NEW q \in Calls, Does(q).op \in Guessing, Forget({Key(q)}), locked' = locked \ {Key(q)},
         spent' = spent \cup Misses(Key(q)), call'[q].pc # "wrong", call'[q].end # "wrong"
  PROVE  CacheMoves(q)
<1>1. Key(q) \in Kinds /\ locked \subseteq Kinds /\ spent \cup Misses(Key(q)) \subseteq Calls BY KeyIs, Typing DEF Misses
<1>2. /\ DOMAIN tries' \subseteq Kinds /\ \A j \in DOMAIN tries' : tries'[j] \in 1 .. MaxTries - 1
      /\ \A j \in Kinds : j # Key(q) => Tries(j)' = Tries(j)
  BY <1>1, ForgottenIs
<1> QED BY <1>1, <1>2 DEF CacheMoves

\* A wrong answer adds one to it, or locks.
LEMMA CountTryCache ==
  ASSUME Base, NEW q \in Calls, CountTry(q)
  PROVE  CacheMoves(q)
<1> DEFINE n == call[q].seen + 1
           K == DOMAIN tries \cup {Key(q)}
           f == [k \in K |-> IF k = Key(q) THEN n ELSE tries[k]]
<1>0. call'[q].pc = "done" /\ call'[q].end = "wrong"
 <2>1. Ends(q, "wrong", "wrong") BY DEF CountTry
 <2> QED BY <2>1, EndsIs
<1>1. /\ call[q].pc = "wrong" /\ Does(q).op \in Guessing /\ call[q].seen \in 0 .. MaxTries - 1
      /\ call'[q].pc = "done" /\ call'[q].end = "wrong"
  BY <1>0, Where, CallTypes DEF InPlace, Holds
<1>2. /\ Key(q) \in Kinds /\ locked \subseteq Kinds /\ DOMAIN tries \subseteq Kinds /\ MaxTries \in Nat
      /\ spent' = spent /\ spent \subseteq Calls
      /\ \A k \in DOMAIN tries : tries[k] \in 1 .. MaxTries - 1
  BY <1>1, KeyIs, Typing DEF CountTry
<1>3. CASE n >= MaxTries
 <2>1. locked' = locked \cup {Key(q)} /\ Forget({Key(q)}) BY <1>3 DEF CountTry
 <2>2. /\ DOMAIN tries' \subseteq Kinds /\ \A j \in DOMAIN tries' : tries'[j] \in 1 .. MaxTries - 1
       /\ \A j \in Kinds : j # Key(q) => Tries(j)' = Tries(j)
   BY <1>2, <2>1, ForgottenIs
 <2> QED BY <1>1, <1>2, <1>3, <2>1, <2>2 DEF CacheMoves
<1>4. CASE ~(n >= MaxTries)
 <2>1. tries' = f /\ locked' = locked BY <1>4 DEF CountTry
 <2>2. DOMAIN tries' = K /\ \A k \in K : tries'[k] = IF k = Key(q) THEN n ELSE tries[k] BY <2>1
 <2>3. n \in 1 .. MaxTries - 1 BY <1>1, <1>2, <1>4
 <2> HIDE DEF f
 <2>4. Tries(Key(q))' = n
  <3>1. Key(q)' = Key(q) BY DEF CountTry, Key, Subject, Does
  <3> QED BY <2>2, <3>1 DEF Tries
 <2>5. \A k \in Kinds : k # Key(q) => Tries(k)' = Tries(k) BY <2>2 DEF Tries
 <2> QED BY <1>1, <1>2, <1>4, <2>1, <2>2, <2>3, <2>4, <2>5 DEF CacheMoves
<1> QED BY <1>3, <1>4

\* Where a call stands that gave a right answer.
LEMMA RightIs ==
  ASSUME Base, NEW q \in Calls, NEW c, NEW x \in CallRow, Right(q, c, x)
  PROVE  /\ Forget({Key(q)}) /\ locked' = locked \ {Key(q)} /\ spent' = spent \cup Misses(Key(q))
         /\ call'[q].pc = x.pc /\ call'[q].end = x.end
<1>1. call \in [Calls -> CallRow] /\ call' = [call EXCEPT ![q] = Begun(q, [x EXCEPT !.code = c])]
  BY Typing DEF Right, Answers
<1> QED BY <1>1 DEF Begun, CallRow, Right

\* What ReadActivation does to the counts of wrong answers.
LEMMA ReadActivationCache ==
  ASSUME Base, NEW q \in Calls, ReadActivation(q)
  PROVE  CacheMoves(q)
<1>1. Turn(q) /\ call[q].pc = "new" /\ Does(q).op \in {"activate"} BY ReadActivationTurn, Where
<1>2. (Does(q).op \in Guessing => call'[q].end # "wrong") /\ call[q].user = None /\ call[q].end = "none"
  BY <1>1, NewIs DEF Turn, Enters, EntersGuess
<1>3. CASE UNCHANGED cache BY <1>2, <1>3, CacheStays DEF cache
<1>4. CASE ~UNCHANGED cache
 <2> DEFINE x == At(q, "verify", Holder(Does(q).email))
 <2>1. (\E c : Right(q, c, x)) /\ With(Does(q).email) # {} BY <1>4 DEF ReadActivation, Refused
 <2>2. x \in CallRow /\ x.pc = "verify" /\ x.end = "none" BY <1>2, <2>1, HolderIs, AtIs, Named
 <2> HIDE DEF x
 <2> QED BY <1>1, <2>1, <2>2, RightIs, RightMoves DEF Guessing
<1> QED BY <1>3, <1>4

\* What ReadLogin does to the counts of wrong answers.
LEMMA ReadLoginCache ==
  ASSUME Base, NEW q \in Calls, ReadLogin(q)
  PROVE  CacheMoves(q)
<1>1. Turn(q) /\ call[q].pc = "new" /\ Does(q).op \in {"login"} BY ReadLoginTurn, Where
<1>2. (Does(q).op \in Guessing => call'[q].end # "wrong") /\ call[q].user = None /\ call[q].end = "none"
  BY <1>1, NewIs DEF Turn, Enters, EntersGuess
<1>3. CASE UNCHANGED cache BY <1>2, <1>3, CacheStays DEF cache
<1>4. CASE ~UNCHANGED cache
 <2> DEFINE u == Holder(Does(q).email)
            pc == CASE ~user[u].verified -> "done"
                    [] user[u].verified /\ ~user[u].deleted -> "signIn"
                    [] user[u].verified /\ user[u].deleted -> IF user[u].due = "set" THEN "restore" ELSE "done"
            x == At(q, pc, u)
 <2>1. Right(q, 0, x) /\ With(Does(q).email) # {} BY <1>4 DEF ReadLogin, Refused
 <2>2. u \in Users BY <2>1, HolderIs
 <2>3. pc \in {"done", "signIn", "restore"} BY <2>2, RowTypes
 <2> HIDE DEF pc, u
 <2>4. pc \in Pcs BY <2>3, Named
 <2>5. x \in CallRow /\ x.pc = pc /\ x.end = "none" BY <1>2, <2>2, <2>4, AtIs
 <2> HIDE DEF x
 <2> QED BY <1>1, <2>1, <2>3, <2>5, RightIs, RightMoves DEF Guessing
<1> QED BY <1>3, <1>4

\* What ReadReset does to the counts of wrong answers.
LEMMA ReadResetCache ==
  ASSUME Base, NEW q \in Calls, ReadReset(q)
  PROVE  CacheMoves(q)
<1>1. Turn(q) /\ call[q].pc = "new" /\ Does(q).op \in {"resetCode", "resetLink"} BY ReadResetTurn, Where
<1>2. (Does(q).op \in Guessing => call'[q].end # "wrong") /\ call[q].user = None /\ call[q].end = "none"
  BY <1>1, NewIs DEF Turn, Enters, EntersGuess
<1>3. CASE UNCHANGED cache BY <1>2, <1>3, CacheStays DEF cache
<1>4. CASE ~UNCHANGED cache
 <2> DEFINE x == At(q, "reset", Holder(Does(q).email))
 <2>1. (\E c : Right(q, c, x)) /\ With(Does(q).email) # {} /\ Does(q).op # "resetLink" BY <1>4 DEF ReadReset, Refused
 <2>2. x \in CallRow /\ x.pc = "reset" /\ x.end = "none" BY <1>2, <2>1, HolderIs, AtIs, Named
 <2> HIDE DEF x
 <2> QED BY <1>1, <2>1, <2>2, RightIs, RightMoves DEF Guessing
<1> QED BY <1>3, <1>4

\* What ReadChange does to the counts of wrong answers.
LEMMA ReadChangeCache ==
  ASSUME Base, NEW q \in Calls, ReadChange(q)
  PROVE  CacheMoves(q)
<1>1. Turn(q) /\ call[q].pc = "new" /\ Does(q).op \in {"confirmChange"} BY ReadChangeTurn, Where
<1>2. (Does(q).op \in Guessing => call'[q].end # "wrong") /\ call[q].user = None /\ call[q].end = "none"
  BY <1>1, NewIs DEF Turn, Enters, EntersGuess
<1>3. CASE UNCHANGED cache BY <1>2, <1>3, CacheStays DEF cache
<1>4. CASE ~UNCHANGED cache
 <2> DEFINE u == Does(q).who
            y == At(q, "change", u)
            x == [y EXCEPT !.to = user[u].pend]
 <2>1. (\E c : Right(q, c, x)) /\ user[u].pend # None BY <1>4 DEF ReadChange, Refused
 <2>2. u \in Users BY Typing
 <2>3. y \in CallRow /\ y.pc = "change" /\ y.end = "none" BY <1>2, <2>2, AtIs, Named
 <2>4. user[u].pend \in Tos BY <2>1, <2>2, ParkedIs DEF Tos
 <2> HIDE DEF y, u
 <2>5. x \in CallRow /\ x.pc = "change" /\ x.end = "none" BY <2>3, <2>4 DEF CallRow
 <2> HIDE DEF x
 <2> QED BY <1>1, <2>1, <2>5, RightIs, RightMoves DEF Guessing
<1> QED BY <1>3, <1>4

\* Every step moves the counts of wrong answers as CacheMoves says.
LEMMA StepCache ==
  ASSUME Base, NEW q \in Calls, Step(q)
  PROVE  CacheMoves(q)
<1>1. Turn(q) BY StepTurn
<1>2. CASE CountTry(q) \/ ReadActivation(q) \/ ReadLogin(q) \/ ReadReset(q) \/ ReadChange(q)
  BY <1>2, CountTryCache, ReadActivationCache, ReadLoginCache, ReadResetCache, ReadChangeCache
<1>3. ASSUME UNCHANGED cache, ~CountTry(q)
      PROVE  CacheMoves(q)
 <2>1. Does(q).op \in Guessing => call'[q].end # "wrong"
  <3>1. SUFFICES ASSUME Does(q).op \in Guessing, call'[q].end = "wrong"
                 PROVE  FALSE
    OBVIOUS
  <3>2. call[q].pc = "wrong" /\ call'[q].pc # "dead"
   <4>1. call[q].pc = "wrong" BY <1>1, <3>1 DEF Turn, Enters, EntersGuess
   <4>2. call'[q].pc = "done" BY <1>1, <3>1 DEF Turn, Holds
   <4> QED BY <4>1, <4>2
  <3>3. ~Die(q) BY <3>2, CallTypes, Typing DEF Die, CallRow
  <3> QED BY <1>3, <3>2, <3>3, AtPlace
 <2> QED BY <1>3, <2>1, CacheStays DEF cache
<1>4. FindAccount(q) \/ FindIdentity(q) \/ CreateUser(q) \/ JoinTeam(q) \/ MakeTeam(q) \/ MakeOwner(q) \/
       MakeQuotas(q) \/ SendRegisterMail(q) \/ SignIn(q) \/ Verify(q) \/ ResendCode(q) \/ Restore(q) \/ ReadSession(q) \/
       Renew(q)
     => UNCHANGED cache
  BY DEF FindAccount, FindIdentity, CreateUser, JoinTeam, MakeTeam, MakeOwner, MakeQuotas, SendRegisterMail, SignIn,
         Verify, ResendCode, Restore, ReadSession, Renew
<1>5. Logout(q) \/ LostPassword(q) \/ ExpireReset(q) \/ WriteReset(q) \/ ChangePassword(q) \/ AskChange(q) \/
       ParkChange(q) \/ ChangeAddress(q) \/ FindChange(q) \/ ClearChange(q) \/ AskConnect(q) \/ Connect(q) \/
       Disconnect(q) \/ CheckEligible(q)
     => UNCHANGED cache
  BY DEF Logout, LostPassword, ExpireReset, WriteReset, ChangePassword, AskChange, ParkChange, ChangeAddress,
         FindChange, ClearChange, AskConnect, Connect, Disconnect, CheckEligible
<1>6. Schedule(q) \/ ReadDeletion(q) \/ CancelDeletion(q) \/ AdminDelete(q) \/ AdminRestore(q) \/ AdminVerify(q) \/
       AdminAskEmail(q) \/ AdminEmail(q) \/ ListDeleted(q) \/ InspectTeam(q) \/ DropTeam(q) \/ DropRows(q) \/
       DropUser(q) \/ CheckInvite(q)
     => UNCHANGED cache
  BY DEF Schedule, ReadDeletion, CancelDeletion, AdminDelete, AdminRestore, AdminVerify, AdminAskEmail, AdminEmail,
         ListDeleted, InspectTeam, DropTeam, DropRows, DropUser, CheckInvite
<1>7. CreateInvite(q) \/ FindMember(q) \/ RemoveMember(q) \/ ReadRoster(q) \/ WriteRoster(q) \/ Resolve(q) \/
       Validate(q) \/ Assign(q) \/ Record(q) \/ Die(q)
     => UNCHANGED cache
  BY DEF CreateInvite, FindMember, RemoveMember, ReadRoster, WriteRoster, Resolve, Validate, Assign, Record, Die
<1> QED BY <1>2, <1>3, <1>4, <1>5, <1>6, <1>7 DEF Step, SignUpStep, SessionStep, DeletionStep, TeamStep

--------------------
(* A step, whole *)

Stepped(q) == Turn(q) /\ UsersMove(q) /\ OutboxMoves(q) /\ MembersMove(q) /\ TeamsMove(q) /\ CacheMoves(q)

\* Every step of a call is all of that.
LEMMA StepMoves ==
  ASSUME Base, NEW q \in Calls, Step(q)
  PROVE  Stepped(q)
  BY StepTurn, StepUsers, StepOutbox, StepMembers, StepTeams, StepCache DEF Stepped

\* What becomes of an account.
LEMMA Lives ==
  ASSUME Base, NEW q \in Calls, UsersMove(q), NEW u \in Users
  PROVE  /\ user'[u] \in UserRow
         /\ user[u].st # "none" => user'[u].st # "none" /\ (user'[u].st = "live" => user[u].st = "live")
         /\ user'[u].st = "live" /\ user[u].st # "live" => Born(q, u, user'[u])
         /\ user'[u].st = "live" /\ user[u].st = "live" => user'[u] = user[u] \/ Edited(q, u, user'[u])
         /\ user[u].st = "live" => \/ user'[u].st = "live"
                                   \/ user'[u].st = "gone" /\ call[q].pc = "dropUser" /\ call[q].user = u
         /\ user[u].st # "live" => user'[u] = user[u] \/ Born(q, u, user'[u])
<1>1. user[u] \in UserRow /\ user'[u] \in UserRow /\ UserMove(q, u, user'[u]) BY Typing DEF UsersMove
<1>2. user[u].st \in {"none", "live", "gone"} /\ codes + 1 \in Nat /\ Does(q).email \in Emails /\ Does(q).op \in Ops
  BY Typing, RowTypes
<1>3. CASE user'[u] = user[u] BY <1>1, <1>2, <1>3
<1>4. CASE Born(q, u, user'[u])
 <2>1. user'[u].st = "live" /\ user[u].st = "none" BY <1>2, <1>4, NewUserIs DEF Born
 <2> QED BY <1>1, <1>4, <2>1
<1>5. CASE Died(q, u, user'[u])
 <2>1. user'[u].st = "gone" /\ user[u].st = "live" /\ call[q].pc = "dropUser" /\ call[q].user = u
   BY <1>5 DEF Died, NoUser, Live
 <2> QED BY <1>1, <2>1
<1>6. CASE Edited(q, u, user'[u])
 <2>1. user'[u].st = "live" /\ user[u].st = "live" BY <1>6 DEF Edited, Live
 <2> QED BY <1>1, <1>6, <2>1
<1> QED BY <1>1, <1>3, <1>4, <1>5, <1>6 DEF UserMove

\* What an account that is born holds.
LEMMA BornIs ==
  ASSUME Base, NEW q \in Calls, Turn(q), NEW u \in Users, NEW s, Born(q, u, s)
  PROVE  /\ s.st = "live" /\ s.email = Does(q).email /\ s.email \in Emails /\ (s.verified <=> Does(q).op # "register") /\ s.reset = 0
         /\ s.pend = None /\ ~s.deleted /\ s.due = "none" /\ ~s.session
         /\ Does(q).op \in SignUps /\ call'[q].seen = codes + 1 /\ user[u].st = "none"
<1>1. codes + 1 \in Nat /\ Does(q).email \in Emails /\ Does(q).op \in Ops /\ Does(q).op \in SignUps
  BY Typing, CallTypes DEF Born, InPlace, Making
<1>2. call'[q].seen = codes + 1 BY DEF Born, Turn, Enters, EntersTeams
<1> QED BY <1>1, <1>2, NewUserIs DEF Born

\* A call that is on its way stays what it is while another one moves.
LEMMA TheRest ==
  ASSUME Base, NEW q \in Calls, Turn(q), NEW r \in Calls
  PROVE  /\ r # q => call'[r] = call[r]
         /\ Started(r) => Started(r)' /\ call'[r].since = call[r].since
         /\ r # q \/ Started(r) => call'[r].since = call[r].since
         /\ q \notin call[r].since /\ call[q].pc \notin Over /\ Started(q)' /\ Does(r)' = Does(r)
         /\ \A s \in call'[r].since : call[s].pc \in Over
<1>1. call[q].pc \notin Over /\ call'[q].pc # "new" /\ Does(r)' = Does(r) BY DEF Turn, Remembers, Does
<1>2. q \notin call[r].since /\ \A s \in call[r].since : call[s].pc \in Over BY <1>1 DEF Base, Sinces
<1> QED BY <1>1, <1>2 DEF Turn, Started

\* What a call holds does not depend on rows and codes to come.
LEMMA HoldsMore ==
  ASSUME NEW q, NEW c, NEW n \in Nat, NEW m \in Nat, n <= m, NEW d \in Nat, NEW e \in Nat, d <= e, Holds(q, c, n, d)
  PROVE  Holds(q, c, m, e)
  BY DEF Holds

\* A step keeps the types.
LEMMA StepKeepsTypes ==
  ASSUME Base, NEW q \in Calls, Stepped(q)
  PROVE  Types'
<1>1. plan' \in Plans /\ call' \in [Calls -> CallRow] BY Typing DEF Stepped, Turn
<1>2. user' \in [Users -> UserRow] /\ team' \in [Users -> TeamRow] /\ member' \in Seq(MemberRow)
  BY DEF Stepped, UsersMove, TeamsMove, MembersMove
<1>3. codes' \in Nat /\ mailed' \in [Emails -> SUBSET (1 .. codes')] BY DEF Stepped, OutboxMoves
<1>4. /\ locked' \subseteq Kinds /\ DOMAIN tries' \subseteq Kinds /\ \A k \in DOMAIN tries' : tries'[k] \in 1 .. MaxTries - 1
      /\ spent' \subseteq Calls
  BY DEF Stepped, CacheMoves
<1> QED BY <1>1, <1>2, <1>3, <1>4 DEF Types

\* A step leaves every call at a place of its own kind.
LEMMA StepKeepsPlaces ==
  ASSUME Base, NEW q \in Calls, Stepped(q)
  PROVE  Places'
<1>1. SUFFICES ASSUME NEW r \in Calls
               PROVE  InPlace(r, call[r])' /\ Holds(r, call[r], Len(member), codes)'
  BY DEF Places
<1>2. plan' = plan /\ Len(member) \in Nat /\ Len(member') \in Nat /\ Len(member) <= Len(member')
      /\ codes \in Nat /\ codes' \in Nat /\ codes <= codes'
  BY Typing DEF Stepped, Turn, MembersMove, OutboxMoves
<1>3. InPlace(r, call'[r]) /\ Holds(r, call'[r], Len(member), codes')
 <2>1. CASE r = q BY <2>1 DEF Stepped, Turn
 <2>2. CASE r # q
  <3>1. call'[r] = call[r] /\ InPlace(r, call[r]) /\ Holds(r, call[r], Len(member), codes)
    BY <2>2, CallTypes DEF Stepped, Turn
  <3>2. Holds(r, call[r], Len(member), codes') BY <1>2, <3>1, HoldsMore
  <3> QED BY <3>1, <3>2
 <2> QED BY <2>1, <2>2
<1>4. Holds(r, call'[r], Len(member'), codes') BY <1>2, <1>3, HoldsMore
<1>5. InPlace(r, call[r])' BY <1>2, <1>3 DEF InPlace, Does
<1>6. Holds(r, call[r], Len(member), codes)' BY <1>2, <1>4 DEF Holds, Does
<1> QED BY <1>5, <1>6

\* What becomes of a row.
LEMMA RowsAre ==
  ASSUME Base, NEW q \in Calls, MembersMove(q), NEW i \in DOMAIN member'
  PROVE  /\ member'[i] \in MemberRow
         /\ i \in DOMAIN member => RowMove(q, i, member'[i])
         /\ i \notin DOMAIN member => Added(q, member'[i]) /\ i = Len(member) + 1
<1>1. Len(member) \in Nat /\ DOMAIN member = 1 .. Len(member) /\ member' \in Seq(MemberRow) BY Typing DEF MembersMove
<1>2. DOMAIN member' = 1 .. Len(member') /\ Len(member') \in Nat /\ \A j \in DOMAIN member' : member'[j] \in MemberRow
  BY <1>1
<1>3. /\ Len(member') = Len(member) \/ (Len(member') = Len(member) + 1 /\ Added(q, member'[Len(member) + 1]))
      /\ \A j \in 1 .. Len(member) : RowMove(q, j, member'[j])
  BY DEF MembersMove
<1>4. i \in 1 .. Len(member') /\ member'[i] \in MemberRow BY <1>2
<1> DEFINE n == Len(member)
           m == Len(member')
<1>5. n \in Nat /\ m \in Nat /\ (m = n \/ m = n + 1) /\ i \in 1 .. m BY <1>1, <1>2, <1>3, <1>4
<1> HIDE DEF n, m
<1>6. i \in 1 .. n \/ (m = n + 1 /\ i = n + 1) BY <1>5
<1>7. ASSUME i \notin DOMAIN member
      PROVE  Added(q, member'[i]) /\ i = Len(member) + 1
 <2>1. m = n + 1 /\ i = n + 1 BY <1>1, <1>6, <1>7 DEF n
 <2>2. m # n BY <1>5, <2>1
 <2> QED BY <1>3, <2>1, <2>2 DEF n, m
<1> QED BY <1>1, <1>3, <1>4, <1>7

\* The rows there were are there still.
LEMMA RowsLast ==
  ASSUME Base, NEW q \in Calls, MembersMove(q), NEW i \in DOMAIN member
  PROVE  i \in DOMAIN member' /\ RowMove(q, i, member'[i])
<1>1. Len(member) \in Nat /\ DOMAIN member = 1 .. Len(member) /\ member' \in Seq(MemberRow) BY Typing DEF MembersMove
<1>2. DOMAIN member' = 1 .. Len(member') /\ Len(member') \in Nat BY <1>1
<1>3. (Len(member') = Len(member) \/ Len(member') = Len(member) + 1) /\ \A j \in 1 .. Len(member) : RowMove(q, j, member'[j])
  BY DEF MembersMove
<1>4. i \in 1 .. Len(member) BY <1>1
<1> DEFINE n == Len(member)
           m == Len(member')
<1>5. n \in Nat /\ m \in Nat /\ (m = n \/ m = n + 1) /\ i \in 1 .. n BY <1>1, <1>2, <1>3, <1>4
<1> HIDE DEF n, m
<1>6. i \in 1 .. m BY <1>5
<1> QED BY <1>2, <1>3, <1>4, <1>6 DEF m

\* A step leaves accounts and rows in order.
LEMMA StepKeepsAccounted ==
  ASSUME Base, NEW q \in Calls, Stepped(q)
  PROVE  Accounted'
<1>0. Turn(q) /\ UsersMove(q) /\ MembersMove(q) /\ plan' = plan BY DEF Stepped, Turn
<1>1. ASSUME NEW u \in Users
      PROVE  /\ user'[u].st = "live" => user'[u].email \in Emails
             /\ user'[u].pend # None => user'[u].pcode # 0
             /\ user'[u].due = "none" /\ user'[u].deleted => \E r \in Calls : Does(r).op = "adminDelete"
 <2>1. /\ user[u].st = "live" => user[u].email \in Emails
       /\ user[u].pend # None => user[u].pcode # 0
       /\ user[u].due = "none" /\ user[u].deleted => \E r \in Calls : Does(r).op = "adminDelete"
   BY DEF Base, Accounted
 <2>2. UserMove(q, u, user'[u]) BY <1>0 DEF UsersMove
 <2>3. CASE user'[u] = user[u] BY <2>1, <2>3
 <2>4. CASE Born(q, u, user'[u])
  <3>1. user'[u].email \in Emails /\ user'[u].pend = None /\ ~user'[u].deleted BY <1>0, <2>4, BornIs
  <3> QED BY <3>1
 <2>5. CASE Died(q, u, user'[u]) BY <2>5 DEF Died, NoUser
 <2>6. CASE Edited(q, u, user'[u])
  <3>1. Live(u) BY <2>6 DEF Edited
  <3>2. user'[u].email \in Emails
   <4>1. CASE user'[u].email = user[u].email BY <2>1, <3>1, <4>1 DEF Live
   <4>2. CASE Readdressed(q, u, user'[u]) BY <4>2, CallTypes, Typing DEF Readdressed, Holds
   <4> QED BY <2>6, <4>1, <4>2 DEF Edited
  <3> QED BY <2>1, <2>6, <3>2 DEF Edited
 <2> QED BY <2>2, <2>3, <2>4, <2>5, <2>6 DEF UserMove
<1>2. ASSUME NEW i \in DOMAIN member'
      PROVE  /\ member'[i].status = "active" => member'[i].user \in Users
             /\ member'[i].status = "pending" => member'[i].user = None
 <2>1. CASE i \notin DOMAIN member
  <3>1. Added(q, member'[i]) BY <1>0, <2>1, RowsAre
  <3>2. call[q].pc = "owner" => call[q].user \in Users BY CallTypes DEF Holds, Over
  <3> QED BY <3>1, <3>2 DEF Added
 <2>2. CASE i \in DOMAIN member
  <3>1. RowMove(q, i, member'[i]) BY <1>0, <2>2, RowsAre
  <3>2. call[q].pc = "join" => call[q].user \in Users BY CallTypes DEF Holds, Over
  <3>3. /\ member[i].status = "active" => member[i].user \in Users
        /\ member[i].status = "pending" => member[i].user = None
    BY <2>2 DEF Base, Accounted
  <3> QED BY <3>1, <3>2, <3>3 DEF RowMove, Joined
 <2> QED BY <2>1, <2>2
<1>3. \A r \in Calls : Does(r)' = Does(r) BY <1>0 DEF Does
<1> QED BY <1>1, <1>2, <1>3 DEF Accounted

\* Whoever is named after a step has existed.
LEMMA StepKeepsKnown ==
  ASSUME Base, NEW q \in Calls, Stepped(q)
  PROVE  Known'
<1>0. Turn(q) /\ UsersMove(q) /\ MembersMove(q) /\ TeamsMove(q) BY DEF Stepped
<1>1. \A u \in Users : user[u].st # "none" => user'[u].st # "none" BY <1>0, Lives
<1>2. ASSUME NEW r \in Calls, NEW u \in Users, u = call'[r].user \/ u \in call'[r].set
      PROVE  user'[u].st # "none"
 <2>1. CASE r = q BY <1>0, <1>1, <1>2, <2>1 DEF Turn, Enters, Base, Known
 <2>2. CASE r # q BY <1>0, <1>1, <1>2, <2>2 DEF Turn, Base, Known
 <2> QED BY <2>1, <2>2
<1>3. ASSUME NEW i \in DOMAIN member', member'[i].user # None
      PROVE  user'[member'[i].user].st # "none"
 <2>0. /\ \A j \in DOMAIN member : member[j].user # None => user[member[j].user].st # "none" /\ member[j].user \in Users
       /\ call[q].user \in Users => user[call[q].user].st # "none"
   BY RowTypes DEF Base, Known
 <2>1. CASE i \notin DOMAIN member
  <3>1. Added(q, member'[i]) BY <1>0, <2>1, RowsAre
  <3>2. call[q].pc = "owner" => call[q].user \in Users BY CallTypes DEF Holds, Over
  <3> QED BY <1>1, <1>3, <2>0, <3>1, <3>2 DEF Added
 <2>2. CASE i \in DOMAIN member
  <3>1. RowMove(q, i, member'[i]) BY <1>0, <2>2, RowsAre
  <3>2. call[q].pc = "join" => call[q].user \in Users BY CallTypes DEF Holds, Over
  <3> QED BY <1>1, <1>3, <2>0, <2>2, <3>1, <3>2 DEF RowMove, Joined
 <2> QED BY <2>1, <2>2
<1>4. ASSUME NEW u \in Users, team'[u].st # "none"
      PROVE  user'[u].st # "none"
 <2>1. TeamRowMove(q, u) /\ (team[u].st # "none" => user[u].st # "none") /\ (u = call[q].user => user[u].st # "none")
   BY <1>0 DEF TeamsMove, Base, Known
 <2> QED BY <1>1, <1>4, <2>1 DEF TeamRowMove
<1> QED BY <1>2, <1>3, <1>4 DEF Known

\* All of that together.
LEMMA StepKeepsBase ==
  ASSUME Base, NEW q \in Calls, Stepped(q)
  PROVE  Base'
<1>1. Sinces'
 <2>1. SUFFICES ASSUME NEW r \in Calls, NEW s \in call'[r].since
                PROVE  call'[s].pc \in Over
   BY DEF Sinces
 <2>2. Turn(q) BY DEF Stepped
 <2>3. call[s].pc \in Over /\ call[q].pc \notin Over /\ s \in Calls
  <3>1. call' \in [Calls -> CallRow] BY <2>2 DEF Turn
  <3>2. call'[r].since \subseteq Calls BY <3>1 DEF CallRow
  <3> QED BY <2>1, <2>2, <3>2, TheRest
 <2> QED BY <2>2, <2>3, TheRest
<1> QED BY <1>1, StepKeepsTypes, StepKeepsPlaces, StepKeepsAccounted, StepKeepsKnown DEF Base

--------------------
(* What a step leaves true of calls *)

\* Two calls overlap for good, or never.
LEMMA OverlapStays ==
  ASSUME Base, NEW q \in Calls, Turn(q), NEW r \in Calls, NEW s \in Calls, Started(r), Started(s)
  PROVE  Overlap(r, s)' <=> Overlap(r, s)
<1>1. call'[r].since = call[r].since /\ call'[s].since = call[s].since BY TheRest
<1> QED BY <1>1 DEF Overlap

\* A call that raced another one has raced it for good.
LEMMA RacingStays ==
  ASSUME Base, NEW q \in Calls, Turn(q), NEW r \in Calls, Started(r), NEW ops, Racing(r, ops)
  PROVE  Racing(r, ops)'
<1>1. PICK s \in Calls : Started(s) /\ Does(s).op \in ops /\ Overlap(r, s) BY DEF Racing
<1>2. Started(s)' /\ Does(s)' = Does(s) /\ Overlap(r, s)' BY <1>1, TheRest, OverlapStays
<1> QED BY <1>1, <1>2 DEF Racing

\* A call overlaps the one that takes a step while it is on its way.
LEMMA OverlapNow ==
  ASSUME Base, NEW q \in Calls, Turn(q), NEW r \in Calls, r # q, Started(r), call[r].pc \notin Over
  PROVE  Overlap(q, r)' /\ Overlap(r, q)'
<1>1. q \notin call'[r].since /\ r \notin call'[q].since BY TheRest
<1> QED BY <1>1 DEF Overlap

\* A call on its way races whoever takes a step.
LEMMA RacingNow ==
  ASSUME Base, NEW q \in Calls, Turn(q), NEW r \in Calls, r # q, Started(r), call[r].pc \notin Over,
         NEW ops, Does(q).op \in ops
  PROVE  Racing(r, ops)'
<1>1. Started(q)' /\ Does(q)' = Does(q) /\ Overlap(r, q)' BY TheRest, OverlapNow
<1> QED BY <1>1 DEF Racing

\* A call names one account.
LEMMA NamesStays ==
  ASSUME Base, NEW q \in Calls, Turn(q), NEW r \in Calls, NEW u \in Users, call[r].user = u, Does(r).op # "cleanup"
  PROVE  call'[r].user = u /\ Started(r)
<1>1. call[r].pc # "new" /\ call[r].pc # "create"
 <2>1. None \notin Users BY Typing
 <2> QED BY <2>1, NewIs, CallTypes DEF Holds
<1> QED BY <1>1 DEF Turn, Remembers, Started

\* What a call has in hand, it keeps.
LEMMA HandStays ==
  ASSUME Base, NEW q \in Calls, Turn(q), NEW r \in Calls, Started(r)
  PROVE  /\ call'[r].row = call[r].row /\ call'[r].code = call[r].code /\ call'[r].to = call[r].to
         /\ call[r].pc # "create" => call'[r].seen = call[r].seen
         /\ r # q => call'[r] = call[r]
  BY DEF Turn, Remembers, Started

\* An account that a call made stays its own.
LEMMA MadeStays ==
  ASSUME Base, NEW q \in Calls, Turn(q), NEW r \in Calls, Made(r)
  PROVE  Made(r)' /\ Started(r) /\ call'[r].seen = call[r].seen
<1>1. Started(r) /\ call[r].pc # "create" BY NewIs, CallTypes DEF Made, Started, Holds
<1> QED BY <1>1, HandStays, TheRest DEF Made

\* Two sign-ups that took one invitation have taken it for good.
LEMMA SharedStays ==
  ASSUME Base, NEW q \in Calls, Turn(q), NEW r \in Calls, NEW s \in Calls, SharedRow(r, s)
  PROVE  SharedRow(r, s)'
<1>1. Started(r) /\ Started(s) BY NewIs DEF SharedRow, Started
<1> QED BY <1>1, HandStays, TheRest, OverlapStays DEF SharedRow

\* Sharing an invitation goes both ways.
LEMMA SharedTurned ==
  ASSUME NEW r, NEW s, SharedRow(r, s)
  PROVE  SharedRow(s, r)
  BY DEF SharedRow, Overlap

--------------------
(* Addresses *)

\* Addresses stay unique: who takes one looked for it in the same step.
LEMMA ApartStep ==
  ASSUME Base, Apart, NEW q \in Calls, Stepped(q)
  PROVE  Apart'
<1>0. Turn(q) /\ UsersMove(q) BY DEF Stepped
<1> DEFINE Kept(u) == user[u].st = "live" /\ user'[u].email = user[u].email
           Other(u) == Born(q, u, user'[u]) \/ Readdressed(q, u, user'[u])
<1>1. ASSUME NEW u \in Users, user'[u].st = "live"
      PROVE  Kept(u) \/ Other(u)
  BY <1>0, <1>1, Lives DEF Edited
<1>2. ASSUME NEW u \in Users, NEW v \in Users, Other(u), Kept(v), user'[u].email = user'[v].email
      PROVE  u = v
 <2>1. CASE Born(q, u, user'[u])
  <3>1. user'[u].email = Does(q).email /\ With(Does(q).email) = {} BY <1>0, <2>1, BornIs DEF Born
  <3> QED BY <1>2, <3>1 DEF With, Live
 <2>2. CASE Readdressed(q, u, user'[u]) BY <1>2, <2>2 DEF Readdressed, With, Live
 <2> QED BY <1>2, <2>1, <2>2
<1>3. ASSUME NEW u \in Users, NEW v \in Users, Other(u), Other(v)
      PROVE  u = v
  BY <1>3 DEF Born, Readdressed
<1>4. ASSUME NEW u \in Users, NEW v \in Users, Kept(u), Kept(v), user'[u].email = user'[v].email
      PROVE  u = v
  BY <1>4 DEF Apart, Live
<1>5. ASSUME NEW u \in Users, NEW v \in Users, user'[u].st = "live", user'[v].st = "live", user'[u].email = user'[v].email
      PROVE  u = v
 <2>1. (Kept(u) \/ Other(u)) /\ (Kept(v) \/ Other(v)) BY <1>1, <1>5
 <2> HIDE DEF Kept, Other
 <2> QED BY <1>2, <1>3, <1>4, <1>5, <2>1
<1> QED BY <1>5 DEF Apart, Live

\* A change of address goes on only with a code that was sent to the new address.
LEMMA CodesStep ==
  ASSUME Base, Codes, NEW q \in Calls, Stepped(q)
  PROVE  Codes'
<1>0. Turn(q) /\ OutboxMoves(q) BY DEF Stepped
<1>1. SUFFICES ASSUME NEW r \in Calls, call'[r].pc = "change"
               PROVE  call'[r].code # 0 /\ call'[r].code \in mailed'[call'[r].to]
  BY DEF Codes
<1>2. call'[r].code # 0 /\ call'[r].code \in mailed[call'[r].to] /\ call'[r].to \in Emails
 <2>1. CASE r = q BY <1>0, <1>1, <2>1 DEF Turn, Enters, EntersAccounts, Holds
 <2>2. CASE r # q BY <1>0, <1>1, <2>2, CallTypes DEF Turn, Codes, Holds
 <2> QED BY <2>1, <2>2
<1> QED BY <1>0, <1>2 DEF OutboxMoves

\* A call that writes an address vouches for it.
LEMMA NewAddressProven ==
  ASSUME Base, Codes, NEW q \in Calls, Stepped(q), NEW u \in Users, Readdressed(q, u, user'[u])
  PROVE  Proven(u)'
<1>0. Turn(q) /\ OutboxMoves(q) /\ plan' = plan BY DEF Stepped, Turn
<1>1. CASE call[q].pc = "email"
 <2>1. Does(q).op = "adminEmail" /\ Does(q)' = Does(q) BY <1>0, <1>1, CallTypes DEF InPlace, Does
 <2>2. call'[q].user = u BY <1>0, <2>1, NamesStays DEF Readdressed
 <2> QED BY <2>1, <2>2 DEF Proven, Vouched, ByAdmin
<1>2. CASE call[q].pc = "change"
 <2>1. Does(q).op = "confirmChange" /\ Does(q)' = Does(q) BY <1>0, <1>2, CallTypes DEF InPlace, Does
 <2>2. call'[q].user = u BY <1>0, <2>1, NamesStays DEF Readdressed
 <2>3. call'[q].code # 0 /\ call'[q].code \in mailed'[call[q].to] /\ user'[u].email = call[q].to
  <3>1. call[q].code # 0 /\ call[q].code \in mailed[call[q].to] /\ call[q].to \in Emails /\ call'[q].code = call[q].code
    BY <1>0, <1>2, CallTypes DEF Codes, Holds, Turn, Remembers
  <3> QED BY <1>0, <1>2, <3>1 DEF OutboxMoves, Readdressed
 <2> QED BY <2>1, <2>2, <2>3 DEF Proven, GaveCode
<1> QED BY <1>1, <1>2 DEF Readdressed

\* What proves an address goes on proving it.
LEMMA ProvenStays ==
  ASSUME Base, Codes, NEW q \in Calls, Stepped(q), NEW u \in Users, user[u].st = "live", user'[u].st = "live", Proven(u)
  PROVE  Proven(u)'
<1>0. Turn(q) /\ UsersMove(q) /\ OutboxMoves(q) BY DEF Stepped
<1>1. CASE Readdressed(q, u, user'[u]) BY <1>1, NewAddressProven
<1>2. CASE user'[u].email = user[u].email
 <2>1. CASE ByAdmin(u)
  <3>1. PICK r \in Calls : Does(r).op \in {"adminCreate", "adminVerify", "adminEmail"} /\ call[r].user = u
    BY <2>1 DEF ByAdmin
  <3>2. call'[r].user = u /\ Does(r)' = Does(r) BY <1>0, <3>1, NamesStays, TheRest
  <3> QED BY <3>1, <3>2 DEF ByAdmin, Vouched, Proven
 <2>2. CASE \E r \in Calls : Does(r).op = "oauth" /\ Does(r).email = user[u].email /\ call[r].user = u
  <3>1. PICK r \in Calls : Does(r).op = "oauth" /\ Does(r).email = user[u].email /\ call[r].user = u BY <2>2
  <3>2. call'[r].user = u /\ Does(r)' = Does(r) BY <1>0, <3>1, NamesStays, TheRest
  <3> QED BY <1>2, <3>1, <3>2 DEF Vouched, Proven
 <2>3. CASE GaveCode(u)
  <3>1. PICK r \in Calls : /\ Does(r).op \in {"activate", "confirmChange"} /\ call[r].user = u
                            /\ call[r].code # 0 /\ call[r].code \in mailed[user[u].email]
    BY <2>3 DEF GaveCode
  <3>2. call'[r].user = u /\ Does(r)' = Does(r) /\ Started(r) BY <1>0, <3>1, NamesStays, TheRest
  <3>3. call'[r].code = call[r].code BY <1>0, <3>2, HandStays
  <3>4. mailed[user[u].email] \subseteq mailed'[user[u].email] BY <1>0 DEF OutboxMoves, Base, Accounted
  <3> QED BY <1>2, <3>1, <3>2, <3>3, <3>4 DEF GaveCode, Proven
 <2> QED BY <2>1, <2>2, <2>3 DEF Proven, Vouched
<1> QED BY <1>0, <1>1, <1>2, Lives DEF Edited

\* A verification goes on only for an address that was proven.
LEMMA VerifyingStep ==
  ASSUME Base, Codes, Verifying, NEW q \in Calls, Stepped(q)
  PROVE  Verifying'
<1>0. Turn(q) /\ UsersMove(q) /\ OutboxMoves(q) BY DEF Stepped
<1>1. SUFFICES ASSUME NEW r \in Calls, call'[r].pc = "verify", NEW u \in Users, u = call'[r].user, user'[u].st = "live"
               PROVE  Proven(u)'
  BY DEF Verifying, Live
<1>2. CASE r = q
 <2>1. /\ call[q].pc = "new" /\ Live(u) /\ call'[q].code # 0 /\ call'[q].code \in mailed[user[u].email]
       /\ Does(q).op = "activate" /\ Does(q)' = Does(q)
   BY <1>0, <1>1, <1>2 DEF Turn, Enters, EntersAccounts, InPlace, Does
 <2>2. user'[u].email = user[u].email BY <1>0, <1>1, <2>1, Lives DEF Edited, Readdressed, Live
 <2>3. mailed[user[u].email] \subseteq mailed'[user[u].email] BY <1>0, <2>1 DEF OutboxMoves, Base, Accounted, Live
 <2> QED BY <1>1, <1>2, <2>1, <2>2, <2>3 DEF Proven, GaveCode
<1>3. CASE r # q
 <2>1. call[r] = call'[r] /\ user[u].st # "none" BY <1>0, <1>1, <1>3 DEF Turn, Base, Known
 <2>2. user[u].st = "live" BY <1>0, <1>1, <2>1, Lives
 <2>3. Proven(u) BY <1>1, <2>1, <2>2 DEF Verifying, Live
 <2> QED BY <1>1, <2>2, <2>3, ProvenStays
<1> QED BY <1>2, <1>3

\* Whoever is verified has proven the address.
LEMMA MailboxStep ==
  ASSUME Base, AddressInv, NEW q \in Calls, Stepped(q)
  PROVE  Mailbox'
<1>0. Turn(q) /\ UsersMove(q) /\ plan' = plan /\ Codes /\ Mailbox /\ Verifying BY DEF Stepped, Turn, AddressInv
<1>1. SUFFICES ASSUME NEW u \in Users, user'[u].st = "live", user'[u].verified,
                      plan.user[u] = "none" \/ user'[u].email # plan.home[u]
               PROVE  Proven(u)'
  BY <1>0 DEF Mailbox, Live
<1>2. CASE user[u].st # "live"
 <2>1. Born(q, u, user'[u]) BY <1>0, <1>1, <1>2, Lives
 <2>2. call'[q].user = u /\ user'[u].email = Does(q).email /\ Does(q).op \in {"oauth", "adminCreate"} /\ Does(q)' = Does(q)
   BY <1>0, <1>1, <2>1, BornIs DEF Born, SignUps, Does
 <2> QED BY <2>2 DEF Proven, Vouched, ByAdmin
<1>3. CASE user[u].st = "live" /\ Readdressed(q, u, user'[u]) BY <1>0, <1>3, NewAddressProven
<1>4. CASE user[u].st = "live" /\ ~Readdressed(q, u, user'[u])
 <2>1. user'[u].email = user[u].email BY <1>0, <1>1, <1>4, Lives DEF Edited
 <2>2. CASE user[u].verified
  <3>1. Proven(u) BY <1>0, <1>1, <1>4, <2>1, <2>2 DEF Mailbox, Live
  <3> QED BY <1>0, <1>1, <1>4, <3>1, ProvenStays
 <2>3. CASE ~user[u].verified
  <3>1. Edited(q, u, user'[u]) BY <1>0, <1>1, <1>4, <2>3, Lives
  <3>2. CASE call[q].pc = "verify" /\ call[q].user = u
   <4>1. Proven(u) BY <1>0, <1>4, <3>2 DEF Verifying, Live
   <4> QED BY <1>0, <1>1, <1>4, <4>1, ProvenStays
  <3>3. CASE Does(q).op = "adminVerify" /\ call'[q].user = u
   <4>1. Does(q)' = Does(q) BY <1>0 DEF Does
   <4> QED BY <3>3, <4>1 DEF Proven, Vouched, ByAdmin
  <3> QED BY <1>1, <1>4, <2>3, <3>1, <3>2, <3>3 DEF Edited
 <2> QED BY <2>2, <2>3
<1> QED BY <1>2, <1>3, <1>4

\* The part of the invariant about addresses is kept.
LEMMA AddressStep ==
  ASSUME Base, AddressInv, NEW q \in Calls, Stepped(q)
  PROVE  AddressInv'
  BY ApartStep, CodesStep, VerifyingStep, MailboxStep DEF AddressInv

\* The addresses are as they are meant to be.
LEMMA AddressMeans ==
  ASSUME AddressInv
  PROVE  VerifiedMailbox
  BY DEF AddressInv, Apart, Mailbox, Proven, VerifiedMailbox, With, Live

--------------------
(* Teams *)

\* Only an invitation is taken.
LEMMA JoinsInvitation ==
  ASSUME Base, Joining, NEW q \in Calls, NEW i, NEW n, Joined(q, i, n)
  PROVE  member[i].email # None
<1>1. call[q].pc = "join" /\ call[q].row = i /\ call[q].row # 0 BY CallTypes DEF Joined, Holds
<1> QED BY <1>1 DEF Joining

\* Only the row of an owner has no address.
LEMMA OwnRowStep ==
  ASSUME Base, OwnRow, Joining, NEW q \in Calls, Stepped(q)
  PROVE  OwnRow'
<1>0. MembersMove(q) BY DEF Stepped
<1>1. SUFFICES ASSUME NEW i \in DOMAIN member', member'[i].email = None
               PROVE  member'[i].team = member'[i].user
  BY DEF OwnRow
<1>2. CASE i \notin DOMAIN member
 <2>1. Added(q, member'[i]) BY <1>0, <1>2, RowsAre
 <2> QED BY <1>1, <2>1, Typing DEF Added
<1>3. CASE i \in DOMAIN member
 <2>1. RowMove(q, i, member'[i]) BY <1>0, <1>3, RowsAre
 <2>2. ~Joined(q, i, member'[i]) BY <1>1, <2>1, JoinsInvitation DEF RowMove
 <2> QED BY <1>1, <1>3, <2>1, <2>2 DEF RowMove, OwnRow
<1> QED BY <1>2, <1>3

\* Whoever has a new row had none.
LEMMA NewRowsUser ==
  ASSUME Base, NoRow, NEW q \in Calls, Stepped(q), NEW i \in DOMAIN member'
  PROVE  \/ i \in DOMAIN member /\ member'[i].user = member[i].user
         \/ member'[i].user = None
         \/ /\ member'[i].user = call[q].user /\ call[q].user \in Users /\ call[q].pc \in {"owner", "join"}
            /\ \A j \in DOMAIN member : member[j].user # call[q].user
            /\ i = IF call[q].pc = "join" THEN call[q].row ELSE Len(member) + 1
<1>0. MembersMove(q) BY DEF Stepped
<1>1. call[q].pc \in {"owner", "join"} => /\ \A j \in DOMAIN member : member[j].user # call[q].user
                                          /\ call[q].user \in Users
  BY CallTypes DEF NoRow, Homeless, Holds, Over
<1>2. CASE i \notin DOMAIN member
 <2>1. Added(q, member'[i]) /\ i = Len(member) + 1 BY <1>0, <1>2, RowsAre
 <2> QED BY <1>1, <2>1 DEF Added
<1>3. CASE i \in DOMAIN member
 <2>1. RowMove(q, i, member'[i]) BY <1>0, <1>3, RowsAre
 <2> QED BY <1>1, <1>3, <2>1 DEF RowMove, Joined
<1> QED BY <1>2, <1>3

\* Nobody gets a second row.
LEMMA OneRowStep ==
  ASSUME Base, OneRow, NoRow, NEW q \in Calls, Stepped(q)
  PROVE  OneRow'
<1>1. SUFFICES ASSUME NEW i \in DOMAIN member', NEW j \in DOMAIN member', i # j, member'[i].user = member'[j].user,
                      member'[i].user # None
               PROVE  FALSE
  BY DEF OneRow
<1>2. CASE i \in DOMAIN member /\ member'[i].user = member[i].user
 <2>1. CASE j \in DOMAIN member /\ member'[j].user = member[j].user BY <1>1, <1>2, <2>1 DEF OneRow
 <2>2. CASE ~(j \in DOMAIN member /\ member'[j].user = member[j].user) BY <1>1, <1>2, <2>2, NewRowsUser
 <2> QED BY <2>1, <2>2
<1>3. CASE ~(i \in DOMAIN member /\ member'[i].user = member[i].user)
 <2>1. /\ member'[i].user = call[q].user /\ \A k \in DOMAIN member : member[k].user # call[q].user
       /\ i = IF call[q].pc = "join" THEN call[q].row ELSE Len(member) + 1
   BY <1>1, <1>3, NewRowsUser
 <2> QED BY <1>1, <2>1, NewRowsUser
<1> QED BY <1>2, <1>3

\* Whoever is between the account and its team has no row yet.
LEMMA NoRowStep ==
  ASSUME Base, NoRow, NEW q \in Calls, Stepped(q)
  PROVE  NoRow'
<1>0. Turn(q) /\ MembersMove(q) /\ None \notin Users BY Typing DEF Stepped
<1>1. ASSUME NEW r \in Calls, call'[r].pc \in Homeless
      PROVE  call'[r].user \in Users
  BY <1>0, <1>1, CallTypes DEF Turn, Holds, Homeless, Over
<1>2. ASSUME call'[q].pc \in Homeless
      PROVE  /\ \A r \in Calls : r # q /\ call[r].pc \in Homeless => call'[q].user # call[r].user
             /\ \A i \in DOMAIN member : member[i].user # call'[q].user
             /\ call[q].pc \in {"team", "create"}
 <2>1. CASE call'[q].pc = "owner"
  <3>1. call[q].pc = "team" BY <1>0, <2>1 DEF Turn, Enters, EntersTeams
  <3>2. call'[q].user = call[q].user
   <4>1. Does(q).op # "cleanup" BY <3>1, CallTypes DEF InPlace, Making, SignUps
   <4> QED BY <1>0, <3>1, <4>1 DEF Turn, Remembers
  <3> QED BY <3>1, <3>2 DEF NoRow, Homeless
 <2>2. CASE call'[q].pc \in {"team", "join"}
  <3>1. call[q].pc = "create" /\ call'[q].user \in Unused BY <1>0, <2>2 DEF Turn, Enters, EntersTeams
  <3>2. call'[q].user \in Users /\ user[call'[q].user].st = "none" /\ call'[q].user # None BY <1>0, <3>1 DEF Unused
  <3> QED BY <3>1, <3>2 DEF Base, Known
 <2> QED BY <1>2, <2>1, <2>2 DEF Homeless
<1>3. ASSUME NEW r \in Calls, call'[r].pc \in Homeless, NEW i \in DOMAIN member'
      PROVE  member'[i].user # call'[r].user
 <2>1. SUFFICES ASSUME member'[i].user = call'[r].user
                PROVE  FALSE
   OBVIOUS
 <2>2. member'[i].user # None BY <1>0, <1>1, <1>3, <2>1
 <2>3. CASE r = q
  <3>1. i \in DOMAIN member /\ member'[i].user = member[i].user BY <1>2, <1>3, <2>2, <2>3, NewRowsUser
  <3> QED BY <1>2, <1>3, <2>1, <2>3, <3>1
 <2>4. CASE r # q
  <3>1. call'[r] = call[r] BY <1>0, <2>4 DEF Turn
  <3>2. member'[i].user = call[q].user /\ call[q].pc \in {"owner", "join"}
    BY <1>3, <2>1, <2>2, <3>1, NewRowsUser DEF NoRow
  <3> QED BY <1>3, <2>1, <2>4, <3>1, <3>2 DEF NoRow, Homeless
 <2> QED BY <2>3, <2>4
<1>4. ASSUME NEW r \in Calls, NEW s \in Calls, r # s, call'[r].pc \in Homeless, call'[s].pc \in Homeless
      PROVE  call'[r].user # call'[s].user
 <2>1. (r # q => call'[r] = call[r]) /\ (s # q => call'[s] = call[s]) BY <1>0 DEF Turn
 <2> QED BY <1>2, <1>4, <2>1 DEF NoRow
<1> QED BY <1>3, <1>4 DEF NoRow

\* The invitation a sign-up took waits, unless another one took it or a removal came.
LEMMA JoiningStep ==
  ASSUME Base, Joining, NEW q \in Calls, Stepped(q)
  PROVE  Joining'
<1>0. Turn(q) /\ MembersMove(q) /\ None \notin Emails BY Typing DEF Stepped
<1>1. SUFFICES ASSUME NEW r \in Calls, call'[r].pc \in {"create", "join"}, call'[r].row # 0,
                      NEW i, i = call'[r].row
               PROVE  /\ member'[i].email # None
                      /\ \/ member'[i].status = "pending"
                         \/ member'[i].status = "active" /\ \E s \in Calls : SharedRow(r, s)' /\ Made(s)' /\ call'[s].user = member'[i].user
                         \/ member'[i].status = "removed" /\ Racing(r, {"remove", "cleanup"})'
  BY DEF Joining
<1>2. Does(r).op \in SignUps /\ i \in DOMAIN member
 <2>1. InPlace(r, call'[r]) /\ call'[r].row \in 0 .. Len(member) BY <1>0, CallTypes DEF Turn, Holds
 <2>2. Len(member) \in Nat /\ DOMAIN member = 1 .. Len(member) BY Typing
 <2> QED BY <1>1, <2>1, <2>2 DEF InPlace, Making
<1>3. RowMove(q, i, member'[i]) BY <1>0, <1>2, RowsLast
\* A step of another kind leaves what was true.
<1>4. ASSUME call[r].pc \in {"create", "join"}, call[r].row = i, member'[i].user = member[i].user, member'[i].status = member[i].status
      PROVE  /\ member'[i].email # None
             /\ \/ member'[i].status = "pending"
                \/ member'[i].status = "active" /\ \E s \in Calls : SharedRow(r, s)' /\ Made(s)' /\ call'[s].user = member'[i].user
                \/ member'[i].status = "removed" /\ Racing(r, {"remove", "cleanup"})'
 <2>1. /\ member[i].email # None /\ member'[i].email = member[i].email
       /\ \/ member[i].status = "pending"
          \/ member[i].status = "active" /\ \E s \in Calls : SharedRow(r, s) /\ Made(s) /\ call[s].user = member[i].user
          \/ member[i].status = "removed" /\ Racing(r, {"remove", "cleanup"})
   BY <1>1, <1>3, <1>4 DEF Joining, RowMove
 <2>2. CASE member[i].status = "active"
  <3>1. PICK s \in Calls : SharedRow(r, s) /\ Made(s) /\ call[s].user = member[i].user BY <2>1, <2>2
  <3>2. member[i].user \in Users /\ Does(s).op # "cleanup" BY <1>2, <2>2, <3>1 DEF Base, Accounted, Made, SignUps
  <3>3. SharedRow(r, s)' /\ Made(s)' /\ call'[s].user = member'[i].user
    BY <1>0, <1>4, <3>1, <3>2, SharedStays, MadeStays, NamesStays
  <3> QED BY <1>4, <2>1, <2>2, <3>3
 <2>3. CASE member[i].status = "removed" BY <1>0, <1>4, <2>1, <2>3, RacingStays DEF Started
 <2> QED BY <1>4, <2>1, <2>2, <2>3
<1>5. CASE r = q
 <2>1. Does(q).op \notin {"remove", "cleanup"} BY <1>2, <1>5 DEF SignUps
 <2>2. CASE call'[q].pc = "create"
  <3>1. call[q].pc = "new" BY <1>0, <2>2 DEF Turn, Enters, EntersTeams
  <3>2. Does(q).op \in {"register", "oauth"} /\ i \in Invited(Does(q).email)
    BY <1>0, <1>1, <1>2, <1>5, <2>2 DEF Turn, Enters, EntersTeams, SignUps
  <3>3. member[i].status = "pending" /\ member[i].email \in Emails BY <3>2, Typing DEF Invited
  <3> QED BY <1>0, <1>3, <2>1, <3>1, <3>3 DEF RowMove, Joined
 <2>3. CASE call'[q].pc = "join"
  <3>1. call[q].pc = "create" BY <1>0, <2>3 DEF Turn, Enters, EntersTeams
  <3>2. call[q].row = i BY <1>0, <1>1, <1>5, <3>1 DEF Turn, Remembers
  <3>3. member'[i].user = member[i].user /\ member'[i].status = member[i].status
    BY <1>3, <2>1, <3>1 DEF RowMove, Joined
  <3> QED BY <1>4, <1>5, <3>1, <3>2, <3>3
 <2> QED BY <1>1, <1>5, <2>2, <2>3
<1>6. CASE r # q
 <2>1. call'[r] = call[r] /\ Started(r) /\ call[r].pc \notin Over BY <1>0, <1>1, <1>6 DEF Turn, Started, Over
 <2>2. CASE member'[i].user = member[i].user /\ member'[i].status = member[i].status BY <1>1, <1>4, <2>1, <2>2
 <2>3. member'[i].email # None BY <1>1, <1>3, <2>1 DEF RowMove, Joining
 <2>4. CASE member'[i].status = "removed" /\ Does(q).op \in {"remove", "cleanup"}
   BY <1>0, <1>6, <2>1, <2>3, <2>4, RacingNow
 <2>5. CASE Joined(q, i, member'[i])
  <3>1. Does(q).op \in SignUps /\ call[q].seen # 0 /\ call[q].user \in Users
    BY <2>5, CallTypes DEF Joined, InPlace, Holds, Making, Over
  <3>2. call'[q].user = call[q].user /\ call'[q].seen = call[q].seen /\ call'[q].row = i
    BY <1>0, <2>5, <3>1 DEF Turn, Remembers, Joined, SignUps
  <3>3. Overlap(r, q)' /\ Does(q)' = Does(q) /\ Does(r)' = Does(r) BY <1>0, <1>6, <2>1, OverlapNow, TheRest
  <3>4. SharedRow(r, q)' /\ Made(q)' BY <1>1, <1>2, <3>1, <3>2, <3>3 DEF SharedRow, Made
  <3> QED BY <2>3, <2>5, <3>2, <3>4 DEF Joined
 <2> QED BY <1>3, <2>2, <2>4, <2>5 DEF RowMove
<1> QED BY <1>5, <1>6

\* A team that is there has its owner's row, or its maker's call.
LEMMA OwnedStep ==
  ASSUME Base, Joining, Owned, NEW q \in Calls, Step(q), Stepped(q)
  PROVE  Owned'
<1>0. Turn(q) /\ MembersMove(q) /\ TeamsMove(q) BY DEF Stepped
<1>1. SUFFICES ASSUME NEW u \in Users, team'[u].st = "live"
               PROVE  \/ \E i \in DOMAIN member' : member'[i].user = u /\ member'[i].email = None
                      \/ \E r \in Calls : Made(r)' /\ call'[r].user = u /\ call'[r].pc \in {"owner", "dead"}
  BY DEF Owned
<1>2. CASE team[u].st # "live"
 <2>1. call[q].pc = "team" /\ call[q].user = u /\ call'[q].pc = "owner" BY <1>0, <1>1, <1>2 DEF TeamsMove, TeamRowMove
 <2>2. Does(q).op \in SignUps /\ call[q].seen # 0 BY <2>1, CallTypes DEF InPlace, Holds, Making
 <2>3. Made(q) BY <2>2 DEF Made
 <2>4. Made(q)' /\ call'[q].user = u BY <1>0, <2>1, <2>2, <2>3, MadeStays, NamesStays DEF SignUps
 <2> QED BY <2>1, <2>4
<1>3. CASE \E i \in DOMAIN member : member[i].user = u /\ member[i].email = None
 <2>1. PICK i \in DOMAIN member : member[i].user = u /\ member[i].email = None BY <1>3
 <2>2. i \in DOMAIN member' /\ RowMove(q, i, member'[i]) /\ ~Joined(q, i, member'[i])
   BY <1>0, <2>1, RowsLast, JoinsInvitation
 <2> QED BY <2>1, <2>2 DEF RowMove
<1>4. CASE \E r \in Calls : Made(r) /\ call[r].user = u /\ call[r].pc \in {"owner", "dead"}
 <2>1. PICK r \in Calls : Made(r) /\ call[r].user = u /\ call[r].pc \in {"owner", "dead"} BY <1>4
 <2>2. Made(r)' /\ call'[r].user = u BY <1>0, <1>1, <2>1, MadeStays, NamesStays DEF Made, SignUps
 <2>3. CASE r # q \/ call'[r].pc = "dead"
  <3>1. call'[r].pc \in {"owner", "dead"} BY <1>0, <2>1, <2>3 DEF Turn
  <3> QED BY <2>2, <3>1
 <2>4. CASE r = q /\ call'[r].pc # "dead"
  <3>1. call[q].pc = "owner" BY <1>0, <2>1, <2>4 DEF Turn, Remembers, Over
  <3>2. ~Die(q)
   <4>1. Die(q) => call'[q].pc = "dead" BY CallTypes, Typing DEF Die, CallRow
   <4> QED BY <2>4, <4>1
  <3>3. MakeOwner(q) BY <3>1, <3>2, AtPlace
  <3>4. /\ Len(member') = Len(member) + 1
        /\ member'[Len(member) + 1].user = u /\ member'[Len(member) + 1].email = None
    BY <2>1, <2>4, <3>3, MakeOwnerMembers
  <3>5. Len(member) + 1 \in DOMAIN member'
   <4>1. Len(member) \in Nat /\ member' \in Seq(MemberRow) BY <1>0, Typing DEF MembersMove
   <4> QED BY <3>4, <4>1
  <3> QED BY <3>4, <3>5
 <2> QED BY <2>3, <2>4
<1>5. CASE team[u].st = "live" BY <1>1, <1>3, <1>4, <1>5 DEF Owned
<1> QED BY <1>2, <1>5

\* Why an account may be without a team.
HomelessCall(u, q) ==
  /\ Made(q) /\ call[q].user = u
  /\ \/ call[q].pc \in {"join", "team", "owner", "dead"}
     \/ call[q].end = "threw" /\ Racing(q, {"remove", "cleanup"})
     \/ \E r \in Calls : SharedRow(q, r)
HomelessRow(u) == \E i \in DOMAIN member : member[i].user = u /\ member[i].status = "removed"

\* What there is when an account has no team.
LEMMA HomelessIs ==
  TeamForEveryone <=> \A u \in Users : user[u].st = "live" /\ ~HasTeam(u) =>
                         HomelessRow(u) \/ \E q \in Calls : HomelessCall(u, q)
<1>1. \A u \in Users : Live(u) <=> user[u].st = "live" BY DEF Live
<1> QED BY <1>1 DEF TeamForEveryone, HomelessCall, HomelessRow

\* The same, after the step.
LEMMA HomelessIsPrime ==
  TeamForEveryone' <=> \A u \in Users : user'[u].st = "live" /\ ~HasTeam(u)' =>
                         HomelessRow(u)' \/ \E q \in Calls : HomelessCall(u, q)'
<1>1. \A u \in Users : Live(u)' <=> user'[u].st = "live" BY DEF Live
<1> QED BY <1>1 DEF TeamForEveryone, HomelessCall, HomelessRow

\* A row that was removed stays, with its user.
LEMMA HomelessRowStays ==
  ASSUME Base, NEW q \in Calls, Stepped(q), NEW u \in Users, HomelessRow(u)
  PROVE  HomelessRow(u)'
<1>1. PICK i \in DOMAIN member : member[i].user = u /\ member[i].status = "removed" BY DEF HomelessRow
<1>2. i \in DOMAIN member' /\ RowMove(q, i, member'[i]) BY <1>1, RowsLast DEF Stepped
<1> QED BY <1>1, <1>2 DEF HomelessRow, RowMove, Joined

\* A row of a member that another sign-up takes over, or that is removed.
LEMMA RowLost ==
  ASSUME Base, Joining, NEW q \in Calls, Stepped(q), NEW u \in Users, NEW i \in DOMAIN member,
         member[i].user = u, member[i].status = "active",
         ~(member'[i].user = u /\ member'[i].status = "active")
  PROVE  HomelessRow(u)' \/ \E r \in Calls : HomelessCall(u, r)'
<1>0. Turn(q) /\ MembersMove(q) BY DEF Stepped
<1>1. i \in DOMAIN member' /\ RowMove(q, i, member'[i]) BY <1>0, RowsLast
<1>2. CASE member'[i].user = u /\ member'[i].status = "removed" BY <1>1, <1>2 DEF HomelessRow
<1>3. CASE Joined(q, i, member'[i])
 <2>1. call[q].pc = "join" /\ call[q].row = i /\ i # 0 BY <1>3, CallTypes DEF Joined, Holds
 <2>2. PICK r \in Calls : SharedRow(q, r) /\ Made(r) /\ call[r].user = u BY <2>1 DEF Joining
 <2>3. SharedRow(r, q)' /\ Made(r)' /\ call'[r].user = u
   BY <1>0, <2>2, SharedTurned, SharedStays, MadeStays, NamesStays DEF Made, SignUps
 <2> QED BY <2>3 DEF HomelessCall
<1> QED BY <1>1, <1>2, <1>3 DEF RowMove

\* A sign-up that was an excuse is one, or has given the account a team.
LEMMA HomelessCallStays ==
  ASSUME Base, Joining, NEW q \in Calls, Step(q), Stepped(q), NEW u \in Users, NEW r \in Calls, HomelessCall(u, r)
  PROVE  HomelessCall(u, r)' \/ HasTeam(u)'
<1>0. Turn(q) /\ MembersMove(q) /\ Made(r) /\ call[r].user = u /\ Does(r).op \in SignUps /\ Does(r).op # "cleanup"
  BY DEF Stepped, HomelessCall, Made, SignUps
<1>1. Made(r)' /\ call'[r].user = u /\ Started(r) BY <1>0, MadeStays, NamesStays
<1>2. CASE \E s \in Calls : SharedRow(r, s) BY <1>0, <1>1, <1>2, SharedStays DEF HomelessCall
<1>3. CASE call[r].end = "threw" /\ Racing(r, {"remove", "cleanup"})
 <2>1. r # q BY <1>0, <1>3, CallTypes DEF Turn, Remembers, Holds, Over
 <2>2. call'[r] = call[r] /\ Racing(r, {"remove", "cleanup"})' BY <1>0, <1>1, <1>3, <2>1, RacingStays DEF Turn
 <2> QED BY <1>1, <1>3, <2>2 DEF HomelessCall
<1>4. CASE call[r].pc \in {"join", "team", "owner", "dead"}
 <2>1. CASE r # q \/ call'[r].pc \in {"join", "team", "owner", "dead"}
  <3>1. call'[r].pc \in {"join", "team", "owner", "dead"} BY <1>0, <1>4, <2>1 DEF Turn
  <3> QED BY <1>1, <3>1 DEF HomelessCall
 <2>2. CASE r = q /\ call'[r].pc \notin {"join", "team", "owner", "dead"}
  <3>1. call[q].pc \in {"join", "team", "owner"} BY <1>0, <1>4, <2>2 DEF Turn, Remembers, Over
  <3>2. ~Die(q)
   <4>1. Die(q) => call'[q].pc = "dead" BY CallTypes, Typing DEF Die, CallRow
   <4> QED BY <2>2, <4>1
  <3>3. CASE call[q].pc = "team" BY <1>0, <2>2, <3>3 DEF Turn, Enters, EntersTeams
  <3>4. CASE call[q].pc = "owner"
   <4>1. MakeOwner(q) BY <3>2, <3>4, AtPlace
   <4>2. /\ Len(member') = Len(member) + 1
         /\ member'[Len(member) + 1].user = u /\ member'[Len(member) + 1].status = "active"
     BY <1>0, <2>2, <4>1, MakeOwnerMembers
   <4>3. Len(member) + 1 \in DOMAIN member'
    <5>1. Len(member) \in Nat /\ member' \in Seq(MemberRow) BY <1>0, Typing DEF MembersMove
    <5> QED BY <4>2, <5>1
   <4> QED BY <4>2, <4>3 DEF HasTeam
  <3>5. CASE call[q].pc = "join"
   <4> DEFINE i == call[q].row
   <4>1. i # 0 /\ i \in DOMAIN member BY <3>5, CallTypes, Typing DEF Holds
   <4>2. JoinTeam(q) BY <3>2, <3>5, AtPlace
   <4>3. CASE call'[q].end = "threw"
    <5>1. member[i].status = "removed" BY <1>0, <3>5, <4>3 DEF Turn, Enters, EntersTeams, Holds, Outcomes
    <5>2. Racing(q, {"remove", "cleanup"}) BY <3>5, <4>1, <5>1 DEF Joining
    <5>3. Racing(q, {"remove", "cleanup"})' BY <1>0, <1>1, <2>2, <5>2, RacingStays
    <5> QED BY <1>1, <2>2, <4>3, <5>3 DEF HomelessCall
   <4>4. CASE call'[q].end # "threw"
    <5>1. Joined(q, i, member'[i]) /\ i \in DOMAIN member' BY <1>0, <4>1, <4>2, <4>4, JoinTeamMembers, RowsLast
    <5> QED BY <1>0, <2>2, <5>1 DEF Joined, HasTeam
   <4> QED BY <4>3, <4>4
  <3> QED BY <3>1, <3>3, <3>4, <3>5
 <2> QED BY <2>1, <2>2
<1> QED BY <1>2, <1>3, <1>4 DEF HomelessCall

\* Who has no team has an excuse after the step.
LEMMA TeamForEveryoneStep ==
  ASSUME Base, TeamInv, NEW q \in Calls, Step(q), Stepped(q)
  PROVE  TeamForEveryone'
<1>0. Turn(q) /\ UsersMove(q) /\ MembersMove(q) /\ TeamsMove(q) /\ Joining /\ Owned /\ OwnRow /\ TeamForEveryone
  BY DEF Stepped, TeamInv
<1>1. SUFFICES ASSUME NEW u \in Users, user'[u].st = "live", ~HasTeam(u)'
               PROVE  HomelessRow(u)' \/ \E r \in Calls : HomelessCall(u, r)'
  BY HomelessIsPrime
<1>2. CASE user[u].st # "live"
 <2>1. Born(q, u, user'[u]) BY <1>0, <1>1, <1>2, Lives
 <2>2. /\ Does(q).op \in SignUps /\ call'[q].seen = codes + 1 /\ call'[q].pc \in {"team", "join"} /\ call'[q].user = u
       /\ Does(q)' = Does(q) /\ codes \in Nat
   BY <1>0, <2>1, BornIs, Typing DEF Born, Turn, Does
 <2>3. Made(q)' BY <2>2 DEF Made
 <2> QED BY <2>2, <2>3 DEF HomelessCall
<1>3. CASE user[u].st = "live" /\ ~HasTeam(u)
 <2>1. HomelessRow(u) \/ \E r \in Calls : HomelessCall(u, r) BY <1>0, <1>3, HomelessIs
 <2> QED BY <1>0, <1>1, <2>1, HomelessRowStays, HomelessCallStays
<1>4. CASE \E i \in DOMAIN member : member[i].user = u /\ member[i].status = "active"
 <2>1. PICK i \in DOMAIN member : member[i].user = u /\ member[i].status = "active" BY <1>4
 <2>2. i \in DOMAIN member' BY <1>0, RowsLast
 <2>3. ~(member'[i].user = u /\ member'[i].status = "active") BY <1>1, <2>2 DEF HasTeam
 <2> QED BY <1>0, <2>1, <2>3, RowLost
<1>5. CASE team[u].st = "live"
 <2>1. team'[u].st # "live" BY <1>1 DEF HasTeam
 <2>2. Does(q).op = "cleanup" /\ \A i \in OfTeam(u) : member'[i].status = "removed"
   BY <1>0, <1>5, <2>1 DEF TeamsMove, TeamRowMove
 <2>3. CASE \E i \in DOMAIN member : member[i].user = u /\ member[i].email = None
  <3>1. PICK i \in DOMAIN member : member[i].user = u /\ member[i].email = None BY <2>3
  <3>2. member[i].team = u /\ member'[i].status = "removed" /\ i \in DOMAIN member' /\ RowMove(q, i, member'[i])
    BY <1>0, <2>2, <3>1, RowsLast DEF OwnRow, OfTeam
  <3>3. member'[i].user = u BY <3>1, <3>2 DEF RowMove, Joined
  <3> QED BY <3>2, <3>3 DEF HomelessRow
 <2>4. CASE \E r \in Calls : Made(r) /\ call[r].user = u /\ call[r].pc \in {"owner", "dead"}
  <3>1. PICK r \in Calls : Made(r) /\ call[r].user = u /\ call[r].pc \in {"owner", "dead"} BY <2>4
  <3>2. r # q BY <2>2, <3>1 DEF Made, SignUps
  <3>3. Made(r)' /\ call'[r] = call[r] BY <1>0, <3>1, <3>2, MadeStays DEF Turn
  <3> QED BY <3>1, <3>3 DEF HomelessCall
 <2> QED BY <1>0, <1>5, <2>3, <2>4 DEF Owned
<1> QED BY <1>2, <1>3, <1>4, <1>5 DEF HasTeam

\* The part of the invariant about teams is kept.
LEMMA TeamStepKeeps ==
  ASSUME Base, TeamInv, NEW q \in Calls, Step(q), Stepped(q)
  PROVE  TeamInv'
<1>1. OwnRow /\ OneRow /\ NoRow /\ Joining /\ Owned BY DEF TeamInv
<1> QED BY <1>1, OwnRowStep, OneRowStep, NoRowStep, JoiningStep, OwnedStep, TeamForEveryoneStep DEF TeamInv

--------------------
(* Invitations *)

\* Who comes to hold an address.
LEMMA Arrives ==
  ASSUME Base, NEW q \in Calls, Stepped(q), NEW e, With(e)' # {}, With(e) = {}
  PROVE  \E u \in Users : user'[u].email = e /\ (Born(q, u, user'[u]) \/ Readdressed(q, u, user'[u]))
<1>0. UsersMove(q) BY DEF Stepped
<1>1. PICK u \in Users : user'[u].st = "live" /\ user'[u].email = e BY DEF With, Live
<1>2. ~(user[u].st = "live" /\ user[u].email = e) BY DEF With, Live
<1> QED BY <1>0, <1>1, <1>2, Lives DEF Edited

\* Who arrives at an address is one of the Arrivals.
LEMMA ArriversAre ==
  ASSUME Base, NEW q \in Calls, NEW u, NEW s, Born(q, u, s) \/ Readdressed(q, u, s)
  PROVE  Does(q).op \in Arrivals /\ call[q].pc \in {"create", "change", "email"}
  BY CallTypes DEF Born, Readdressed, InPlace, Making, Arrivals

\* An invitation is written for a stranger, unless somebody arrived meanwhile.
LEMMA InvitingStep ==
  ASSUME Base, Inviting, NEW q \in Calls, Stepped(q)
  PROVE  Inviting'
<1>0. Turn(q) /\ plan' = plan BY DEF Stepped, Turn
<1>1. SUFFICES ASSUME NEW r \in Calls, call'[r].pc = "invite", NEW e, e = Does(r).email, With(e)' # {}
               PROVE  Racing(r, Arrivals)'
 <2>1. \A r \in Calls : Does(r)' = Does(r) BY <1>0 DEF Does
 <2> QED BY <1>1, <2>1 DEF Inviting, With
<1>2. CASE r = q
 <2>1. call[q].pc = "new" /\ With(e) = {} BY <1>0, <1>1, <1>2 DEF Turn, Enters, EntersTeams
 <2> QED BY <1>1, <2>1, Arrives, ArriversAre
<1>3. CASE r # q
 <2>1. call[r].pc = "invite" /\ Started(r) /\ call[r].pc \notin Over BY <1>0, <1>1, <1>3 DEF Turn, Started, Over
 <2>2. CASE Racing(r, Arrivals) BY <1>0, <2>1, <2>2, RacingStays
 <2>3. CASE With(e) = {}
  <3>1. Does(q).op \in Arrivals BY <1>1, <2>3, Arrives, ArriversAre
  <3> QED BY <1>0, <1>3, <2>1, <3>1, RacingNow
 <2> QED BY <1>1, <2>1, <2>2, <2>3 DEF Inviting
<1> QED BY <1>2, <1>3

\* An invitation that came late came late for good.
LEMMA LateStays ==
  ASSUME Base, NEW q \in Calls, Turn(q), NEW e, Late(e)
  PROVE  Late(e)'
<1>1. PICK r \in Calls : Does(r).op = "invite" /\ Does(r).email = e /\ Started(r) /\ Racing(r, Arrivals) BY DEF Late
<1>2. Does(r)' = Does(r) /\ Started(r)' /\ Racing(r, Arrivals)' BY <1>1, TheRest, RacingStays
<1> QED BY <1>1, <1>2 DEF Late

\* A row that waits has waited, or is being written.
LEMMA WaitingRow ==
  ASSUME Base, NEW q \in Calls, Stepped(q), NEW i \in DOMAIN member', member'[i].status = "pending"
  PROVE  \/ i \in DOMAIN member /\ member[i].status = "pending" /\ member'[i].email = member[i].email
         \/ call[q].pc = "invite" /\ Does(q).op = "invite" /\ member'[i].email = Does(q).email
<1>1. CASE i \in DOMAIN member
 <2>1. RowMove(q, i, member'[i]) BY <1>1, RowsAre DEF Stepped
 <2> QED BY <1>1, <2>1 DEF RowMove, Joined
<1>2. CASE i \notin DOMAIN member
 <2>1. Added(q, member'[i]) BY <1>2, RowsAre DEF Stepped
 <2> QED BY <2>1, CallTypes DEF Added, InPlace
<1> QED BY <1>1, <1>2

\* A sign-up without an invitation had none before.
LEMMA UnaskedBefore ==
  ASSUME Base, NEW q \in Calls, Stepped(q), Unasked(q)'
  PROVE  Unasked(q) \/ (call'[q].pc = "create" /\ Invited(Does(q).email) = {} /\ call[q].pc = "new")
<1>0. Turn(q) /\ Does(q)' = Does(q) BY DEF Stepped, Turn, Does
<1> DEFINE c == call[q]
           d == call'[q]
<1>1. /\ Does(q).op \in {"register", "oauth"} /\ d.row = 0 /\ d.pc \in {"create", "team", "owner", "quotas", "mail", "signIn"}
      /\ (d.pc = "create" \/ d.seen # 0)
  BY <1>0 DEF Unasked
<1>2. EntersTeams(q, c, d) /\ Remembers(q, c, d) BY <1>0 DEF Turn, Enters
<1>3. InPlace(q, c) /\ Holds(q, c, Len(member), codes) /\ c.pc \in Pcs BY CallTypes
<1> HIDE DEF c, d
<1>4. CASE c.pc = "new"
 <2>1. d.seen = 0 BY <1>1, <1>2, <1>4 DEF EntersTeams, SignUps
 <2> QED BY <1>1, <1>2, <1>4, <2>1 DEF EntersTeams, c, d
<1>5. CASE c.pc # "new"
 <2>1. c.row = 0 /\ c.pc \notin Over BY <1>1, <1>2, <1>5 DEF Remembers
 <2>2. c.pc \in {"create", "team", "owner", "quotas", "mail", "signIn"}
   BY <1>1, <1>3, <1>5, <2>1 DEF InPlace, Holds, Pcs, Making, Dropping, Guessing
 <2>3. c.pc # "create" => c.seen # 0 BY <1>1, <1>2, <1>5, <2>2 DEF Remembers, EntersTeams
 <2> QED BY <1>1, <2>1, <2>2, <2>3 DEF Unasked, c
<1> QED BY <1>4, <1>5

\* A sign-up that found no invitation leaves none behind, but for a late one.
LEMMA UninvitedStep ==
  ASSUME Base, Uninvited, NEW q \in Calls, Stepped(q)
  PROVE  Uninvited'
<1>0. Turn(q) /\ \A r \in Calls : Does(r)' = Does(r) BY DEF Stepped, Turn, Does
<1>1. SUFFICES ASSUME NEW r \in Calls, Unasked(r)', NEW i \in DOMAIN member', member'[i].status = "pending",
                      NEW e, e = Does(r).email, member'[i].email = e
               PROVE  Late(e)'
 <2>1. ASSUME NEW r \in Calls, Unasked(r)', NEW i \in DOMAIN member', member'[i].status = "pending",
              member'[i].email = Does(r)'.email
       PROVE  Late(Does(r).email)'
   BY <1>0, <1>1, <2>1 DEF Late
 <2> QED BY <2>1 DEF Uninvited
<1>2. Does(r).op \in {"register", "oauth"} /\ call'[r].pc \notin Over /\ Does(r).op \in Arrivals
  BY <1>0, <1>1 DEF Unasked, Over, Arrivals, SignUps
<1>3. CASE call[q].pc = "invite" /\ Does(q).op = "invite" /\ member'[i].email = Does(q).email
 <2>1. r # q BY <1>2, <1>3
 <2>2. call'[r] = call[r] /\ Started(r) /\ call[r].pc \notin Over /\ Started(r)'
   BY <1>0, <1>1, <1>2, <2>1 DEF Turn, Started, Unasked
 <2>3. Overlap(q, r)' /\ Started(q)' BY <1>0, <2>1, <2>2, OverlapNow, TheRest
 <2>4. Racing(q, Arrivals)' BY <1>0, <1>2, <2>2, <2>3 DEF Racing
 <2> QED BY <1>0, <1>1, <1>3, <2>3, <2>4 DEF Late
<1>4. CASE i \in DOMAIN member /\ member[i].status = "pending" /\ member'[i].email = member[i].email
 <2>1. CASE Unasked(r)
  <3>1. Late(e) BY <1>1, <1>4, <2>1 DEF Uninvited
  <3> QED BY <1>0, <3>1, LateStays
 <2>2. CASE ~Unasked(r)
  <3>1. r = q BY <1>0, <1>1, <2>2 DEF Turn, Unasked
  <3>2. Invited(e) = {} BY <1>1, <2>2, <3>1, UnaskedBefore
  <3> QED BY <1>1, <1>4, <3>2 DEF Invited
 <2> QED BY <2>1, <2>2
<1> QED BY <1>1, <1>3, <1>4, WaitingRow

\* An invitation that was taken does not wait any more.
LEMMA TakenStep ==
  ASSUME Base, Taken, NEW q \in Calls, Step(q), Stepped(q)
  PROVE  Taken'
<1>0. Turn(q) /\ MembersMove(q) /\ \A r \in Calls : Does(r)' = Does(r) BY DEF Stepped, Turn, Does
<1>1. SUFFICES ASSUME NEW r \in Calls, Made(r)', NEW i, i = call'[r].row, i # 0, call'[r].pc \notin {"join", "dead"}
               PROVE  member'[i].status # "pending"
  BY DEF Taken
<1>2. i \in DOMAIN member
 <2>1. call'[r].row \in 0 .. Len(member) BY <1>0, CallTypes DEF Turn, Holds
 <2>2. Len(member) \in Nat /\ DOMAIN member = 1 .. Len(member) BY Typing
 <2> QED BY <1>1, <2>1, <2>2
<1>3. RowMove(q, i, member'[i]) BY <1>0, <1>2, RowsLast
<1>4. CASE Made(r) /\ call[r].row = i /\ call[r].pc \notin {"join", "dead"}
 <2>1. member[i].status # "pending" BY <1>1, <1>4 DEF Taken
 <2> QED BY <1>3, <2>1 DEF RowMove, Joined
<1>5. CASE ~(Made(r) /\ call[r].row = i /\ call[r].pc \notin {"join", "dead"})
 <2>1. r = q BY <1>0, <1>1, <1>5 DEF Turn, Made
 <2>2. Does(q).op \in SignUps /\ call'[q].seen # 0 BY <1>0, <1>1, <2>1 DEF Made
 <2>3. call[q].pc # "new" /\ call[q].pc # "create" BY <1>0, <1>1, <2>1, <2>2 DEF Turn, Enters, EntersTeams, Over
 <2>4. call[q].pc = "join" BY <1>0, <1>1, <1>5, <2>1, <2>2, <2>3 DEF Turn, Remembers, Made, Over
 <2>5. ~Die(q)
  <3>1. Die(q) => call'[q].pc = "dead" BY CallTypes, Typing DEF Die, CallRow
  <3> QED BY <1>1, <2>1, <3>1
 <2>6. JoinTeam(q) /\ call[q].row = i BY <1>0, <1>1, <2>1, <2>3, <2>4, <2>5, AtPlace DEF Turn, Remembers
 <2>7. CASE call'[q].pc # "done" \/ call'[q].end # "threw" BY <2>6, <2>7, JoinTeamMembers DEF Joined
 <2>8. CASE call'[q].pc = "done" /\ call'[q].end = "threw"
  <3>1. member[i].status = "removed" BY <1>0, <2>4, <2>6, <2>8 DEF Turn, Enters, EntersTeams
  <3> QED BY <1>3, <3>1 DEF RowMove, Joined
 <2> QED BY <2>7, <2>8
<1> QED BY <1>4, <1>5

\* An address that moved has moved for good.
LEMMA MovedStays ==
  ASSUME Base, NEW q \in Calls, Turn(q), NEW e, Moved(e)
  PROVE  Moved(e)'
<1>1. PICK r \in Calls : \/ Did(r, {"confirmChange"}, "changed") /\ call[r].to = e
                         \/ Did(r, {"adminEmail"}, "saved") /\ Does(r).email = e
                         \/ Does(r).op = "adminCreate" /\ Started(r) /\ Does(r).email = e
  BY DEF Moved
<1>2. Does(r)' = Does(r) /\ (Started(r) => Started(r)') BY TheRest
<1>3. call[r].end # "none" => call'[r] = call[r] BY CallTypes DEF Turn, Remembers, Holds, Over
<1> QED BY <1>1, <1>2, <1>3 DEF Moved, Did

\* Why an invitation may wait for somebody who has an account.
Excused(i, e) ==
  \/ Late(e) \/ Moved(e)
  \/ \E q \in Calls : Made(q) /\ Does(q).email = e /\ (call[q].pc # "done" \/ call[q].row \notin {0, i})

\* The excuse is the one PendingForStrangers names.
LEMMA ExcusedIs ==
  /\ PendingForStrangers <=> \A i \in DOMAIN member : member[i].status = "pending" /\ With(member[i].email) # {} =>
                               Excused(i, member[i].email)
  /\ PendingForStrangers' <=> \A i \in DOMAIN member' : member'[i].status = "pending" /\ With(member[i].email)' # {} =>
                               Excused(i, member[i].email)'
<1>1. PendingForStrangers <=> \A i \in DOMAIN member : member[i].status = "pending" /\ With(member[i].email) # {} =>
                               Excused(i, member[i].email)
  BY DEF PendingForStrangers, Excused, Late
<1>2. PendingForStrangers' <=> \A i \in DOMAIN member' : member'[i].status = "pending" /\ With(member[i].email)' # {} =>
                               Excused(i, member[i].email)'
  BY DEF PendingForStrangers, Excused, Late
<1> QED BY <1>1, <1>2

\* The sign-up that was the excuse has finished with what it was to do.
LEMMA SignUpEnds ==
  ASSUME Base, InviteInv, NEW q \in Calls, Step(q), Stepped(q), NEW i \in DOMAIN member, NEW e,
         member[i].status = "pending", member[i].email = e, member'[i].status = "pending",
         Made(q), Does(q).email = e, call[q].row \in {0, i}
  PROVE  Excused(i, e)'
<1>0. Turn(q) /\ Does(q)' = Does(q) /\ Uninvited /\ Taken BY DEF Stepped, Turn, Does, InviteInv
<1>1. Made(q)' /\ Started(q) BY <1>0, MadeStays
<1>2. call'[q].row = call[q].row /\ call[q].pc \notin Over /\ call[q].seen # 0 /\ call[q].pc # "new"
  BY <1>0, <1>1 DEF Turn, Remembers, Started, Made
<1>3. CASE call'[q].pc # "done" BY <1>0, <1>1, <1>3 DEF Excused
<1>4. CASE call'[q].pc = "done" /\ call[q].row = i
 <2>1. i # 0 BY Typing
 <2>2. Taken' BY <1>0, TakenStep
 <2> QED BY <1>1, <1>2, <1>4, <2>1, <2>2 DEF Taken
<1>5. CASE call[q].row = 0 /\ Does(q).op = "adminCreate" BY <1>0, <1>5, TheRest DEF Excused, Moved
<1>6. CASE call[q].row = 0 /\ Does(q).op \in {"register", "oauth"}
 <2>1. InPlace(q, call[q]) /\ Holds(q, call[q], Len(member), codes) /\ call[q].pc \in Pcs BY CallTypes
 <2>2. call[q].pc \in {"team", "owner", "quotas", "mail", "signIn"}
   BY <1>2, <1>6, <2>1 DEF InPlace, Holds, Pcs, Making, Dropping, Guessing
 <2>3. Unasked(q) BY <1>2, <1>6, <2>2 DEF Unasked
 <2>4. Late(e) BY <1>0, <2>3 DEF Uninvited
 <2> QED BY <1>0, <2>4, LateStays DEF Excused
<1> QED BY <1>3, <1>4, <1>5, <1>6 DEF Made, SignUps

\* An invitation that was excused stays so.
LEMMA ExcuseStays ==
  ASSUME Base, InviteInv, NEW q \in Calls, Step(q), Stepped(q), NEW i \in DOMAIN member, NEW e,
         member[i].status = "pending", member[i].email = e, member'[i].status = "pending", Excused(i, e)
  PROVE  Excused(i, e)'
<1>0. Turn(q) /\ \A r \in Calls : Does(r)' = Does(r) BY DEF Stepped, Turn, Does
<1>1. CASE Late(e) BY <1>0, <1>1, LateStays DEF Excused
<1>2. CASE Moved(e) BY <1>0, <1>2, MovedStays DEF Excused
<1>3. CASE \E r \in Calls : Made(r) /\ Does(r).email = e /\ (call[r].pc # "done" \/ call[r].row \notin {0, i})
 <2>1. PICK r \in Calls : Made(r) /\ Does(r).email = e /\ (call[r].pc # "done" \/ call[r].row \notin {0, i}) BY <1>3
 <2>2. Made(r)' /\ Started(r) BY <1>0, <2>1, MadeStays
 <2>3. CASE r # q
  <3>1. call'[r] = call[r] BY <1>0, <2>3 DEF Turn
  <3> QED BY <1>0, <2>1, <2>2, <3>1 DEF Excused
 <2>4. CASE r = q /\ call[r].row \notin {0, i}
  <3>1. call'[r].row = call[r].row BY <1>0, <2>2, HandStays
  <3> QED BY <1>0, <2>1, <2>2, <2>4, <3>1 DEF Excused
 <2>5. CASE r = q /\ call[r].row \in {0, i} BY <2>1, <2>5, SignUpEnds
 <2> QED BY <2>3, <2>4, <2>5
<1> QED BY <1>1, <1>2, <1>3 DEF Excused

\* Who has an account is not invited after the step, unless excused.
LEMMA PendingForStrangersStep ==
  ASSUME Base, InviteInv, NEW q \in Calls, Step(q), Stepped(q)
  PROVE  PendingForStrangers'
<1>0. Turn(q) /\ MembersMove(q) /\ (\A r \in Calls : Does(r)' = Does(r)) /\ Inviting /\ PendingForStrangers
  BY DEF Stepped, Turn, Does, InviteInv
<1>1. SUFFICES ASSUME NEW i \in DOMAIN member', member'[i].status = "pending", NEW e, e = member'[i].email, With(e)' # {}
               PROVE  Excused(i, e)'
 <2>1. ASSUME NEW i \in DOMAIN member', member'[i].status = "pending", With(member[i].email)' # {}
       PROVE  Excused(i, member[i].email)'
  <3>1. PICK e : e = member'[i].email OBVIOUS
  <3>2. With(e)' # {} BY <2>1, <3>1 DEF With
  <3>3. Excused(i, e)' BY <1>1, <2>1, <3>1, <3>2
  <3> QED BY <3>1, <3>3 DEF Excused, Late, Moved
 <2> QED BY <2>1, ExcusedIs
<1>2. CASE With(e) = {}
 <2>1. PICK u \in Users : user'[u].email = e /\ (Born(q, u, user'[u]) \/ Readdressed(q, u, user'[u]))
   BY <1>1, <1>2, Arrives
 <2>2. CASE Born(q, u, user'[u])
  <3>1. /\ Does(q).op \in SignUps /\ call'[q].seen = codes + 1 /\ call'[q].pc \in {"team", "join"} /\ Does(q).email = e
        /\ codes \in Nat
    BY <1>0, <2>1, <2>2, BornIs, Typing DEF Born
  <3>2. Made(q)' /\ Does(q)' = Does(q) BY <1>0, <3>1 DEF Made
  <3> QED BY <3>1, <3>2 DEF Excused
 <2>3. CASE Readdressed(q, u, user'[u])
  <3>1. CASE call[q].pc = "change"
   <4>1. /\ Does(q).op = "confirmChange" /\ call'[q].end = "changed" /\ call'[q].to = e
     BY <1>0, <2>1, <2>3, <3>1, CallTypes DEF Readdressed, InPlace, Turn, Remembers
   <4> QED BY <1>0, <4>1 DEF Excused, Moved, Did
  <3>2. CASE call[q].pc = "email"
   <4>1. /\ Does(q).op = "adminEmail" /\ call'[q].end = "saved" /\ Does(q).email = e
     BY <2>1, <2>3, <3>2, CallTypes DEF Readdressed, InPlace
   <4> QED BY <1>0, <4>1 DEF Excused, Moved, Did
  <3> QED BY <2>3, <3>1, <3>2 DEF Readdressed
 <2> QED BY <2>1, <2>2, <2>3
<1>3. CASE With(e) # {} /\ call[q].pc = "invite" /\ Does(q).op = "invite" /\ e = Does(q).email
 <2>1. Racing(q, Arrivals) /\ Started(q) BY <1>0, <1>3 DEF Inviting, Started
 <2>2. Late(e) BY <1>3, <2>1 DEF Late
 <2> QED BY <1>0, <2>2, LateStays DEF Excused
<1>4. CASE With(e) # {} /\ i \in DOMAIN member /\ member[i].status = "pending" /\ e = member[i].email
 <2>1. Excused(i, e) BY <1>0, <1>4, ExcusedIs
 <2> QED BY <1>1, <1>4, <2>1, ExcuseStays
<1> QED BY <1>1, <1>2, <1>3, <1>4, WaitingRow

\* The part of the invariant about invitations is kept.
LEMMA InviteStep ==
  ASSUME Base, InviteInv, NEW q \in Calls, Step(q), Stepped(q)
  PROVE  InviteInv'
<1>1. Inviting /\ Uninvited /\ Taken BY DEF InviteInv
<1> QED BY <1>1, InvitingStep, UninvitedStep, TakenStep, PendingForStrangersStep DEF InviteInv

--------------------
(* Deletions, sessions, resets *)

\* A mark stays, but for a restore.
LEMMA MarkedStays ==
  ASSUME Base, NEW q \in Calls, Stepped(q), NEW u \in Users, user[u].st # "none", Marked(u)
  PROVE  Marked(u)' \/ Does(q).op \in Restorers
<1>1. UsersMove(q) /\ Turn(q) BY DEF Stepped
<1>2. SUFFICES ASSUME user'[u].st = "live", Does(q).op \notin Restorers
               PROVE  user'[u].deleted /\ user'[u].due = "past"
  BY DEF Marked, Live
<1>3. user[u].st = "live" /\ (user'[u] = user[u] \/ Edited(q, u, user'[u])) BY <1>1, <1>2, Lives
<1> QED BY <1>2, <1>3 DEF Marked, Live, Edited

\* Whom the cleanup is about to delete is marked and due, but for a restore that overlaps.
LEMMA DoomStep ==
  ASSUME Base, Doom, NEW q \in Calls, Stepped(q)
  PROVE  Doom'
<1>0. Turn(q) BY DEF Stepped
<1>1. ASSUME NEW r \in Calls, call[r].pc \in Dropping \cup {"next"}, NEW u \in Users, Marked(u) \/ Racing(r, Restorers), user[u].st # "none",
             r # q \/ Does(q).op = "cleanup"
      PROVE  Marked(u)' \/ Racing(r, Restorers)'
 <2>1. Started(r) /\ call[r].pc \notin Over BY <1>1 DEF Started, Dropping, Over
 <2>2. CASE Racing(r, Restorers) BY <1>0, <2>1, <2>2, RacingStays
 <2>3. CASE Marked(u)
  <3>1. Marked(u)' \/ Does(q).op \in Restorers BY <1>1, <2>3, MarkedStays
  <3>2. CASE Does(q).op \in Restorers
   <4>1. r # q BY <1>1, <3>2 DEF Restorers
   <4> QED BY <1>0, <2>1, <3>2, <4>1, RacingNow
  <3> QED BY <3>1, <3>2
 <2> QED BY <1>1, <2>2, <2>3
<1>2. ASSUME NEW r \in Calls, NEW u, call'[r].pc \in Dropping \cup {"next"},
             u \in call'[r].set \/ (call'[r].pc \in Dropping /\ u = call'[r].user)
      PROVE  Marked(u)' \/ Racing(r, Restorers)'
 <2>1. CASE r # q
  <3>1. call'[r] = call[r] BY <1>0, <2>1 DEF Turn
  <3>2. Marked(u) \/ Racing(r, Restorers) BY <1>2, <3>1 DEF Doom
  <3>3. u \in Users /\ user[u].st # "none"
   <4>1. call[r].set \subseteq Users /\ Holds(r, call[r], Len(member), codes) BY CallTypes
   <4>2. u \in Users BY <1>2, <3>1, <4>1 DEF Holds, Over, Dropping
   <4> QED BY <1>2, <3>1, <4>2 DEF Base, Known
  <3> QED BY <1>1, <1>2, <2>1, <3>1, <3>2, <3>3
 <2>2. CASE r = q
  <3>1. Does(q).op = "cleanup" /\ EntersAccounts(q, call[q], call'[q]) /\ Holds(q, call[q], Len(member), codes)
        /\ call[q].set \subseteq Users
    BY <1>0, <1>2, <2>2, CallTypes DEF Turn, InPlace, Enters
  <3>2. CASE call[q].pc = "new" /\ call'[q].set = Doomed /\ call'[q].pc \in {"done", "next"}
   <4>1. u \in Users /\ user[u].st = "live" /\ Marked(u) BY <1>2, <2>2, <3>2 DEF Doomed, Marked, Live, Dropping
   <4> QED BY <3>1, <4>1, MarkedStays DEF Restorers
  <3>3. CASE \/ call[q].pc = "next" /\ call'[q].user \in call[q].set /\ call'[q].set \subseteq call[q].set /\ call'[q].pc \in Dropping
             \/ call[q].pc \in Dropping /\ call'[q].user = call[q].user /\ call'[q].set = call[q].set
   <4>1. call[q].pc \in Dropping \cup {"next"} /\ (u \in call[q].set \/ (call[q].pc \in Dropping /\ u = call[q].user))
     BY <1>2, <2>2, <3>3
   <4>2. Marked(u) \/ Racing(q, Restorers) BY <4>1 DEF Doom
   <4>3. u \in Users BY <3>1, <4>1 DEF Holds, Over, Dropping
   <4>4. user[u].st # "none" BY <4>1, <4>3 DEF Base, Known
   <4> QED BY <1>1, <2>2, <3>1, <4>1, <4>2, <4>3, <4>4
  <3> QED BY <1>2, <2>2, <3>1, <3>2, <3>3 DEF EntersAccounts, Dropping
 <2> QED BY <2>1, <2>2
<1> QED BY <1>2 DEF Doom

\* A login brings the account back.
LEMMA RestoreClears ==
  ASSUME Base, NEW q \in Calls, Restore(q), call'[q].pc = "signIn"
  PROVE  ~user'[call[q].user].deleted
<1>1. call[q].pc = "restore" /\ call[q].user \in Users /\ call[q] \in CallRow BY Where, CallTypes DEF Holds, Over
<1>2. ~Ends(q, "restore", "threw") BY EndsIs
<1>3. user' = [user EXCEPT ![call[q].user] = Restored(call[q].user)] BY <1>2 DEF Restore, Set
<1>4. user \in [Users -> UserRow] /\ user[call[q].user] \in UserRow BY <1>1, Typing
<1>5. ~Restored(call[q].user).deleted BY <1>4 DEF Restored, UserRow
<1> QED BY <1>1, <1>3, <1>4, <1>5

\* A reset takes the code away.
LEMMA WriteResetClears ==
  ASSUME Base, NEW q \in Calls, WriteReset(q), call'[q].end = "reset"
  PROVE  user'[call[q].user].reset = 0
<1> DEFINE u == call[q].user
           s == [user[u] EXCEPT !.pass = TRUE, !.reset = 0]
<1>1. call[q].pc = "reset" /\ u \in Users /\ call[q] \in CallRow BY Where, CallTypes DEF Holds, Over
<1>2. ~Ends(q, "reset", "threw") BY EndsIs
<1>3. user' = [user EXCEPT ![u] = s] BY <1>2 DEF WriteReset, Set
<1>4. user \in [Users -> UserRow] /\ user[u] \in UserRow BY <1>1, Typing
<1>5. s.reset = 0 BY <1>4 DEF UserRow
<1> HIDE DEF s
<1>6. user'[u] = s BY <1>1, <1>3, <1>4
<1> QED BY <1>5, <1>6

\* What a step does to a mark, to a session, to a reset code.
LEMMA MarksMove ==
  ASSUME Base, NEW q \in Calls, Stepped(q), NEW u \in Users, user'[u].st = "live", user'[u].deleted
  PROVE  user[u].st = "live" /\ (user[u].deleted \/ Does(q).op \in {"requestDeletion", "adminDelete"})
<1>1. UsersMove(q) /\ Turn(q) BY DEF Stepped
<1>2. user[u].st = "live" BY <1>1, Lives, BornIs
<1>3. user'[u] = user[u] \/ Edited(q, u, user'[u]) BY <1>1, <1>2, Lives
<1> QED BY <1>2, <1>3 DEF Edited

\* Who is signing in, or signed in, with a password is not marked, but for a deletion asked for since.
LEMMA SignedStep ==
  ASSUME Base, Signed, NEW q \in Calls, Step(q), Stepped(q)
  PROVE  Signed'
<1>0. Turn(q) /\ UsersMove(q) BY DEF Stepped
<1> DEFINE W(r) == \E s \in Calls : Does(s).op \in {"requestDeletion", "adminDelete"} /\ Started(s) /\ s \notin call[r].since
<1>1. ASSUME NEW r \in Calls, Does(r).op = "login", Started(r), W(r)
      PROVE  \E s \in Calls : Does(s).op \in {"requestDeletion", "adminDelete"} /\ Started(s)' /\ s \notin call'[r].since
 <2>1. PICK s \in Calls : Does(s).op \in {"requestDeletion", "adminDelete"} /\ Started(s) /\ s \notin call[r].since
   BY <1>1
 <2> QED BY <1>0, <1>1, <2>1, TheRest
<1>2. ASSUME NEW r \in Calls, Does(r).op = "login", r # q, Started(r), Does(q).op \in {"requestDeletion", "adminDelete"}
      PROVE  \E s \in Calls : Does(s).op \in {"requestDeletion", "adminDelete"} /\ Started(s)' /\ s \notin call'[r].since
  BY <1>0, <1>2, TheRest
<1>3. ASSUME NEW r \in Calls, Does(r).op = "login", call'[r].pc = "signIn" \/ call'[r].end = "in",
             call'[r].user \in Users, user'[call'[r].user].st = "live", user'[call'[r].user].deleted
      PROVE  \E s \in Calls : Does(s).op \in {"requestDeletion", "adminDelete"} /\ Started(s)' /\ s \notin call'[r].since
 <2> DEFINE u == call'[r].user
 <2>1. u \in Users /\ user[u].st = "live" /\ (user[u].deleted \/ Does(q).op \in {"requestDeletion", "adminDelete"})
   BY <1>3, MarksMove
 <2>2. CASE r # q
  <3>1. call'[r] = call[r] /\ Entering(r) /\ u = call[r].user BY <1>0, <1>3, <2>2 DEF Turn, Entering
  <3>2. Started(r) BY <3>1, NewIs DEF Entering, Started
  <3>3. CASE user[u].deleted
   <4>1. W(r) BY <2>1, <3>1, <3>3 DEF Signed, Live
   <4> QED BY <1>1, <1>3, <3>2, <4>1
  <3> QED BY <1>2, <1>3, <2>1, <2>2, <3>2, <3>3
 <2>3. CASE r = q
  <3>1. user[u].deleted BY <1>3, <2>1, <2>3
  <3>2. /\ call'[q].pc = "signIn" => call[q].pc = "restore" \/ ~user[u].deleted
        /\ call'[q].end = "in" => call[q].pc = "signIn"
    BY <1>0, <1>3, <2>3 DEF Turn, Enters, EntersAccounts
  <3>3. call[q].pc \in {"restore", "signIn"} /\ u = call[q].user
   <4>1. call[q].pc \in {"restore", "signIn"} BY <1>3, <2>3, <3>1, <3>2
   <4> QED BY <1>0, <1>3, <2>3, <4>1 DEF Turn, Remembers
  <3>4. CASE call[q].pc = "restore" /\ call'[q].pc = "signIn"
   <4>1. ~Die(q) BY <1>0, <3>4, Typing, CallTypes DEF Die, CallRow
   <4>2. Restore(q) BY <3>4, <4>1, AtPlace
   <4> QED BY <1>3, <2>3, <3>3, <3>4, <4>2, RestoreClears
  <3>5. CASE call[q].pc = "signIn"
   <4>1. W(q) /\ Started(q) BY <1>3, <2>1, <2>3, <3>1, <3>3, <3>5 DEF Signed, Entering, Live, Started
   <4> QED BY <1>1, <1>3, <2>3, <4>1
  <3> QED BY <1>3, <2>3, <3>1, <3>2, <3>3, <3>4, <3>5
 <2> QED BY <2>2, <2>3
<1>4. \A s \in Calls : Does(s)' = Does(s) BY <1>0, TheRest
<1> QED BY <1>3, <1>4 DEF Signed, Entering, Live

\* A refresh goes on only for a session that is stored, but for a revocation that overlaps.
LEMMA RenewingStep ==
  ASSUME Base, Renewing, NEW q \in Calls, Stepped(q)
  PROVE  Renewing'
<1>0. Turn(q) /\ UsersMove(q) BY DEF Stepped
<1>1. SUFFICES ASSUME NEW r \in Calls, call'[r].pc = "renew", call'[r].user \in Users, user'[call'[r].user].st = "live"
               PROVE  user'[call'[r].user].session \/ Racing(r, Revokers)'
  BY DEF Renewing, Live
<1>2. PICK u \in Users : u = call'[r].user BY <1>1
<1>3. ASSUME user[u].st = "live", user[u].session
      PROVE  user'[u].session \/ Does(q).op \in Revokers
 <2>1. user'[u] = user[u] \/ Edited(q, u, user'[u]) BY <1>0, <1>1, <1>2, <1>3, Lives
 <2> QED BY <1>3, <2>1 DEF Edited
<1>4. CASE r # q
 <2>1. call'[r] = call[r] /\ call[r].pc \notin Over /\ Started(r) BY <1>0, <1>1, <1>4 DEF Turn, Started, Over
 <2>2. user[u].st # "none" BY <1>2, <2>1 DEF Base, Known
 <2>3. user[u].st = "live" BY <1>0, <1>1, <1>2, <2>2, Lives
 <2>4. user[u].session \/ Racing(r, Revokers) BY <1>1, <1>2, <2>1, <2>3 DEF Renewing, Live
 <2>5. CASE Racing(r, Revokers) BY <1>0, <2>1, <2>5, RacingStays
 <2>6. CASE user[u].session BY <1>0, <1>2, <1>3, <1>4, <2>1, <2>3, <2>6, RacingNow
 <2> QED BY <2>4, <2>5, <2>6
<1>5. CASE r = q
 <2>1. call[q].pc = "new" /\ user[u].session /\ Does(q).op = "refresh"
   BY <1>0, <1>1, <1>2, <1>5 DEF Turn, Enters, EntersAccounts, InPlace
 <2>2. user[u].st = "live" BY <1>0, <1>1, <1>2, <2>1, Lives DEF Born
 <2> QED BY <1>2, <1>3, <2>1, <2>2 DEF Revokers
<1> QED BY <1>4, <1>5

\* What becomes of a reset code.
LEMMA ResetsMove ==
  ASSUME Base, Resets, NEW q \in Calls, Stepped(q), NEW u \in Users
  PROVE  /\ user'[u].reset \in {0, user[u].reset} \/ (user'[u].reset = codes + 1 /\ codes' = codes + 1 /\ u = Holder(Does(q).email))
         /\ user[u].reset \in 0 .. codes /\ codes \in Nat /\ codes' \in {codes, codes + 1}
<1>1. UsersMove(q) /\ Turn(q) /\ codes \in Nat /\ codes' \in {codes, codes + 1} BY Typing DEF Stepped, OutboxMoves
<1>2. UserMove(q, u, user'[u]) /\ user[u].reset \in 0 .. codes BY <1>1 DEF UsersMove, Resets
<1>3. CASE Born(q, u, user'[u])
 <2>1. user'[u].reset = 0 BY <1>1, <1>3, BornIs
 <2> QED BY <1>1, <1>2, <2>1
<1>4. CASE Died(q, u, user'[u])
 <2>1. user'[u].reset = 0 BY <1>4 DEF Died, NoUser
 <2> QED BY <1>1, <1>2, <2>1
<1>5. CASE Edited(q, u, user'[u]) BY <1>1, <1>2, <1>5 DEF Edited
<1> QED BY <1>1, <1>2, <1>3, <1>4, <1>5 DEF UserMove

\* The call that is to set a password, and its account.
LEMMA ResettingStep ==
  ASSUME Base, Resets, NEW q \in Calls, Step(q), Stepped(q), Resetting(q)'
  PROVE  /\ call'[q].code \in 1 .. codes
         /\ \A u \in Users : user'[u].reset = call'[q].code => u = call'[q].user /\ call'[q].end # "reset"
         /\ \/ Resetting(q) /\ call[q].pc = "reset" /\ call'[q].code = call[q].code
            \/ /\ call[q].pc = "new" /\ call'[q].end # "reset" /\ call'[q].user \in Users
               /\ user[call'[q].user].reset = call'[q].code
<1>0. Turn(q) /\ Does(q)' = Does(q) BY TheRest DEF Stepped
<1>1. ASSUME NEW u \in Users, user'[u].reset = call'[q].code, call'[q].code \in 1 .. codes
      PROVE  user[u].reset = call'[q].code
  BY <1>1, ResetsMove
<1>2. Does(q).op \in {"resetCode", "resetLink"} /\ (call'[q].pc = "reset" \/ call'[q].end = "reset")
  BY <1>0 DEF Resetting
<1>3. CASE call'[q].pc = "reset"
 <2>1. /\ call[q].pc = "new" /\ call'[q].code # 0 /\ call'[q].code = user[call'[q].user].reset /\ call'[q].user \in Users
       /\ call'[q].end # "reset"
   BY <1>0, <1>3 DEF Turn, Enters, EntersAccounts, Holds, Over
 <2>2. call'[q].code \in 1 .. codes
  <3>1. call'[q].code \in 0 .. codes /\ codes \in Nat BY <2>1, ResetsMove
  <3> QED BY <2>1, <3>1
 <2>3. ASSUME NEW u \in Users, user'[u].reset = call'[q].code
       PROVE  u = call'[q].user
  <3>1. user[u].reset = user[call'[q].user].reset /\ user[u].reset # 0 BY <1>1, <2>1, <2>2, <2>3
  <3> QED BY <2>1, <3>1 DEF Resets
 <2> QED BY <2>1, <2>2, <2>3
<1>4. CASE call'[q].end = "reset" /\ call'[q].pc # "reset"
 <2>1. call[q].pc = "reset" /\ Resetting(q) BY <1>0, <1>2, <1>4 DEF Turn, Enters, EntersAccounts, Resetting
 <2>2. call'[q].code = call[q].code /\ call'[q].user = call[q].user BY <1>0, <1>2, <2>1 DEF Turn, Remembers
 <2>3. call[q].code \in 1 .. codes /\ \A u \in Users : user[u].reset = call[q].code => u = call[q].user
   BY <2>1 DEF Resets
 <2>4. ~Die(q)
  <3>1. call[q].end = "none" /\ call[q] \in CallRow /\ call \in [Calls -> CallRow]
    BY <2>1, Typing, CallTypes DEF Holds
  <3> QED BY <1>4, <3>1 DEF Die, CallRow
 <2>5. user'[call[q].user].reset = 0 BY <1>4, <2>1, <2>4, AtPlace, WriteResetClears
 <2>6. ASSUME NEW u \in Users, user'[u].reset = call'[q].code
       PROVE  FALSE
  <3>1. user[u].reset = call[q].code BY <1>1, <2>2, <2>3, <2>6
  <3>2. u = call[q].user /\ call[q].code # 0 BY <2>3, <3>1
  <3> QED BY <2>2, <2>5, <2>6, <3>2
 <2> QED BY <2>1, <2>2, <2>3, <2>6
<1> QED BY <1>2, <1>3, <1>4

\* A reset code belongs to one account, and sets one password.
LEMMA ResetsStep ==
  ASSUME Base, Resets, NEW q \in Calls, Step(q), Stepped(q)
  PROVE  Resets'
<1>0. Turn(q) /\ codes \in Nat /\ codes' \in {codes, codes + 1} BY Typing DEF Stepped, OutboxMoves
<1>00. \A r \in Calls : Does(r)' = Does(r) /\ (r # q => call'[r] = call[r]) BY <1>0, TheRest
<1>1. ASSUME NEW u \in Users
      PROVE  user'[u].reset \in 0 .. codes'
  BY <1>0, <1>1, ResetsMove
<1>2. ASSUME NEW u \in Users, NEW v \in Users, u # v, user'[u].reset = user'[v].reset
      PROVE  user'[u].reset = 0
 <2>1. user[u].reset = user[v].reset => user[u].reset = 0 BY <1>2 DEF Resets
 <2> QED BY <1>0, <1>2, <2>1, ResetsMove
<1>3. ASSUME NEW r \in Calls, call'[r].end = "reset"
      PROVE  Resetting(r)'
 <2>1. CASE r # q BY <1>00, <1>3, <2>1 DEF Resets, Resetting
 <2>2. CASE r = q
  <3>1. call[q].pc = "reset" BY <1>0, <1>3, <2>2 DEF Turn, Enters, EntersAccounts
  <3> QED BY <1>00, <1>3, <2>2, <3>1, CallTypes DEF InPlace, Resetting
 <2> QED BY <2>1, <2>2
<1>4. ASSUME NEW r \in Calls, Resetting(r)'
      PROVE  /\ call'[r].code \in 1 .. codes'
             /\ \A u \in Users : user'[u].reset = call'[r].code => u = call'[r].user /\ call'[r].end # "reset"
 <2>1. CASE r # q
  <3>1. call'[r] = call[r] /\ Resetting(r) BY <1>00, <1>4, <2>1 DEF Resetting
  <3>2. /\ call[r].code \in 1 .. codes
        /\ \A u \in Users : user[u].reset = call[r].code => u = call[r].user /\ call[r].end # "reset"
    BY <3>1 DEF Resets
  <3>3. ASSUME NEW u \in Users, user'[u].reset = call[r].code
        PROVE  user[u].reset = call[r].code
    BY <1>0, <3>2, <3>3, ResetsMove
  <3> QED BY <1>0, <3>1, <3>2, <3>3
 <2>2. CASE r = q BY <1>0, <1>4, <2>2, ResettingStep
 <2> QED BY <2>1, <2>2
<1>5. ASSUME NEW r \in Calls, NEW s \in Calls, r # s, call'[r].end = "reset", Resetting(s)', call'[r].code = call'[s].code
      PROVE  Overlap(r, s)'
 <2>0. Resetting(r)' BY <1>3, <1>5
 <2>1. CASE r # q /\ s # q
  <3>1. call'[r] = call[r] /\ call'[s] = call[s] /\ Resetting(s) BY <1>00, <1>5, <2>1 DEF Resetting
  <3>2. Overlap(r, s) /\ Started(r) /\ Started(s) BY <1>5, <3>1, NewIs DEF Resets, Resetting, Started
  <3> QED BY <1>0, <3>2, OverlapStays
 <2>2. CASE r = q
  <3>1. call'[s] = call[s] /\ Resetting(s) BY <1>00, <1>5, <2>2 DEF Resetting
  <3>2. Resetting(q) /\ call[q].pc = "reset" /\ call'[q].code = call[q].code /\ Started(q) /\ Started(s)
    BY <1>5, <2>0, <2>2, <3>1, ResettingStep, NewIs DEF Started, Resetting
  <3>3. CASE call[s].end = "reset"
   <4>1. Overlap(s, q) BY <1>5, <2>2, <3>1, <3>2, <3>3 DEF Resets
   <4>2. Overlap(q, s) BY <4>1 DEF Overlap
   <4> QED BY <1>0, <2>2, <3>2, <4>2, OverlapStays
  <3>4. CASE call[s].pc = "reset" BY <1>0, <1>5, <2>2, <3>2, <3>4, OverlapNow DEF Over
  <3> QED BY <3>1, <3>3, <3>4 DEF Resetting
 <2>3. CASE s = q /\ r # q
  <3>1. call'[r] = call[r] /\ call[r].end = "reset" /\ Resetting(r) BY <1>00, <1>5, <2>0, <2>3 DEF Resetting
  <3>2. CASE Resetting(q) /\ call[q].pc = "reset" /\ call'[q].code = call[q].code
   <4>1. Overlap(r, q) /\ Started(r) /\ Started(q) BY <1>5, <2>3, <3>1, <3>2, NewIs DEF Resets, Started
   <4> QED BY <1>0, <2>3, <4>1, OverlapStays
  <3>3. CASE call'[q].user \in Users /\ user[call'[q].user].reset = call'[q].code BY <1>5, <2>3, <3>1, <3>3 DEF Resets
  <3> QED BY <1>5, <2>3, <3>2, <3>3, ResettingStep
 <2> QED BY <2>1, <2>2, <2>3
<1> QED BY <1>1, <1>2, <1>3, <1>4, <1>5 DEF Resets

\* The part of the invariant about deletions, sessions and resets is kept.
LEMMA KeptStep ==
  ASSUME Base, KeptInv, NEW q \in Calls, Step(q), Stepped(q)
  PROVE  KeptInv'
  BY DoomStep, SignedStep, RenewingStep, ResetsStep DEF KeptInv

\* What that says of sign-ins and of resets.
LEMMA KeptMeans ==
  ASSUME KeptInv
  PROVE  LoginRestores /\ OneResetPerCode
<1>1. LoginRestores BY DEF KeptInv, Signed, LoginRestores, Did, Entering
<1>2. OneResetPerCode BY DEF KeptInv, Resets, OneResetPerCode
<1> QED BY <1>1, <1>2

\* What a step may not do to an account, and to a session.
LEMMA RestoredIsKeptStep ==
  ASSUME Base, KeptInv, NEW q \in Calls, Stepped(q), NEW u \in Users, Live(u), user'[u].st = "gone"
  PROVE  \/ user[u].deleted /\ user[u].due = "past"
         \/ \E r \in Calls : call[r].pc = "dropUser" /\ call[r].user = u /\ Racing(r, Restorers)
<1>1. call[q].pc = "dropUser" /\ call[q].user = u BY Lives DEF Stepped, Live
<1>2. Marked(u) \/ Racing(q, Restorers) BY <1>1 DEF KeptInv, Doom, Dropping
<1> QED BY <1>1, <1>2 DEF Marked

\* A session comes back to life by a refresh only when a revocation raced it.
LEMMA RefreshStep ==
  ASSUME Base, KeptInv, NEW q \in Calls, Stepped(q), NEW u \in Users, NEW r \in Calls,
         ~user[u].session, user'[u].session, call[r].pc = "renew", call'[r].pc = "done"
  PROVE  Racing(r, Revokers)
<1>1. Turn(q) /\ UsersMove(q) BY DEF Stepped
<1>2. r = q BY <1>1 DEF Turn
<1>3. UserMove(q, u, user'[u]) BY <1>1 DEF UsersMove
<1>4. Edited(q, u, user'[u])
 <2>1. ~Died(q, u, user'[u]) BY <1>2 DEF Died
 <2>2. ~Born(q, u, user'[u]) BY <1>2 DEF Born
 <2> QED BY <1>3, <2>1, <2>2 DEF UserMove
<1>5. Live(u) /\ call[q].user = u BY <1>4 DEF Edited
<1> QED BY <1>2, <1>5 DEF KeptInv, Renewing

--------------------
(* Guesses *)

\* Attempts at one subject are of one kind.
LEMMA OneKind ==
  ASSUME NEW q, NEW r, Key(q) = Key(r)
  PROVE  Does(q).op = Does(r).op
  BY DEF Key

\* A wrong answer to one subject is none to another.
LEMMA MissesApart ==
  ASSUME NEW j, NEW k, j # k
  PROVE  Misses(j) \cap Misses(k) = {}
  BY DEF Misses

\* A step of another call, or one that leaves the counts alone, keeps what is counted.
LEMMA CountStays ==
  ASSUME Base, NEW q \in Calls, Stepped(q), NEW k \in Kinds, Counted(k), Unspent(k)' = Unspent(k),
         Tries(k)' = Tries(k), k \in locked' <=> k \in locked,
         Guesses(q, k) /\ call'[q].pc = "wrong" => call'[q].seen = Tries(k) /\ k \notin locked
  PROVE  Counted(k)'
<1>0. Turn(q) /\ \A r \in Calls : Does(r)' = Does(r) /\ Key(r)' = Key(r) /\ (r # q => call'[r] = call[r])
  BY TheRest DEF Stepped, Key, Subject, Does, Turn
<1>1. \A r \in Calls : Guesses(r, k)' <=> Guesses(r, k) BY <1>0 DEF Guesses
<1>2. \A r \in Calls : Started(r) /\ Raced(r) => Raced(r)' BY <1>0, TheRest, RacingStays DEF Raced
<1>3. Calm(k)' => Calm(k)
 <2>1. \A r \in Unspent(k) : r \in Calls /\ Started(r)
  <3>1. \A r \in Unspent(k) : r \in Calls /\ call[r].end = "wrong" BY DEF Unspent, Misses
  <3> QED BY <3>1, CallTypes DEF Holds, Started
 <2> QED BY <1>2, <2>1 DEF Calm
<1>4. ASSUME NEW r \in Calls, r # q, Counting(r, k)'
      PROVE  Counting(r, k) /\ call'[r].seen = call[r].seen
 <2>1. call'[r] = call[r] /\ Guesses(r, k) /\ call[r].pc = "wrong" /\ Started(r) BY <1>0, <1>1, <1>4 DEF Counting, Started
 <2> QED BY <1>2, <1>4, <2>1 DEF Counting
<1>5. ASSUME Counting(q, k)'
      PROVE  call'[q].seen = Tries(k) /\ k \notin locked
  BY <1>1, <1>5 DEF Counting
<1>6. IsFiniteSet(Unspent(k))' BY DEF Counted
<1>7. \A r \in Calls : Counting(r, k)' => k \notin locked' BY <1>4, <1>5 DEF Counted
<1>8. ASSUME Calm(k)'
      PROVE  /\ Cardinality(Unspent(k)) <= MaxTries
             /\ k \notin locked => Cardinality(Unspent(k)) <= Tries(k)
             /\ \A r \in Calls : Counting(r, k)' => Cardinality(Unspent(k)) <= call'[r].seen
  BY <1>3, <1>4, <1>5, <1>8 DEF Counted
<1>9. (Cardinality(Unspent(k)))' = Cardinality(Unspent(k)) OBVIOUS
<1> QED BY <1>6, <1>7, <1>8, <1>9 DEF Counted

\* A count that begins anew has nothing to count.
LEMMA AnewIs ==
  ASSUME Types', NEW k \in Kinds, Unspent(k)' = {}, MaxTries \in Nat, \A q \in Calls : Counting(q, k)' => k \notin locked'
  PROVE  Counted(k)'
<1>1. IsFiniteSet(Unspent(k))' /\ (Cardinality(Unspent(k)))' = 0 BY FS_EmptySet
<1>2. Tries(k)' \in Nat /\ Tries(k)' >= 0 BY DEF Types, Tries
<1>3. \A q \in Calls : call'[q].seen \in Nat /\ call'[q].seen >= 0 BY DEF Types, CallRow
<1> QED BY <1>1, <1>2, <1>3 DEF Counted

\* One member more is at most one more.
LEMMA OneMore ==
  ASSUME NEW S, NEW x, IsFiniteSet(S), Cardinality(S) \in Nat
  PROVE  IsFiniteSet(S \cup {x}) /\ Cardinality(S \cup {x}) <= Cardinality(S) + 1
<1>1. IsFiniteSet(S \cup {x}) /\ Cardinality(S \cup {x}) = IF x \in S THEN Cardinality(S) ELSE Cardinality(S) + 1
  BY FS_AddElement
<1> QED BY <1>1

\* The count of a subject is at least the number of its misses since it began anew, as
\* long as none of them was given while another answer was.
LEMMA GuessStep ==
  ASSUME Base, GuessInv, NEW q \in Calls, Stepped(q)
  PROVE  GuessInv'
<1>0. Turn(q) /\ CacheMoves(q) /\ MaxTries \in Nat /\ \A r \in Calls : Does(r)' = Does(r) /\ Key(r)' = Key(r) /\ (r # q => call'[r] = call[r])
  BY TheRest, Typing DEF Stepped, Key, Subject, Does, Turn
<1>a. call[q].end = "none" BY <1>0, CallTypes DEF Holds, Turn, Remembers, Over
<1>b. Answered'
 <2>1. \A r \in spent' : r \in Calls /\ call[r].end = "wrong"
   BY <1>0, <1>a, Typing DEF GuessInv, Answered, CacheMoves, Misses
 <2> QED BY <1>0, <1>a, <2>1 DEF Answered
<1>1. SUFFICES ASSUME NEW k \in Kinds
               PROVE  Counted(k)'
  BY <1>b DEF GuessInv
<1>2. Counted(k) BY DEF GuessInv
<1>3. \A r \in Calls : Guesses(r, k)' <=> Guesses(r, k) BY <1>0 DEF Guesses
<1>4. CASE ~Guesses(q, k)
 <2>1. Tries(k)' = Tries(k) /\ (k \in locked' <=> k \in locked) BY <1>0, <1>4 DEF CacheMoves, Guesses
 <2>2. Misses(k)' = Misses(k) BY <1>0, <1>4 DEF Misses, Guesses
 <2>3. spent' = spent \/ (spent' = spent \cup Misses(Key(q)) /\ Key(q) # k) BY <1>0, <1>4 DEF CacheMoves, Guesses
 <2>4. Unspent(k)' = Unspent(k) BY <2>2, <2>3, MissesApart DEF Unspent
 <2> QED BY <1>2, <1>4, <2>1, <2>4, CountStays
<1>5. CASE Guesses(q, k)
 <2>1. Does(q).op \in Guessing /\ Key(q) = k /\ call[q].end = "none"
   BY <1>a, <1>5 DEF Guesses
 <2>2. CASE call'[q].end # "wrong"
  <3>1. Misses(k)' = Misses(k) BY <1>0, <2>1, <2>2 DEF Misses
  <3>2. CASE tries' = tries /\ locked' = locked /\ spent' = spent
   <4>1. Tries(k)' = Tries(k) /\ Unspent(k)' = Unspent(k) BY <3>1, <3>2 DEF Tries, Unspent
   <4>2. call'[q].pc = "wrong" => call'[q].seen = Tries(k) /\ k \notin locked
     BY <1>0, <2>1 DEF Turn, Enters, EntersGuess, Locked
   <4> QED BY <1>2, <3>2, <4>1, <4>2, CountStays
  <3>3. CASE k \notin locked' /\ spent' = spent \cup Misses(k)
   <4>1. Unspent(k)' = {} BY <3>1, <3>3 DEF Unspent
   <4> QED BY <1>0, <3>3, <4>1, StepKeepsTypes, AnewIs
  <3> QED BY <1>0, <2>1, <2>2, <3>2, <3>3 DEF CacheMoves
 <2>3. CASE call'[q].end = "wrong"
  <3>1. call[q].pc = "wrong" /\ call[q].seen \in 0 .. MaxTries - 1 /\ Started(q) /\ call'[q].pc # "wrong"
   <4>1. call[q].pc = "wrong" BY <1>0, <1>5, <2>1, <2>3 DEF Turn, Enters, EntersGuess
   <4>2. call'[q].pc = "done" BY <1>0, <2>3 DEF Turn, Holds
   <4> QED BY <4>1, <4>2, CallTypes DEF Holds, Started
  <3>2. spent' = spent BY <1>0, <2>1, <2>3 DEF CacheMoves
  <3>3. Misses(k)' = Misses(k) \cup {q} /\ q \notin Misses(k) BY <1>0, <2>1, <2>3 DEF Misses
  <3>4. Unspent(k)' \subseteq Unspent(k) \cup {q} /\ Unspent(k) \subseteq Unspent(k)' BY <3>2, <3>3 DEF Unspent
  <3>5. IsFiniteSet(Unspent(k)) /\ Cardinality(Unspent(k)) \in Nat BY <1>2, FS_CardinalityType DEF Counted
  <3>6. IsFiniteSet(Unspent(k) \cup {q}) /\ Cardinality(Unspent(k) \cup {q}) <= Cardinality(Unspent(k)) + 1
    BY <3>5, OneMore
  <3>7. IsFiniteSet(Unspent(k)') /\ Cardinality(Unspent(k)') <= Cardinality(Unspent(k)) + 1 /\ Cardinality(Unspent(k)') \in Nat
   <4>1. IsFiniteSet(Unspent(k)') /\ Cardinality(Unspent(k)') <= Cardinality(Unspent(k) \cup {q})
     BY <3>4, <3>6, FS_Subset
   <4>2. Cardinality(Unspent(k)') \in Nat /\ Cardinality(Unspent(k) \cup {q}) \in Nat BY <3>6, <4>1, FS_CardinalityType
   <4> QED BY <3>5, <3>6, <4>1, <4>2
  <3>8. ASSUME NEW r \in Calls, Counting(r, k)'
        PROVE  FALSE
   <4>1. r # q /\ call'[r].pc = "wrong" /\ Guesses(r, k) BY <1>3, <3>1, <3>8 DEF Counting
   <4>2. call[r].pc = "wrong" /\ Started(r) BY <1>0, <4>1 DEF Started
   <4>3. Overlap(r, q)' /\ Started(q)' /\ Does(r).op = Does(q).op
     BY <1>0, <1>5, <3>1, <4>1, <4>2, OverlapNow, TheRest, OneKind DEF Over, Guesses
   <4>4. Raced(r)' BY <1>0, <4>3 DEF Racing, Raced
   <4> QED BY <3>8, <4>4 DEF Counting
  <3>9. ASSUME Calm(k)'
        PROVE  /\ Cardinality(Unspent(k)') <= MaxTries
               /\ k \notin locked' => Cardinality(Unspent(k)') <= Tries(k)'
   <4>1. \A r \in Calls : Started(r) /\ Raced(r) => Raced(r)' BY <1>0, TheRest, RacingStays DEF Raced
   <4>2. Calm(k)
    <5>1. \A r \in Unspent(k) : r \in Calls /\ call[r].end = "wrong" BY DEF Unspent, Misses
    <5>2. \A r \in Unspent(k) : r \in Calls /\ Started(r) BY <5>1, CallTypes DEF Holds, Started
    <5> QED BY <3>4, <3>9, <4>1, <5>2 DEF Calm
   <4>3. CASE q \in Unspent(k)'
    <5>1. Counting(q, k) BY <1>5, <3>1, <3>9, <4>1, <4>3 DEF Counting, Calm
    <5>2. Cardinality(Unspent(k)) <= call[q].seen BY <1>2, <4>2, <5>1 DEF Counted
    <5>3. IF call[q].seen + 1 >= MaxTries THEN k \in locked' ELSE Tries(k)' = call[q].seen + 1
      BY <1>0, <2>1, <2>3 DEF CacheMoves
    <5> QED BY <1>0, <3>1, <3>5, <3>7, <5>2, <5>3
   <4>4. q \in Unspent(k)' BY <1>a, <3>2, <3>3 DEF Unspent, GuessInv, Answered
   <4> QED BY <4>3, <4>4
  <3> QED BY <3>7, <3>8, <3>9 DEF Counted
 <2> QED BY <2>2, <2>3
<1> QED BY <1>4, <1>5

\* What that says of wrong answers.
LEMMA GuessesMean ==
  ASSUME Base, GuessInv
  PROVE  GuessesBounded
<1>1. SUFFICES ASSUME NEW q \in Calls, Does(q).op \in Guessing, Cardinality(Unspent(Key(q))) > MaxTries,
                      \A r \in Unspent(Key(q)) : ~Racing(r, {Does(q).op})
               PROVE  FALSE
  BY DEF GuessesBounded
<1>2. Counted(Key(q)) BY <1>1, KeyIs DEF GuessInv
<1>3. Calm(Key(q))
 <2>1. \A r \in Unspent(Key(q)) : r \in Calls /\ Key(r) = Key(q) BY DEF Unspent, Misses
 <2> QED BY <1>1, <2>1, OneKind DEF Calm, Raced
<1>4. Cardinality(Unspent(Key(q))) \in Nat /\ MaxTries \in Nat BY <1>2, FS_CardinalityType, Typing DEF Counted
<1> QED BY <1>1, <1>2, <1>3, <1>4 DEF Counted

--------------------
(* The rotation *)

\* The places of a handover.
LEMMA HandoverPlaces ==
  ASSUME Base, NEW q \in Calls, Does(q).op = "handover"
  PROVE  call[q].pc \in {"new", "valid", "assign", "record", "done", "dead"}
<1>1. InPlace(q, call[q]) /\ call[q].pc \in Pcs BY CallTypes
<1> QED BY <1>1 DEF InPlace, Pcs, Over, Making, Dropping, SignUps, Guessing

\* Members of the rotation are rows of users, one each.
LEMMA PoolIs ==
  ASSUME Base, NEW t \in Users
  PROVE  /\ Pool(t) \subseteq 1 .. Len(member) /\ Len(member) \in Nat
         /\ \A i \in Pool(t) : member[i].user \in Users
         /\ OneRow => \A i, j \in Pool(t) : member[i].user = member[j].user => i = j
<1>1. Pool(t) \subseteq DOMAIN member /\ \A i \in Pool(t) : member[i].status = "active" BY DEF Pool, Members
<1>2. \A i \in Pool(t) : member[i].user \in Users BY <1>1 DEF Base, Accounted
<1> QED BY <1>1, <1>2, Typing DEF OneRow

\* Two agents take turns.
LEMMA NextDiffers ==
  ASSUME Base, OneRow, NEW t \in Users, Cardinality(Pool(t)) > 1
  PROVE  NextIn(t) # team[t].last
<1> DEFINE P == Pool(t)
           F == {j \in P : member[j].user = team[t].last}
           f == FirstOf(F)
           after == {i \in P : i > f}
           X == IF after = {} THEN P ELSE after
           m == Min(X)
<1>1. P # {}
 <2>1. Cardinality({}) = 0 BY FS_EmptySet
 <2> QED BY <2>1
<1>2. NextIn(t) = member[m].user BY <1>1 DEF NextIn
<1>3. P \subseteq 1 .. Len(member) /\ Len(member) \in Nat /\ \A i, j \in P : member[i].user = member[j].user => i = j
  BY PoolIs
<1>4. X # {} /\ X \subseteq P BY <1>1
<1>5. m \in X /\ \A i \in X : m <= i
 <2>1. X \in SUBSET Nat BY <1>3, <1>4
 <2> HIDE DEF X
 <2> QED BY <1>4, <2>1, MinIs
<1>6. F \in SUBSET (1 .. Len(member)) BY <1>3
<1>7. F # {} => f \in F
 <2> HIDE DEF F
 <2> QED BY <1>3, <1>6, FirstIs
<1> HIDE DEF m, f
<1>8. SUFFICES ASSUME member[m].user = team[t].last
               PROVE  FALSE
  BY <1>2
<1>9. m \in F /\ f \in F BY <1>4, <1>5, <1>7, <1>8
<1>10. f = m BY <1>3, <1>9
<1>11. m \notin after /\ m \in Nat BY <1>3, <1>9, <1>10
<1>12. after = {} /\ \A i \in P : m <= i BY <1>5, <1>11
<1>13. \A i \in P : i <= m BY <1>3, <1>10, <1>11, <1>12
<1>14. P = {m}
 <2>1. \A i \in P : i = m BY <1>3, <1>11, <1>12, <1>13
 <2> QED BY <1>9, <2>1
<1>15. Cardinality({m}) = 1 BY FS_Singleton
<1> QED BY <1>14, <1>15

\* The rotation starts at the head when nobody was the last.
LEMMA NextFirst ==
  ASSUME Base, NEW t \in Users, Pool(t) # {}, team[t].last = None
  PROVE  NextIn(t) = member[Min(Pool(t))].user
<1>1. Pool(t) \subseteq 1 .. Len(member) /\ \A i \in Pool(t) : member[i].user \in Users BY PoolIs
<1>2. {j \in Pool(t) : member[j].user = team[t].last} = {} BY <1>1, Typing
<1>3. FirstOf({j \in Pool(t) : member[j].user = team[t].last}) = 0 BY <1>2 DEF FirstOf
<1>4. {i \in Pool(t) : i > 0} = Pool(t) BY <1>1, Typing
<1> QED BY <1>3, <1>4 DEF NextIn

\* The last agent is the one of the last handover, and nobody after the roster was saved.
LEMMA LastIsStep ==
  ASSUME Base, NEW q \in Calls, Step(q), Stepped(q)
  PROVE  LastIs'
<1>0. Turn(q) /\ TeamsMove(q) /\ \A r \in Calls : Does(r)' = Does(r) BY TheRest DEF Stepped
<1>1. SUFFICES ASSUME NEW r \in Calls, Latest(r)', team'[Does(r).who].st = "live"
               PROVE  /\ Did(r, {"handover"}, "assigned")' => team'[Does(r).who].last = call'[r].to
                      /\ Did(r, {"roster"}, "saved")' => team'[Does(r).who].last = None
  BY <1>0 DEF LastIs
<1>2. r = q
 <2>1. r # q => q \in call'[r].since BY <1>0, <1>1, TheRest DEF Latest
 <2>2. r # q => call'[r].since = call[r].since /\ q \notin call[r].since BY <1>0, TheRest
 <2> QED BY <2>1, <2>2
<1>3. Does(q).who \in Users /\ call[q].pc \notin Over /\ (call[q].pc # "done" => call[q].end = "none")
  BY <1>0, Typing, CallTypes DEF Turn, Remembers, Holds
<1>4. ASSUME call'[q].end # "none"
      PROVE  ~Die(q)
 <2>1. call[q] \in CallRow /\ call \in [Calls -> CallRow] /\ call[q].end = "none" BY <1>3, Typing, CallTypes DEF Over
 <2> QED BY <1>4, <2>1 DEF Die, CallRow
<1>5. ASSUME Did(q, {"handover"}, "assigned")'
      PROVE  team'[Does(q).who].last = call'[q].to
 <2>1. Does(q).op = "handover" /\ call'[q].end = "assigned" /\ call[q].pc = "record"
   BY <1>0, <1>5 DEF Did, Turn, Enters, EntersHandover
 <2>2. Record(q) BY <1>4, <2>1, AtPlace
 <2>3. call[q].user = Does(q).who /\ call'[q].to = call[q].to
  <3>1. call[q].user \in Users /\ (call[q].user # None => call[q].user = Does(q).who)
    BY <2>1, CallTypes DEF Holds, Over
  <3> QED BY <1>0, <2>1, <3>1, Typing DEF Turn, Remembers
 <2>4. team[Does(q).who].st = "live" BY <1>0, <1>1, <1>2, <1>3, <2>1 DEF TeamsMove, TeamRowMove
 <2> QED BY <2>2, <2>3, <2>4, RecordTeams
<1>6. ASSUME Did(q, {"roster"}, "saved")'
      PROVE  team'[Does(q).who].last = None
 <2>1. Does(q).op = "roster" /\ call'[q].end = "saved" /\ call[q].pc = "roster"
   BY <1>0, <1>6 DEF Did, Turn, Enters, EntersHandover
 <2>2. WriteRoster(q) BY <1>4, <2>1, AtPlace
 <2>3. call[q].user = Does(q).who
  <3>1. call[q].user \in Users /\ (call[q].user # None => call[q].user = Does(q).who)
    BY <2>1, CallTypes DEF Holds, Over
  <3> QED BY <3>1, Typing
 <2> QED BY <2>1, <2>2, <2>3, WriteRosterTeams
<1> QED BY <1>2, <1>5, <1>6

\* Where a handover begins.
LEMMA ResolveIs ==
  ASSUME Base, NEW q \in Calls, Resolve(q), call'[q].end # "nobody"
  PROVE  /\ team[Does(q).who].st = "live" /\ call'[q].to = NextIn(Does(q).who)
         /\ call'[q].pc = "valid"
<1>1. call \in [Calls -> CallRow] /\ call[q] \in CallRow BY Typing, CallTypes
<1>2. CASE team[Does(q).who].st = "live" BY <1>1, <1>2 DEF Resolve, Starts, Begun, At, CallRow
<1>3. CASE team[Does(q).who].st # "live"
 <2>1. call'[q].end = "nobody" BY <1>1, <1>3 DEF Resolve, Starts, Begun, Ending, CallRow
 <2> QED BY <2>1
<1> QED BY <1>2, <1>3

\* With nothing in between, now, is with nothing in between before.
LEMMA QuietBefore ==
  ASSUME Base, NEW x \in Calls, Turn(x), NEW q \in Calls, NEW r \in Calls, Started(q), Quiet(r, q)'
  PROVE  Quiet(r, q)
<1>1. call'[q].since = call[q].since /\ Does(r)' = Does(r) /\ Does(q)' = Does(q) BY TheRest
<1>2. Before(r, q) /\ Does(r).who = Does(q).who BY <1>1 DEF Quiet, Before
<1>3. Started(r)
 <2>1. call[r].pc \in Over BY <1>2 DEF Before, Base, Sinces
 <2> QED BY <2>1 DEF Started, Over
<1>4. ASSUME NEW s \in Calls \ {r, q}, Started(s)
      PROVE  Before(s, r) \/ (Does(s).op = "handover" /\ Before(q, s))
 <2>1. Started(s)' /\ call'[s].since = call[s].since /\ call'[r].since = call[r].since /\ Does(s)' = Does(s)
   BY <1>3, <1>4, TheRest
 <2> QED BY <2>1 DEF Quiet, Before
<1> QED BY <1>2, <1>4 DEF Quiet

\* A handover that follows another one with nothing in between goes to the next agent.
LEMMA RotatesStep ==
  ASSUME Base, OneRow, LastIs, Rotates, NEW x \in Calls, Step(x), Stepped(x)
  PROVE  Rotates'
<1>0. Turn(x) /\ MembersMove(x) /\ \A r \in Calls : Does(r)' = Does(r) BY TheRest DEF Stepped
<1>1. ASSUME NEW q \in Calls, NEW r \in Calls, Chosen(q)', Quiet(r, q)'
      PROVE  /\ Did(r, {"handover"}, "assigned")' /\ Cardinality(Pool(Does(q).who))' > 1 => call'[q].to # call'[r].to
             /\ Did(r, {"roster"}, "saved")' /\ Pool(Does(q).who)' # {} => call'[q].to = member'[Min(Pool(Does(q).who)')].user
 <2>1. Does(q).op = "handover" /\ Started(q)' /\ call'[q].end # "nobody" /\ Does(r).who = Does(q).who /\ r \in call'[q].since
   BY <1>0, <1>1 DEF Chosen, Quiet, Before
 <2>2. call[r].pc \in Over /\ x # r /\ call'[r] = call[r] /\ Started(r)
  <3>1. call[r].pc \in Over /\ call[x].pc \notin Over BY <1>0, <2>1, TheRest
  <3> QED BY <1>0, <3>1 DEF Turn, Started, Over
 <2>3. member' = member
  <3>1. CASE x = q BY <1>0, <2>1, <3>1 DEF MembersMove
  <3>2. CASE x # q
   <4>1. Started(x)' /\ x \notin call'[r].since BY <1>0, <2>2, TheRest
   <4>2. Does(x).op = "handover" BY <1>0, <1>1, <2>2, <3>2, <4>1 DEF Quiet, Before
   <4> QED BY <1>0, <4>2 DEF MembersMove
  <3> QED BY <3>1, <3>2
 <2>4. Pool(Does(q).who)' = Pool(Does(q).who) /\ (Did(r, {"handover"}, "assigned")' <=> Did(r, {"handover"}, "assigned"))
       /\ (Did(r, {"roster"}, "saved")' <=> Did(r, {"roster"}, "saved"))
   BY <1>0, <2>2, <2>3 DEF Pool, Members, Did
 <2>5. CASE Started(q)
  <3>1. Quiet(r, q) /\ call'[q].to = call[q].to BY <1>0, <1>1, <2>5, QuietBefore, HandStays
  <3>2. Chosen(q)
   <4>1. CASE q # x BY <1>0, <2>1, <2>5, <4>1 DEF Turn, Chosen
   <4>2. CASE q = x BY <1>0, <2>1, <2>5, <4>2, CallTypes DEF Turn, Remembers, Chosen, Holds, Over
   <4> QED BY <4>1, <4>2
  <3> QED BY <2>2, <2>3, <2>4, <3>1, <3>2 DEF Rotates
 <2>6. CASE ~Started(q)
  <3>1. q = x /\ call[q].pc = "new" BY <1>0, <2>1, <2>6 DEF Started, Turn
  <3>2. Resolve(q) BY <2>1, <3>1, AtStart
  <3>3. Does(q).who \in Users /\ team[Does(q).who].st = "live" /\ call'[q].to = NextIn(Does(q).who)
    BY <2>1, <3>2, ResolveIs, Typing
  <3>4. Latest(r)
   <4>1. ASSUME NEW s \in Calls \ {r}, Started(s)
         PROVE  s \in call[r].since
    <5>1. s # q /\ Started(s)' /\ call'[s].since = call[s].since /\ call'[r].since = call[r].since
      BY <1>0, <2>2, <2>6, <4>1, TheRest
    <5>2. q \notin call[s].since BY <1>0, <3>1, TheRest
    <5> QED BY <1>1, <4>1, <5>1, <5>2 DEF Quiet, Before
   <4> QED BY <4>1 DEF Latest
  <3>5. /\ Did(r, {"handover"}, "assigned") => team[Does(q).who].last = call[r].to
        /\ Did(r, {"roster"}, "saved") => team[Does(q).who].last = None
    BY <2>1, <3>3, <3>4 DEF LastIs
  <3>6. Did(r, {"handover"}, "assigned") /\ Cardinality(Pool(Does(q).who)) > 1 => call'[q].to # call'[r].to
    BY <2>2, <3>3, <3>5, NextDiffers
  <3>7. Did(r, {"roster"}, "saved") /\ Pool(Does(q).who) # {} => call'[q].to = member[Min(Pool(Does(q).who))].user
    BY <3>3, <3>5, NextFirst
  <3> QED BY <2>3, <2>4, <3>6, <3>7
 <2> QED BY <2>5, <2>6
<1> QED BY <1>0, <1>1 DEF Rotates

\* That a removal came, stays so.
LEMMA LeftStays ==
  ASSUME Base, NEW x \in Calls, Turn(x), NEW q \in Calls, Started(q), NEW r \in Calls,
         Does(r).op \in {"remove", "cleanup"}, Started(r), ~Before(r, q)
  PROVE  \E s \in Calls : Does(s).op \in {"remove", "cleanup"} /\ Started(s)' /\ ~Before(s, q)'
<1>1. Started(r)' /\ call'[q].since = call[q].since BY TheRest
<1> QED BY <1>1 DEF Before

\* The excuse for a handover q to somebody who is not on the team.
Gone(q) ==
  \/ \E r \in Calls : Does(r).op \in {"remove", "cleanup"} /\ Started(r) /\ ~Before(r, q)
  \/ \E r, s \in Calls : SharedRow(r, s)
Handing(q) ==
  Does(q).op = "handover" /\ call[q].pc \in {"assign", "record"} \cup Over /\ call[q].end # "nobody" /\ call[q].pc # "dead"

\* The excuse stays.
LEMMA GoneStays ==
  ASSUME Base, NEW x \in Calls, Turn(x), NEW q \in Calls, Started(q), Gone(q)
  PROVE  Gone(q)'
<1>0. \A r \in Calls : Does(r)' = Does(r) BY TheRest
<1>1. CASE \E r \in Calls : Does(r).op \in {"remove", "cleanup"} /\ Started(r) /\ ~Before(r, q)
  BY <1>0, <1>1, LeftStays DEF Gone
<1>2. CASE \E r, s \in Calls : SharedRow(r, s)
 <2>1. PICK r \in Calls, s \in Calls : SharedRow(r, s) BY <1>2
 <2>2. SharedRow(r, s)' BY <2>1, SharedStays
 <2> QED BY <2>2 DEF Gone
<1> QED BY <1>1, <1>2 DEF Gone

\* A handover goes to somebody on the team, unless excused.
LEMMA AssigneeActiveStep ==
  ASSUME Base, Joining, AssigneeActive, NEW x \in Calls, Stepped(x)
  PROVE  AssigneeActive'
<1>0. Turn(x) /\ MembersMove(x) /\ \A r \in Calls : Does(r)' = Does(r) BY TheRest DEF Stepped
<1>1. SUFFICES ASSUME NEW q \in Calls, Handing(q)', call'[q].to \notin Staff(call[q].user)'
               PROVE  Gone(q)'
  BY DEF AssigneeActive, Handing, Gone
<1>2. ASSUME Handing(q), call[q].to \notin Staff(call[q].user)
      PROVE  Gone(q)'
 <2>1. Gone(q) /\ Started(q) BY <1>2 DEF AssigneeActive, Handing, Gone, Started, Over
 <2> QED BY <1>0, <2>1, GoneStays
<1>3. Does(q).op = "handover" /\ Handing(q)' BY <1>0, <1>1 DEF Handing
<1>4. CASE x # q
 <2>1. call'[q] = call[q] /\ Handing(q) /\ Started(q) BY <1>0, <1>1, <1>4 DEF Turn, Handing, Started, Over
 <2>2. CASE call[q].to \in Staff(call[q].user)
  <3>1. PICK t : t = call[q].user OBVIOUS
  <3>2. call[q].to \in Staff(t) /\ call[q].to \notin Staff(t)' BY <1>1, <2>1, <2>2, <3>1 DEF Staff, Members
  <3>3. call[q].to # t BY <3>2 DEF Staff
  <3>4. PICK i \in Members(t) : member[i].user = call[q].to BY <3>2, <3>3 DEF Staff
  <3>5. i \in DOMAIN member /\ member[i].team = t /\ member[i].status = "active" BY <3>4 DEF Members
  <3>6. i \in DOMAIN member' /\ RowMove(x, i, member'[i]) BY <1>0, <3>5, RowsLast
  <3>7. CASE member'[i].user = member[i].user /\ member'[i].status = member[i].status
   <4>1. i \in Members(t)' BY <3>5, <3>6, <3>7 DEF Members, RowMove
   <4> QED BY <3>2, <3>4, <3>7, <4>1 DEF Staff
  <3>8. CASE Does(x).op \in {"remove", "cleanup"}
   <4>1. Started(x)' /\ x \notin call'[q].since BY <1>0, <1>4, <2>1, TheRest
   <4> QED BY <1>0, <3>8, <4>1 DEF Gone, Before
  <3>9. CASE Joined(x, i, member'[i])
   <4>1. call[x].pc = "join" /\ call[x].row = i /\ call[x].row # 0 BY <3>9, CallTypes DEF Joined, Holds
   <4>2. PICK r \in Calls : SharedRow(x, r) BY <3>5, <4>1 DEF Joining
   <4>3. SharedRow(x, r)' BY <1>0, <4>2, SharedStays
   <4> QED BY <4>3 DEF Gone
  <3> QED BY <3>6, <3>7, <3>8, <3>9 DEF RowMove
 <2> QED BY <1>2, <2>1, <2>2
<1>5. CASE x = q
 <2>1. member' = member BY <1>0, <1>3, <1>5 DEF MembersMove
 <2>2. call[q].pc \in {"valid", "assign", "record"}
  <3>1. call[q].pc \in {"new", "valid", "assign", "record"}
    BY <1>0, <1>3, <1>5, HandoverPlaces DEF Turn, Remembers, Over
  <3>2. call[q].pc # "new" BY <1>0, <1>3, <1>5 DEF Turn, Enters, EntersHandover, Handing, Over
  <3> QED BY <3>1, <3>2
 <2>3. call'[q].to = call[q].to /\ call'[q].user = call[q].user BY <1>0, <1>3, <1>5, <2>2 DEF Turn, Remembers
 <2>4. Staff(call[q].user)' = Staff(call[q].user) BY <2>1, <2>3 DEF Staff, Members
 <2>5. CASE call[q].pc = "valid"
  <3>1. call'[q].pc = "assign" BY <1>0, <1>3, <1>5, <2>5 DEF Turn, Enters, EntersHandover, Handing, Over
  <3>2. Assignee(call[q].user, call[q].to) BY <1>0, <1>5, <3>1 DEF Turn, Enters, EntersHandover
  <3> QED BY <1>1, <2>3, <2>4, <3>2 DEF Assignee, Staff
 <2>6. CASE call[q].pc \in {"assign", "record"}
  <3>1. Handing(q) BY <1>3, <2>6, CallTypes DEF Handing, Holds
  <3> QED BY <1>1, <1>2, <2>3, <2>4, <3>1
 <2> QED BY <2>2, <2>5, <2>6
<1> QED BY <1>4, <1>5

\* The part of the invariant about the rotation is kept.
LEMMA RotationStep ==
  ASSUME Base, TeamInv, RotationInv, NEW q \in Calls, Step(q), Stepped(q)
  PROVE  RotationInv'
  BY LastIsStep, RotatesStep, AssigneeActiveStep DEF RotationInv, TeamInv

\* What that says of handovers.
LEMMA RotationMeans ==
  ASSUME Base, RotationInv
  PROVE  HandoversFair
<1>1. SUFFICES ASSUME NEW q \in Calls, NEW r \in Calls, Did(q, {"handover"}, "assigned"), Quiet(r, q)
               PROVE  Chosen(q)
  BY DEF RotationInv, Rotates, RotationFair, HandoversFair
<1> QED BY <1>1, NewIs DEF Did, Chosen, Started

--------------------
(* Days that pass, and steps that change nothing *)

\* Only a date, and the tokens that die with it; or a count or a lock, which begins anew.
Passes ==
  /\ plan' = plan /\ team' = team /\ member' = member /\ mailed' = mailed /\ codes' = codes /\ call' = call
  /\ locked' \subseteq locked /\ \A q \in spent' : q \in Calls /\ (q \in spent \/ call[q].end = "wrong")
  /\ DOMAIN tries' \subseteq DOMAIN tries /\ \A k \in DOMAIN tries' : tries'[k] = tries[k]
  /\ \A k \in Kinds : \/ Tries(k)' = Tries(k) /\ (k \in locked' <=> k \in locked) /\ Unspent(k)' = Unspent(k)
                      \/ Unspent(k)' = {}
  /\ user' \in [Users -> UserRow]
  /\ \A u \in Users :
       /\ user'[u].st = user[u].st /\ user'[u].email = user[u].email /\ user'[u].verified = user[u].verified
       /\ user'[u].reset = user[u].reset /\ user'[u].pend = user[u].pend /\ user'[u].pcode = user[u].pcode
       /\ user'[u].session = user[u].session /\ user'[u].deleted = user[u].deleted
       /\ user'[u].due = user[u].due \/ (user[u].due = "set" /\ user'[u].due = "past")

\* The grace period that ends changes only that.
LEMMA GraceIsPassing ==
  ASSUME Base, NEW v \in Users, GracePasses(v)
  PROVE  Passes
<1> DEFINE s == [user[v] EXCEPT !.due = "past", !.token = IF user[v].token = "late" THEN "late" ELSE "none"]
<1>1. user' = [user EXCEPT ![v] = s] /\ user[v].due = "set" /\ user[v] \in UserRow /\ user \in [Users -> UserRow]
  BY Typing DEF GracePasses, Set, UserRow
<1>2. /\ s \in UserRow /\ s.st = user[v].st /\ s.email = user[v].email /\ s.verified = user[v].verified
      /\ s.reset = user[v].reset /\ s.pend = user[v].pend /\ s.pcode = user[v].pcode /\ s.session = user[v].session
      /\ s.deleted = user[v].deleted /\ s.due = "past"
  BY <1>1 DEF UserRow
<1> HIDE DEF s
<1>3. user' \in [Users -> UserRow] /\ user'[v] = s /\ \A u \in Users : u # v => user'[u] = user[u] BY <1>1, <1>2
<1>4. plan' = plan /\ UNCHANGED teams /\ UNCHANGED outbox /\ UNCHANGED cache /\ call' = call BY DEF GracePasses
<1>5. spent \subseteq Calls /\ \A k \in Kinds : Tries(k)' = Tries(k) /\ Unspent(k)' = Unspent(k)
  BY <1>4, Typing DEF cache, Tries, Unspent, Misses, Key, Subject, Does
<1> QED BY <1>1, <1>2, <1>3, <1>4, <1>5 DEF Passes, teams, outbox, cache

\* A count or a lock that expires leaves nothing counted.
LEMMA ExpiryIsPassing ==
  ASSUME Base, NEW k \in Kinds, CountExpires(k) \/ LockExpires(k)
  PROVE  Passes
<1>1. /\ plan' = plan /\ user' = user /\ UNCHANGED teams /\ UNCHANGED outbox /\ call' = call
      /\ spent' = spent \cup Misses(k)
  BY DEF CountExpires, LockExpires
<1>2. \A j : Misses(j)' = Misses(j) /\ Misses(j) \subseteq Calls BY <1>1 DEF Misses, Key, Subject, Does
<1>3. Unspent(k)' = {} /\ \A j : j # k => Unspent(j)' = Unspent(j) BY <1>1, <1>2, MissesApart DEF Unspent
<1>4. /\ locked' \subseteq locked /\ DOMAIN tries' \subseteq DOMAIN tries /\ \A j \in DOMAIN tries' : tries'[j] = tries[j]
      /\ \A j \in Kinds : j # k => Tries(j)' = Tries(j) /\ (j \in locked' <=> j \in locked)
  BY DEF CountExpires, LockExpires, Forget, Tries
<1>5. \A q \in spent' : q \in Calls /\ (q \in spent \/ call[q].end = "wrong") BY <1>1, <1>2, Typing DEF Misses
<1> QED BY <1>1, <1>3, <1>4, <1>5, Typing DEF Passes, teams, outbox

\* A step that changes nothing changes no more.
LEMMA StutterIsPassing ==
  ASSUME Base, UNCHANGED vars
  PROVE  Passes
<1>1. \A k \in Kinds : Tries(k)' = Tries(k) /\ Unspent(k)' = Unspent(k)
  BY DEF vars, teams, outbox, cache, Tries, Unspent, Misses, Key, Subject, Does
<1> QED BY <1>1, Typing DEF Passes, vars, teams, outbox, cache

\* What calls are to one another, and who lives, is as it was.
LEMMA Still ==
  ASSUME Passes
  PROVE  /\ \A q \in Calls : /\ Does(q)' = Does(q) /\ (Started(q)' <=> Started(q)) /\ (Made(q)' <=> Made(q)) /\ Key(q)' = Key(q)
                             /\ \A ops : Racing(q, ops)' <=> Racing(q, ops)
                             /\ \A ops, how : Did(q, ops, how)' <=> Did(q, ops, how)
         /\ \A q, r \in Calls : (Overlap(q, r)' <=> Overlap(q, r)) /\ (SharedRow(q, r)' <=> SharedRow(q, r))
         /\ \A u : Live(u)' <=> Live(u)
         /\ \A e : With(e)' = With(e)
         /\ \A u \in Users : HasTeam(u)' <=> HasTeam(u)
<1>1. \A q \in Calls : Does(q)' = Does(q) /\ (Started(q)' <=> Started(q)) BY DEF Passes, Does, Started
<1>2. \A q \in Calls : (Made(q)' <=> Made(q)) /\ Key(q)' = Key(q) BY DEF Passes, Does, Made, Key, Subject
<1>3. \A q, r \in Calls : Overlap(q, r)' <=> Overlap(q, r) BY DEF Passes, Overlap
<1>4. \A q, r \in Calls : SharedRow(q, r)' <=> SharedRow(q, r) BY <1>1, <1>3 DEF Passes, SharedRow
<1>5. \A q \in Calls : \A ops : Racing(q, ops)' <=> Racing(q, ops) BY <1>1, <1>3 DEF Racing
<1>6. \A q \in Calls : \A ops, how : Did(q, ops, how)' <=> Did(q, ops, how) BY <1>1 DEF Passes, Did
<1>7. \A u : Live(u)' <=> Live(u) BY DEF Passes, Live
<1>8. \A e : With(e)' = With(e) BY <1>7 DEF Passes, With
<1>9. \A u \in Users : HasTeam(u)' <=> HasTeam(u) BY DEF Passes, HasTeam
<1> QED BY <1>1, <1>2, <1>3, <1>4, <1>5, <1>6, <1>7, <1>8, <1>9

\* Days that pass keep every part of the invariant.
LEMMA BasePasses ==
  ASSUME Base, Passes
  PROVE  Base'
<1>1. Types' BY Typing DEF Passes, Types
<1>2. Places'
 <2>1. \A q \in Calls : InPlace(q, call[q])' <=> InPlace(q, call[q]) BY Still DEF Passes, InPlace
 <2>2. \A q \in Calls : Holds(q, call[q], Len(member), codes)' <=> Holds(q, call[q], Len(member), codes)
   BY Still DEF Passes, Holds
 <2> QED BY <2>1, <2>2 DEF Base, Places
<1>3. Accounted' BY Still DEF Passes, Base, Accounted
<1>4. Known'
 <2>1. Known BY DEF Base
 <2>2. \A i \in DOMAIN member : member[i].user # None => member[i].user \in Users BY RowTypes
 <2> QED BY <2>1, <2>2 DEF Passes, Known
<1>5. Sinces' BY DEF Passes, Base, Sinces
<1> QED BY <1>1, <1>2, <1>3, <1>4, <1>5 DEF Base

\* Addresses do not depend on the date.
LEMMA AddressPasses ==
  ASSUME Base, AddressInv, Passes
  PROVE  AddressInv'
<1>1. \A u \in Users : Proven(u)' <=> Proven(u)
 <2>1. \A u \in Users : ByAdmin(u)' <=> ByAdmin(u) BY Still DEF Passes, ByAdmin
 <2>2. \A u \in Users : GaveCode(u)' <=> GaveCode(u) BY Still DEF Passes, GaveCode
 <2> QED BY <2>1, <2>2, Still DEF Passes, Proven, Vouched
<1>2. Apart' BY Still DEF Passes, AddressInv, Apart
<1>3. Codes' BY DEF Passes, AddressInv, Codes
<1>4. Verifying' BY <1>1, Still DEF Passes, AddressInv, Verifying, Live
<1>5. Mailbox' BY <1>1, Still DEF Passes, AddressInv, Mailbox
<1> QED BY <1>2, <1>3, <1>4, <1>5 DEF AddressInv

\* Neither do teams.
LEMMA TeamPasses ==
  ASSUME TeamInv, Passes
  PROVE  TeamInv'
<1>1. OwnRow' /\ OneRow' /\ NoRow' BY DEF Passes, TeamInv, OwnRow, OneRow, NoRow
<1>2. Joining' BY Still DEF Passes, TeamInv, Joining
<1>3. Owned' BY Still DEF Passes, TeamInv, Owned
<1>4. TeamForEveryone' BY Still DEF Passes, TeamInv, TeamForEveryone
<1> QED BY <1>1, <1>2, <1>3, <1>4 DEF TeamInv

\* Neither do invitations.
LEMMA InvitePasses ==
  ASSUME InviteInv, Passes
  PROVE  InviteInv'
<1>1. Inviting' BY Still DEF Passes, InviteInv, Inviting
<1>2. Uninvited'
 <2>1. \A q \in Calls : Unasked(q)' <=> Unasked(q) BY Still DEF Passes, Unasked
 <2>2. \A e : Late(e)' <=> Late(e) BY Still DEF Late
 <2> QED BY <2>1, <2>2, Still DEF Passes, InviteInv, Uninvited
<1>3. Taken' BY Still DEF Passes, InviteInv, Taken
<1>4. PendingForStrangers'
 <2>1. \A e : Moved(e)' <=> Moved(e) BY Still DEF Passes, Moved
 <2> QED BY <2>1, Still DEF Passes, InviteInv, PendingForStrangers
<1> QED BY <1>1, <1>2, <1>3, <1>4 DEF InviteInv

\* A mark that is due stays due.
LEMMA KeptPasses ==
  ASSUME Base, KeptInv, Passes
  PROVE  KeptInv'
<1>1. Doom'
 <2>1. \A u : Marked(u) => Marked(u)' BY DEF Passes, Marked, Live
 <2> QED BY <2>1, Still DEF Passes, KeptInv, Doom
<1>2. Signed'
 <2>1. \A q \in Calls : Entering(q)' <=> Entering(q) BY Still DEF Passes, Entering
 <2> QED BY <2>1, Still DEF Passes, KeptInv, Signed, Live
<1>3. Renewing' BY Still DEF Passes, KeptInv, Renewing, Live
<1>4. Resets'
 <2>1. \A q \in Calls : Resetting(q)' <=> Resetting(q) BY Still DEF Passes, Resetting
 <2> QED BY <2>1, Still DEF Passes, KeptInv, Resets
<1> QED BY <1>1, <1>2, <1>3, <1>4 DEF KeptInv

\* Guesses do not depend on the date, and are counted anew when a count expires.
LEMMA GuessPasses ==
  ASSUME Base, GuessInv, Passes
  PROVE  GuessInv'
<1>1. \A q \in Calls : \A k : Counting(q, k)' <=> Counting(q, k)
  BY Still DEF Passes, Guesses, Counting, Raced
<1>a. Answered' BY DEF GuessInv, Answered, Passes
<1>2. SUFFICES ASSUME NEW k \in Kinds
               PROVE  Counted(k)'
  BY <1>a DEF GuessInv
<1>3. Counted(k) BY DEF GuessInv
<1>4. CASE Tries(k)' = Tries(k) /\ (k \in locked' <=> k \in locked) /\ Unspent(k)' = Unspent(k)
 <2>1. Calm(k)' <=> Calm(k)
  <3>1. Unspent(k) \subseteq Calls BY DEF Unspent, Misses
  <3> QED BY <1>4, <3>1, Still DEF Calm, Raced
 <2>2. (Cardinality(Unspent(k)))' = Cardinality(Unspent(k)) /\ IsFiniteSet(Unspent(k))' = IsFiniteSet(Unspent(k)) BY <1>4
 <2>3. \A q \in Calls : call'[q].seen = call[q].seen BY DEF Passes
 <2> QED BY <1>1, <1>3, <1>4, <2>1, <2>2, <2>3 DEF Counted
<1>5. CASE Unspent(k)' = {}
 <2>1. \A q \in Calls : Counting(q, k)' => k \notin locked' BY <1>1, <1>3 DEF Counted, Passes
 <2>2. Types' /\ MaxTries \in Nat BY BasePasses, Typing DEF Base
 <2> QED BY <1>5, <2>1, <2>2, AnewIs
<1> QED BY <1>4, <1>5 DEF Passes

\* Neither does the rotation.
LEMMA RotationPasses ==
  ASSUME RotationInv, Passes
  PROVE  RotationInv'
<1>1. LastIs'
 <2>1. \A r \in Calls : Latest(r)' <=> Latest(r) BY Still DEF Passes, Latest
 <2> QED BY <2>1, Still DEF Passes, RotationInv, LastIs
<1>2. Rotates'
 <2>1. \A q, r \in Calls : Quiet(r, q)' <=> Quiet(r, q) BY Still DEF Passes, Quiet, Before
 <2>2. \A q \in Calls : Chosen(q)' <=> Chosen(q) BY Still DEF Passes, Chosen
 <2>3. \A t : Pool(t)' = Pool(t) BY DEF Passes, Pool, Members
 <2> QED BY <2>1, <2>2, <2>3, Still DEF Passes, RotationInv, Rotates
<1>3. AssigneeActive'
 <2>1. \A t : Staff(t)' = Staff(t) BY DEF Passes, Staff, Members
 <2>2. \A q, r \in Calls : Before(r, q)' <=> Before(r, q) BY DEF Passes, Before
 <2> QED BY <2>1, <2>2, Still DEF Passes, RotationInv, AssigneeActive
<1> QED BY <1>1, <1>2, <1>3 DEF RotationInv

--------------------
(* Where everything begins *)

\* The order a finite set is put in.
LEMMA InOrderIs ==
  ASSUME NEW S, IsFiniteSet(S)
  PROVE  /\ Cardinality(S) \in Nat /\ InOrder(S) \in [1 .. Cardinality(S) -> S]
         /\ \A x \in S : \E i \in 1 .. Cardinality(S) : InOrder(S)[i] = x
         /\ \A i, j \in 1 .. Cardinality(S) : InOrder(S)[i] = InOrder(S)[j] => i = j
         /\ S # {} => 1 \in 1 .. Cardinality(S)
<1>1. PICK n \in Nat : n = Cardinality(S) BY FS_CardinalityType
<1>2. ExistsBijection(1 .. n, S) BY <1>1, FS_CardinalityType
<1>3. PICK g \in Bijection(1 .. n, S) : TRUE BY <1>2, Fun_ExistsBij
<1>4. g \in [1 .. n -> S] /\ {g[i] : i \in DOMAIN g} = S BY <1>3, Fun_BijectionProperties
<1>5. PICK s : s = InOrder(S) OBVIOUS
<1>6. s \in [1 .. n -> S] /\ {s[i] : i \in DOMAIN s} = S BY <1>1, <1>4, <1>5 DEF InOrder
<1>7. s \in Surjection(1 .. n, S) BY <1>6, Fun_IsSurj
<1>8. IsFiniteSet(1 .. n) /\ Cardinality(1 .. n) = n
 <2>1. IsFiniteSet(1 .. n) /\ Cardinality(1 .. n) = (IF 1 > n THEN 0 ELSE n - 1 + 1) BY FS_Interval
 <2> QED BY <2>1
<1>9. s \in Injection(1 .. n, S) BY <1>1, <1>7, <1>8, FS_SurjSameCardinalityImpliesInj
<1>10. \A i, j \in 1 .. n : s[i] = s[j] => i = j BY <1>9, Fun_InjectionProperties
<1>11. \A x \in S : \E i \in 1 .. n : s[i] = x BY <1>6
<1>12. S # {} => 1 \in 1 .. n BY <1>11
<1> QED BY <1>1, <1>5, <1>6, <1>10, <1>11, <1>12

\* The rows there are at the start.
Homed == {u \in Users : plan.user[u] \notin {"none", "member"}}
Joiners == {u \in Users : plan.user[u] = "member"}
\* Every account has one row, an owner the one of the team.
LEMMA InitRows ==
  ASSUME Init
  PROVE  /\ plan \in Plans /\ member \in Seq(MemberRow)
         /\ \A i \in DOMAIN member : /\ member[i].status = "active" /\ member[i].user \in Homed \cup Joiners
                                     /\ member[i].email = None => member[i].team = member[i].user
         /\ \A i, j \in DOMAIN member : member[i].user = member[j].user => i = j
         /\ \A u \in Homed : \E i \in DOMAIN member : member[i].user = u /\ member[i].email = None
         /\ \A u \in Joiners : \E i \in DOMAIN member : member[i].user = u
<1> DEFINE n == Cardinality(Homed)
           m == Cardinality(Joiners)
           S == InOrder(Homed)
           T == InOrder(Joiners)
           s == [i \in 1 .. n |-> Row(S[i], S[i], None, "active", plan.pool)]
           t == [i \in 1 .. m |-> Row(S[1], T[i], plan.home[T[i]], "active", plan.pool)]
<1>1. plan \in Plans /\ IsFiniteSet(Users) /\ None \notin Users \cup Emails BY PlanAssumption DEF Init
<1>2. IsFiniteSet(Homed) /\ IsFiniteSet(Joiners) /\ Homed \cap Joiners = {} /\ Homed \subseteq Users /\ Joiners \subseteq Users
  BY <1>1, FS_Subset DEF Homed, Joiners
<1>3. member = s \o t BY DEF Init, Homed, Joiners
<1>4. /\ n \in Nat /\ S \in [1 .. n -> Homed] /\ (\A x \in Homed : \E i \in 1 .. n : S[i] = x)
      /\ (\A i, j \in 1 .. n : S[i] = S[j] => i = j) /\ (Homed # {} => 1 \in 1 .. n)
  BY <1>2, InOrderIs
<1>5. /\ m \in Nat /\ T \in [1 .. m -> Joiners] /\ (\A x \in Joiners : \E i \in 1 .. m : T[i] = x)
      /\ (\A i, j \in 1 .. m : T[i] = T[j] => i = j)
  BY <1>2, InOrderIs
<1>6. Joiners # {} => Homed # {} BY <1>1, PlanAssumption DEF Populated, Homed, Joiners
<1>7. plan.home \in [Users -> Emails] /\ plan.pool \in BOOLEAN BY <1>1, PlanTypes
<1> HIDE DEF n, m, S, T
<1>8. ASSUME NEW i \in 1 .. n
      PROVE  s[i] \in MemberRow /\ s[i].team = S[i] /\ s[i].user = S[i] /\ s[i].email = None /\ s[i].status = "active"
 <2>1. S[i] \in Users BY <1>2, <1>4, <1>8
 <2> QED BY <1>7, <1>8, <2>1 DEF Row, MemberRow
<1>9. ASSUME NEW i \in 1 .. m
      PROVE  t[i] \in MemberRow /\ t[i].user = T[i] /\ t[i].email # None /\ t[i].status = "active"
 <2>1. T[i] \in Users /\ T[i] \in Joiners BY <1>2, <1>5, <1>9
 <2>2. S[1] \in Users /\ plan.home[T[i]] \in Emails BY <1>2, <1>4, <1>6, <1>7, <2>1
 <2> QED BY <1>1, <1>7, <1>9, <2>1, <2>2 DEF Row, MemberRow
<1>10. DOMAIN s = 1 .. n /\ DOMAIN t = 1 .. m OBVIOUS
<1> HIDE DEF s, t
<1>11. s \in [1 .. n -> MemberRow] /\ t \in [1 .. m -> MemberRow] BY <1>8, <1>9, <1>10 DEF s, t
<1>12. s \in Seq(MemberRow) /\ t \in Seq(MemberRow) /\ Len(s) = n /\ Len(t) = m BY <1>4, <1>5, <1>10, <1>11
<1>13. /\ member \in Seq(MemberRow) /\ Len(member) = n + m
       /\ \A i \in 1 .. n + m : member[i] = IF i <= n THEN s[i] ELSE t[i - n]
  BY <1>3, <1>12, ConcatProperties
<1>14. DOMAIN member = 1 .. n + m BY <1>13
<1>15. ASSUME NEW i \in 1 .. n + m
       PROVE  (i \in 1 .. n /\ member[i] = s[i]) \/ (i \notin 1 .. n /\ i - n \in 1 .. m /\ member[i] = t[i - n])
  BY <1>4, <1>5, <1>13, <1>15
<1>16. \A i \in 1 .. n : i \in 1 .. n + m /\ member[i] = s[i] BY <1>4, <1>5, <1>13
<1>17. \A i \in 1 .. m : i + n \in 1 .. n + m /\ member[i + n] = t[i]
 <2>1. ASSUME NEW i \in 1 .. m
       PROVE  i + n \in 1 .. n + m /\ ~(i + n <= n) /\ (i + n) - n = i
   BY <1>4, <1>5
 <2> QED BY <1>13, <2>1
<1>18. ASSUME NEW i \in DOMAIN member
       PROVE  /\ member[i].status = "active" /\ member[i].user \in Homed \cup Joiners
              /\ member[i].email = None => member[i].team = member[i].user
  BY <1>4, <1>5, <1>8, <1>9, <1>14, <1>15, <1>18
<1>19. ASSUME NEW i \in DOMAIN member, NEW j \in DOMAIN member, member[i].user = member[j].user
       PROVE  i = j
 <2>1. CASE i \in 1 .. n /\ j \in 1 .. n BY <1>4, <1>8, <1>16, <1>19, <2>1
 <2>2. CASE i \notin 1 .. n /\ j \notin 1 .. n
  <3>1. i - n \in 1 .. m /\ j - n \in 1 .. m /\ T[i - n] = T[j - n] BY <1>9, <1>14, <1>15, <1>19, <2>2
  <3>2. i - n = j - n BY <1>5, <3>1
  <3> QED BY <1>4, <1>5, <1>14, <3>2
 <2>3. ASSUME NEW k \in DOMAIN member, NEW l \in DOMAIN member, k \in 1 .. n, l \notin 1 .. n
       PROVE  member[k].user # member[l].user
  <3>1. member[k].user \in Homed BY <1>4, <1>8, <1>16, <2>3
  <3>2. member[l].user \in Joiners BY <1>5, <1>9, <1>14, <1>15, <2>3
  <3> QED BY <1>2, <3>1, <3>2
 <2> QED BY <1>19, <2>1, <2>2, <2>3
<1>20. ASSUME NEW u \in Homed
       PROVE  \E i \in DOMAIN member : member[i].user = u /\ member[i].email = None
 <2>1. PICK i \in 1 .. n : S[i] = u BY <1>4
 <2> QED BY <1>8, <1>14, <1>16, <2>1
<1>21. ASSUME NEW u \in Joiners
       PROVE  \E i \in DOMAIN member : member[i].user = u
 <2>1. PICK i \in 1 .. m : T[i] = u BY <1>5
 <2> QED BY <1>9, <1>14, <1>17, <2>1
<1> QED BY <1>1, <1>13, <1>18, <1>19, <1>20, <1>21

\* The accounts there are at the start.
LEMMA InitUsers ==
  ASSUME Init, NEW u \in Users
  PROVE  /\ user[u] \in UserRow /\ team[u] \in TeamRow /\ user[u].reset = 0 /\ user[u].pend = None
         /\ user[u].due = "none" => ~user[u].deleted
         /\ user[u].st # "gone" /\ (user[u].st = "live" <=> u \in Homed \cup Joiners)
         /\ user[u].st = "live" => user[u].email = plan.home[u] /\ plan.home[u] \in Emails
         /\ team[u].st = "live" <=> u \in Homed
         /\ team[u].st # "live" => team[u].st = "none"
<1>1. plan \in Plans BY DEF Init
<1>2. plan.home[u] \in Emails /\ plan.user[u] \in {"none", "owner", "member", "scheduled", "oauth"} BY <1>1, PlanTypes
<1>3. NoUser \in UserRow /\ NoUser.st = "none" /\ NoUser.reset = 0 /\ NoUser.pend = None /\ ~NoUser.deleted /\ NoUser.due = "none"
  BY DEF NoUser, UserRow
<1> DEFINE x == Existing(u)
<1>4. /\ x \in UserRow /\ x.st = "live" /\ x.email = plan.home[u] /\ x.reset = 0 /\ x.pend = None
      /\ (x.due = "none" => ~x.deleted)
 <2>1. CASE plan.user[u] = "scheduled" BY <1>2, <2>1 DEF Existing, NoUser, UserRow
 <2>2. CASE plan.user[u] # "scheduled" BY <1>2, <2>2 DEF Existing, NoUser, UserRow
 <2> QED BY <2>1, <2>2
<1> HIDE DEF x
<1>5. user[u] = IF plan.user[u] = "none" THEN NoUser ELSE x BY DEF Init, x
<1>6. (plan.user[u] # "none" <=> u \in Homed \cup Joiners) /\ (plan.user[u] \notin {"none", "member"} <=> u \in Homed)
  BY <1>2 DEF Homed, Joiners
<1>7. team[u] \in TeamRow /\ (team[u].st = "live" <=> u \in Homed) /\ (team[u].st # "live" => team[u].st = "none")
 <2>1. team[u] = IF u \in Homed THEN [NewTeam(u) EXCEPT !.quota = TRUE] ELSE NoTeam BY DEF Init, Homed
 <2>2. [NewTeam(u) EXCEPT !.quota = TRUE] \in TeamRow /\ [NewTeam(u) EXCEPT !.quota = TRUE].st = "live"
   BY DEF NewTeam, NoTeam, TeamRow
 <2>3. NoTeam \in TeamRow /\ NoTeam.st = "none" BY DEF NoTeam, TeamRow
 <2> QED BY <2>1, <2>2, <2>3
<1> QED BY <1>2, <1>3, <1>4, <1>5, <1>6, <1>7

\* Types and places hold at the start.
LEMMA InitBase ==
  ASSUME Init
  PROVE  Base
<1>1. /\ plan \in Plans /\ codes = 0 /\ tries = <<>> /\ locked = {} /\ spent = {} /\ mailed = [e \in Emails |-> {}]
      /\ call = [q \in Calls |-> Idle] /\ member \in Seq(MemberRow) /\ MaxTries \in Nat
  BY InitRows, PlanAssumption DEF Init
<1>2. Idle \in CallRow BY Named DEF Idle, CallRow, Tos
<1>3. user \in [Users -> UserRow] /\ team \in [Users -> TeamRow]
 <2>1. \A u \in Users : user[u] \in UserRow /\ team[u] \in TeamRow BY InitUsers
 <2>2. DOMAIN user = Users /\ DOMAIN team = Users /\ user = [u \in Users |-> user[u]] /\ team = [u \in Users |-> team[u]]
   BY DEF Init
 <2> QED BY <2>1, <2>2
<1>4. DOMAIN tries = {} BY <1>1
<1>5. Types BY <1>1, <1>2, <1>3, <1>4 DEF Types
<1>6. \A q \in Calls : call[q] = Idle /\ call[q].pc = "new" /\ call[q].user = None /\ call[q].set = {} /\ call[q].since = {}
                       /\ call[q].row = 0 /\ call[q].end = "none" /\ call[q].seen = 0
  BY <1>1 DEF Idle
<1>7. Places
 <2>1. Len(member) \in Nat BY <1>1
 <2>2. ASSUME NEW q \in Calls
       PROVE  InPlace(q, call[q]) /\ Holds(q, call[q], Len(member), codes)
   BY <1>1, <1>6, <2>1, <2>2 DEF InPlace, Holds, Making, Dropping, Over
 <2> QED BY <2>2 DEF Places
<1>8. None \notin Users /\ Homed \subseteq Users /\ Joiners \subseteq Users BY PlanAssumption DEF Homed, Joiners
<1>9. Accounted
 <2>1. \A u \in Users : /\ user[u].st = "live" => user[u].email \in Emails
                        /\ user[u].pend # None => user[u].pcode # 0
                        /\ ~(user[u].due = "none" /\ user[u].deleted)
   BY InitUsers
 <2>2. \A i \in DOMAIN member : member[i].status = "active" /\ member[i].user \in Users BY <1>8, InitRows
 <2> QED BY <2>1, <2>2 DEF Accounted
<1>10. Known
 <2>1. \A u \in Users : (u \in Homed \cup Joiners => user[u].st # "none") /\ (team[u].st # "none" => user[u].st # "none")
   BY InitUsers
 <2>2. \A i \in DOMAIN member : member[i].user \in Homed \cup Joiners BY InitRows
 <2> QED BY <1>6, <1>8, <2>1, <2>2 DEF Known
<1>11. Sinces BY <1>6 DEF Sinces
<1> QED BY <1>5, <1>7, <1>9, <1>10, <1>11 DEF Base

\* The whole invariant holds at the start.
LEMMA InitInv ==
  ASSUME Init
  PROVE  IInv
<1>1. Base BY InitBase
<1>2. \A q \in Calls : /\ call[q].pc = "new" /\ call[q].user = None /\ call[q].row = 0 /\ call[q].end = "none"
                       /\ call[q].seen = 0 /\ ~Started(q) /\ ~Made(q)
  BY DEF Init, Idle, Started, Made
<1>3. plan \in Plans /\ None \notin Users \cup Emails /\ MaxTries \in Nat \ {0} BY PlanAssumption DEF Init
<1>4. \A u \in Users : Live(u) => u \in Homed \cup Joiners /\ user[u].email = plan.home[u] /\ plan.user[u] # "none"
  BY InitUsers DEF Live, Homed, Joiners
<1>5. AddressInv
 <2>1. Apart
  <3>1. Populated(plan) BY <1>3, PlanAssumption
  <3> QED BY <1>4, <3>1 DEF Apart, Populated
 <2>2. Codes /\ Verifying BY <1>2 DEF Codes, Verifying
 <2>3. Mailbox BY <1>4 DEF Mailbox
 <2> QED BY <2>1, <2>2, <2>3 DEF AddressInv
<1>6. TeamInv
 <2>1. OwnRow /\ OneRow BY InitRows DEF OwnRow, OneRow
 <2>2. NoRow /\ Joining BY <1>2 DEF NoRow, Joining, Homeless
 <2>3. Owned BY InitRows, InitUsers DEF Owned
 <2>4. TeamForEveryone
  <3>1. \A u \in Users : Live(u) => HasTeam(u) BY <1>4, InitRows, InitUsers DEF HasTeam
  <3> QED BY <3>1 DEF TeamForEveryone
 <2> QED BY <2>1, <2>2, <2>3, <2>4 DEF TeamInv
<1>7. InviteInv
 <2>1. Inviting /\ Uninvited /\ Taken BY <1>2 DEF Inviting, Uninvited, Taken, Unasked
 <2>2. PendingForStrangers BY InitRows DEF PendingForStrangers
 <2> QED BY <2>1, <2>2 DEF InviteInv
<1>8. KeptInv
 <2>1. Doom /\ Signed /\ Renewing BY <1>2 DEF Doom, Signed, Renewing, Dropping, Entering
 <2>2. Resets
  <3>1. \A u \in Users : user[u].reset = 0 BY InitUsers
  <3>2. \A q \in Calls : ~Resetting(q) /\ call[q].end # "reset" BY <1>2 DEF Resetting
  <3>3. codes = 0 BY DEF Init
  <3> QED BY <3>1, <3>2, <3>3 DEF Resets
 <2> QED BY <2>1, <2>2 DEF KeptInv
<1>9. GuessInv
 <2>1. ASSUME NEW k \in Kinds
       PROVE  Counted(k)
  <3>1. Unspent(k) = {} BY <1>2 DEF Misses, Unspent
  <3>2. IsFiniteSet(Unspent(k)) /\ Cardinality(Unspent(k)) = 0 BY <3>1, FS_EmptySet
  <3>3. tries = <<>> /\ locked = {} BY DEF Init
  <3>4. Tries(k) = 0 /\ \A q \in Calls : ~Counting(q, k) BY <1>2, <3>3 DEF Tries, Counting
  <3> QED BY <1>2, <1>3, <3>2, <3>4 DEF Counted
 <2>2. Answered BY DEF Init, Answered
 <2> QED BY <2>1, <2>2 DEF GuessInv
<1>10. RotationInv
 <2>1. LastIs BY <1>2 DEF LastIs, Did
 <2>2. Rotates BY <1>2 DEF Rotates, Chosen
 <2>3. AssigneeActive BY <1>2 DEF AssigneeActive, Over
 <2> QED BY <2>1, <2>2, <2>3 DEF RotationInv
<1> QED BY <1>1, <1>5, <1>6, <1>7, <1>8, <1>9, <1>10 DEF IInv

--------------------
(* The theorems *)

\* Every step is the step of a call, or of the calendar, or none.
LEMMA NextMoves ==
  ASSUME Base, [Next]_vars
  PROVE  (\E q \in Calls : Step(q) /\ Stepped(q)) \/ Passes
<1>1. CASE \E q \in Calls : Step(q) BY <1>1, StepMoves
<1>2. CASE \E u \in Users : GracePasses(u) BY <1>2, GraceIsPassing
<1>3. CASE \E k \in DOMAIN tries : CountExpires(k) BY <1>3, Typing, ExpiryIsPassing
<1>4. CASE \E k \in locked : LockExpires(k) BY <1>4, Typing, ExpiryIsPassing
<1>5. CASE UNCHANGED vars BY <1>5, StutterIsPassing
<1> QED BY <1>1, <1>2, <1>3, <1>4, <1>5 DEF Next, Step

\* A step of a call keeps the whole invariant.
LEMMA StepInv ==
  ASSUME IInv, NEW q \in Calls, Step(q), Stepped(q)
  PROVE  IInv'
<1>1. Base' BY StepKeepsBase DEF IInv
<1>2. AddressInv' BY AddressStep DEF IInv
<1>3. TeamInv' BY TeamStepKeeps DEF IInv
<1>4. InviteInv' BY InviteStep DEF IInv
<1>5. KeptInv' BY KeptStep DEF IInv
<1>6. GuessInv' BY GuessStep DEF IInv
<1>7. RotationInv' BY RotationStep DEF IInv
<1> QED BY <1>1, <1>2, <1>3, <1>4, <1>5, <1>6, <1>7 DEF IInv

\* Days that pass keep it too.
LEMMA PassInv ==
  ASSUME IInv, Passes
  PROVE  IInv'
  BY BasePasses, AddressPasses, TeamPasses, InvitePasses, KeptPasses, GuessPasses, RotationPasses DEF IInv

\* The invariant is inductive.
LEMMA NextInv ==
  ASSUME IInv, [Next]_vars
  PROVE  IInv'
<1>1. Base BY DEF IInv
<1> QED BY <1>1, NextMoves, StepInv, PassInv

\* The inductive invariant holds in every state the requests and the cleanup can lead to.
THEOREM Inductive == Spec => []IInv
<1>1. Init => IInv BY InitInv
<1>2. IInv /\ [Next]_vars => IInv' BY NextInv
<1> QED BY <1>1, <1>2, PTL DEF Spec

\* What the invariant says of the types.
LEMMA TypesMean ==
  ASSUME Base
  PROVE  TypeOK
<1>1. \A e \in Emails : mailed[e] \subseteq 1 .. codes BY Typing
<1>2. \A i \in DOMAIN member : /\ member[i].status \in {"pending", "active", "removed"}
                               /\ member[i].status = "active" => member[i].user \in Users
  BY RowTypes DEF Base, Accounted
<1>3. \A u \in Users :
       /\ user[u].st \in {"none", "live", "gone"} /\ team[u].st \in {"none", "live", "gone"}
       /\ user[u].token \in {"none", "held", "late"} /\ user[u].due \in {"none", "set", "past"}
       /\ user[u].due = "none" /\ user[u].deleted => \E q \in Calls : Does(q).op = "adminDelete"
  BY RowTypes DEF Base, Accounted
<1>4. locked \subseteq Pods \X Guessing \X (Users \cup Emails) BY Typing DEF Kinds
<1> QED BY <1>1, <1>2, <1>3, <1>4, Typing DEF TypeOK

\* Types: accounts, teams and members are in one of their states, whoever is active in
\* a team is a user, a count of wrong answers stays below the lock, and no account
\* is marked for deletion without a date unless an administrator marks accounts.
THEOREM TypeCorrect == Spec => []TypeOK
<1>1. IInv => TypeOK BY TypesMean DEF IInv
<1> QED BY <1>1, Inductive, PTL

\* Registration, sign-in by a provider, the change of an address and invitations,
\* however their steps interleave: one account for an address, verified by who reads
\* the mailbox; a team for every account; no invitation left for one.
THEOREM SoundAccounts == Spec => []AccountsSound
<1>1. IInv => AccountsSound BY AddressMeans DEF IInv, TeamInv, InviteInv, AccountsSound
<1> QED BY <1>1, Inductive, PTL

\* The nightly cleanup, on any number of pods: it deletes for good only what is marked
\* and due, unless a restore or a new request for deletion overlapped it.
THEOREM DeletionGuarded == Spec => RestoredIsKept
<1>1. ASSUME IInv, [Next]_vars, NEW u \in Users, Live(u), user'[u].st = "gone"
      PROVE  \/ user[u].deleted /\ user[u].due = "past"
             \/ \E q \in Calls : call[q].pc = "dropUser" /\ call[q].user = u /\ Racing(q, Restorers)
 <2>1. Base /\ KeptInv BY <1>1 DEF IInv
 <2>2. ~Passes BY <1>1 DEF Passes, Live
 <2> QED BY <1>1, <2>1, <2>2, NextMoves, RestoredIsKeptStep
<1>2. IInv /\ [Next]_vars =>
        \A u \in Users : Live(u) /\ user'[u].st = "gone" =>
          \/ user[u].deleted /\ user[u].due = "past"
          \/ \E q \in Calls : call[q].pc = "dropUser" /\ call[q].user = u /\ Racing(q, Restorers)
  BY <1>1
<1> QED BY <1>2, Inductive, PTL DEF Spec, RestoredIsKept

\* refreshToken reads the stored token and writes it again later: a session that was
\* revoked comes back only when the revocation overlapped the refresh.
THEOREM SessionsStayRevoked == Spec => RefreshRevivesOnlyRacing
<1>1. ASSUME IInv, [Next]_vars, NEW u \in Users, NEW r \in Calls,
             ~user[u].session, user'[u].session, call[r].pc = "renew", call'[r].pc = "done"
      PROVE  Racing(r, Revokers)
 <2>1. Base /\ KeptInv BY <1>1 DEF IInv
 <2>2. ~Passes BY <1>1 DEF Passes
 <2> QED BY <1>1, <2>1, <2>2, NextMoves, RefreshStep
<1>2. IInv /\ [Next]_vars =>
        \A u \in Users, q \in Calls :
          ~user[u].session /\ user'[u].session /\ call[q].pc = "renew" /\ call'[q].pc = "done" => Racing(q, Revokers)
  BY <1>1
<1> QED BY <1>2, Inductive, PTL DEF Spec, RefreshRevivesOnlyRacing

\* The lock after wrong codes and passwords, reset codes that set one password, the
\* restore at a login, revoked sessions, the cleanup.
THEOREM KeptAccounts == Spec => AccountsKept
<1>1. IInv => GuessesBounded /\ OneResetPerCode /\ LoginRestores BY GuessesMean, KeptMeans DEF IInv
<1> QED BY <1>1, Inductive, DeletionGuarded, SessionsStayRevoked, PTL DEF AccountsKept

\* resolveAssigneeId and recordLiveChatAssignment: handovers go round, and to
\* somebody on the team.
THEOREM FairHandovers == Spec => []HandoversFair
<1>1. IInv => HandoversFair BY RotationMeans DEF IInv
<1> QED BY <1>1, Inductive, PTL
=============================================================================
