--------------------------- MODULE OtpFlowProofs ---------------------------
(* TypeOK, ProofsHold and LimitsHoldUnraced are invariants of OtpFlow, and
   its behaviours satisfy OneCodeAtATime, whatever the plans and bounds.
   
   The first part says what each step does: one lemma for the effect of
   each action, with the types of what it writes, and SmallStep, the small
   invariant the rest starts from.  Types gives every variable a type that
   does not depend on the state; Begun says that a call that has begun
   knows its address; Holding that a verification under way names a code
   for its address.  Steady says what no step of the system takes back: a
   row, its author, a mark, a token.
   
   No property here is inductive.  ProvenPhones needs that a call that
   goes on to Grant typed the very code it found (Guesses) and that a lead
   under way showed a real token (ProvenLeads); LeadsCarryConsent that the
   consent found by the gate is still the chat's when the lead is written
   (Carrying).  Remembered relates a token to the flow its request began
   in: Memory says which consent and which chat a code was asked for in,
   LeadFlows why the lead flow is in its state, Askers who began before
   whom; from these, giving a code back finds the flow in OTP_SENT and
   marks the request's own consent, or there is one of the excuses that
   the property names (GrantSettles); Verifieds and Granted keep that.
   
   The limits relate what a call does to what it could know when it began:
   Counted that a row's counter keeps up with who has tried the code, Room
   that the codes known to a call leave room for its own until it is
   issued, Spaced that a short gap goes back to a choice of WhatsApp. One
   code at a time needs that a message is claimed by its key (Rescued),
   that a choice is used up or counted (Choices), and that a booking's
   flow waits for the code it noted until something supersedes it
   (Bookings). *)
EXTENDS OtpFlow, FiniteSetTheorems, SequenceTheorems, TLAPS

\* LatestOf takes the largest element of a nonempty bounded set of positions.
LEMMA LatestIsLargest ==
  ASSUME NEW n \in Nat, NEW S, S \subseteq 1 .. n, S # {}
  PROVE  LatestOf(S) \in S /\ \A j \in S : j <= LatestOf(S)
<1> DEFINE From(i) == {k \in S : k >= i}
           Cuts == {From(i) : i \in S}
<1>1. IsFiniteSet(S)
 <2>1. IsFiniteSet(1 .. n) BY FS_Interval
 <2> QED BY <2>1, FS_Subset
<1>2. IsWellFoundedOn(StrictSubsetOrdering(S), SUBSET S)
  BY <1>1, FS_FiniteSubsetsOfFinite, FS_StrictSubsetOrderingWellFounded
<1>3. Cuts \subseteq SUBSET S /\ Cuts # {} OBVIOUS
<1>4. PICK least \in Cuts : \A cut \in Cuts : <<cut, least>> \notin StrictSubsetOrdering(S)
 <2> HIDE DEF Cuts
 <2> QED BY <1>2, <1>3, WFMin
<1>5. PICK i \in S : least = From(i) OBVIOUS
<1>6. \A j \in S : j <= i
 <2> SUFFICES ASSUME NEW j \in S, j > i  PROVE FALSE OBVIOUS
 <2>0. S \subseteq Int /\ i \in From(i) /\ i \notin From(j) OBVIOUS
 <2>1. From(j) \subseteq From(i) /\ From(j) # From(i)
  <3>1. \A k \in S : k >= j => k >= i BY <2>0
  <3> QED BY <2>0, <3>1
 <2>2. <<From(j), From(i)>> \in StrictSubsetOrdering(S) BY <2>1 DEF StrictSubsetOrdering
 <2> QED BY <1>4, <1>5, <2>2
<1> QED BY <1>6 DEF LatestOf
(* The records, and what every variable ranges over. *)
CodeRow == [addr : Addrs, at : Nat, tries : Nat, used : BOOLEAN, by : Calls]
ConsentRecord == [chat : Chats \cup {None}, addr : Addrs \cup {None}, at : Nat,
                  verified : BOOLEAN, lead : Calls \cup {None}]
FlowRow == [state : FlowStates, addr : Addrs \cup {None}, proven : Addrs \cup {None}, at : Nat]
FlowMap == [Chats -> [Kinds -> FlowRow]]
LeadRow == [status : Statuses \cup {"none", "rejected"}, chat : Chats \cup {None},
            sms : BOOLEAN, booked : BOOLEAN, consent : Nat]
Local == [op : Ops, table : Tables, chat : Chats, addr : Addrs \cup {None}, pc : Pcs,
          n : Nat, typed : Nat, consent : Nat, seen : Channels, of : Calls \cup {None},
          tried : BOOLEAN, noted : BOOLEAN, mailOk : BOOLEAN, smsOk : BOOLEAN,
          booked : BOOLEAN, picked : Nat, since : SUBSET Calls]
Token == [table : Tables, addr : Addrs, n : Nat, at : Nat, by : Calls]

Types ==
  /\ plan \in Plans /\ clock \in Nat /\ codes \in [Tables -> Seq(CodeRow)] /\ consents \in Seq(ConsentRecord)
  /\ flow \in FlowMap /\ pref \in [Chats -> Channels] /\ pending \subseteq Calls
  /\ leads \in [Calls -> LeadRow] /\ tokens \subseteq Token /\ call \in [Calls -> Local]
  /\ sent \in [Calls -> {"none", "sms", "whatsapp", "mail"}] /\ picks \in [Chats -> Nat]

\* A call that has begun knows its address; one that has not is as Init left it.
Begun ==
  /\ \A q \in Calls : IF call[q].pc = "new" THEN call[q] = Idle(call[q].op, call[q].table, call[q].chat)
                      ELSE call[q].addr \in Addrs
  /\ \A m \in pending : call[m].pc # "new"
--------------------
\* What the assumption on Plans says of the plan of a behaviour.
LEMMA PlanTypes ==
  ASSUME plan \in Plans
  PROVE  /\ plan.asks \in [Calls -> [op : Ops, table : Tables, chat : Chats, addr : Addrs]]
         /\ Live \subseteq Chats /\ plan.consents \in Nat /\ plan.picks \in Nat /\ plan.failures \in BOOLEAN
         /\ bot \in [mail : BOOLEAN, sms : BOOLEAN, kvkk : BOOLEAN, gate : BOOLEAN]
<1> DEFINE Asks == [Calls -> [op : Ops, table : Tables, chat : Chats, addr : Addrs]]
           Bot == [mail : BOOLEAN, sms : BOOLEAN, kvkk : BOOLEAN, gate : BOOLEAN]
<1>1. plan \in [asks : Asks, bot : Bot,
                consents : Nat, picks : Nat, failures : BOOLEAN]
  BY SettingsAssumption
<1>2. /\ plan.asks \in Asks /\ plan.consents \in Nat /\ plan.picks \in Nat /\ plan.failures \in BOOLEAN
      /\ plan.bot \in Bot
 <2> HIDE DEF Asks, Bot
 <2> QED BY <1>1
<1> QED BY <1>2 DEF Live, bot

\* Types and Begun hold at the start.
LEMMA InitTypes == Init => Types /\ Begun
<1> SUFFICES ASSUME Init  PROVE Types /\ Begun OBVIOUS
<1>1. call \in [Calls -> Local]
 <2>1. \A q \in Calls : /\ plan.asks[q].op \in Ops /\ plan.asks[q].table \in Tables
                        /\ plan.asks[q].chat \in Chats
   BY PlanTypes DEF Init
 <2>2. ASSUME NEW o \in Ops, NEW t \in Tables, NEW c \in Chats  PROVE Idle(o, t, c) \in Local
   BY DEF Idle, Local, Pcs, Channels
 <2> QED BY <2>1, <2>2 DEF Init
<1>2. codes \in [Tables -> Seq(CodeRow)] /\ consents \in Seq(ConsentRecord) BY EmptySeq DEF Init
<1>3. leads \in [Calls -> LeadRow] BY DEF Init, NoLead, LeadRow
<1>4. flow \in FlowMap BY DEF Init, NoFlow, FlowMap, FlowRow, FlowStates
<1>5. Begun BY DEF Init, Begun, Idle
<1>6. pref \in [Chats -> Channels] /\ sent \in [Calls -> {"none", "sms", "whatsapp", "mail"}]
      /\ picks \in [Chats -> Nat] /\ pending \subseteq Calls /\ tokens \subseteq Token
      /\ clock \in Nat /\ plan \in Plans
  BY DEF Init, Channels
<1> QED BY <1>1, <1>2, <1>3, <1>4, <1>5, <1>6 DEF Types
--------------------
(* How the records of the variables change. *)

\* A call's record becomes r, the others stay.
Becomes(q, r) ==
  /\ call' \in [Calls -> Local] /\ call'[q] = r
  /\ \A p \in Calls : p # q => call'[p] = call[p]

\* A Moves step writes one local state and leaves the other calls alone.
LEMMA MovesBecomes ==
  ASSUME call \in [Calls -> Local], NEW q \in Calls, NEW from, NEW r \in Local, Moves(q, from, r)
  PROVE  Becomes(q, r) /\ call[q].pc = from
  BY DEF Moves, Becomes

\* A Goes step changes one call's pc.
LEMMA GoesBecomes ==
  ASSUME call \in [Calls -> Local], NEW q \in Calls, NEW from, NEW to \in Pcs, Goes(q, from, to)
  PROVE  Becomes(q, [call[q] EXCEPT !.pc = to]) /\ call[q].pc = from
<1>1. [call[q] EXCEPT !.pc = to] \in Local BY DEF Local
<1> QED BY <1>1, MovesBecomes DEF Goes

Ended == {r \in Calls : call[r].pc \in Over}

\* A Starts step gives a new call its local state and notes who has ended.
LEMMA StartsBecomes ==
  ASSUME call \in [Calls -> Local], NEW q \in Calls, NEW r \in Local, Starts(q, r)
  PROVE  /\ Becomes(q, [r EXCEPT !.since = Ended]) /\ call[q].pc = "new"
         /\ call[q].op = r.op /\ call[q].table = r.table /\ call[q].chat = r.chat
<1>1. [r EXCEPT !.since = Ended] \in Local BY DEF Local, Ended
<1> QED BY <1>1 DEF Starts, Becomes, Ended

\* One code more, and a change of one that is there.
LEMMA CodeAdded ==
  ASSUME codes \in [Tables -> Seq(CodeRow)], NEW t \in Tables, NEW r \in CodeRow,
         codes' = [codes EXCEPT ![t] = Append(@, r)]
  PROVE  /\ codes' \in [Tables -> Seq(CodeRow)]
         /\ \A u \in Tables : u # t => codes'[u] = codes[u]
         /\ Len(codes'[t]) = Len(codes[t]) + 1
         /\ \A i \in 1 .. Len(codes[t]) : codes'[t][i] = codes[t][i]
         /\ codes'[t][Len(codes[t]) + 1] = r
<1>1. codes[t] \in Seq(CodeRow) OBVIOUS
<1>2. Append(codes[t], r) \in Seq(CodeRow) BY <1>1, AppendProperties
<1>3. codes'[t] = Append(codes[t], r) OBVIOUS
<1> QED BY <1>1, <1>2, <1>3, AppendProperties

\* What appending a consent row leaves of the sequence.
LEMMA ConsentAdded ==
  ASSUME consents \in Seq(ConsentRecord), NEW r \in ConsentRecord, consents' = Append(consents, r)
  PROVE  /\ consents' \in Seq(ConsentRecord) /\ Len(consents') = Len(consents) + 1
         /\ \A i \in 1 .. Len(consents) : consents'[i] = consents[i]
         /\ consents'[Len(consents) + 1] = r
  BY AppendProperties

\* A transition writes one flow, or none.
LEMMA TransitionWrites ==
  ASSUME NEW fl \in FlowMap, NEW c \in Chats \cup {None}, NEW k \in Kinds, NEW from, clock \in Nat,
         NEW row, row \in [state : FlowStates, addr : Addrs \cup {None, "kept"},
                           proven : Addrs \cup {None, "kept"}],
         NEW out, out = Transition(fl, c, k, from, row)
  PROVE  /\ out \in FlowMap
         /\ \A d \in Chats, j \in Kinds : d # c \/ j # k => out[d][j] = fl[d][j]
         /\ c \in Chats =>
              IF from = "any" \/ fl[c][k].state = from
              THEN /\ out[c][k].state = row.state /\ out[c][k].at = clock
                   /\ out[c][k].addr = (IF row.addr = "kept" THEN fl[c][k].addr ELSE row.addr)
                   /\ out[c][k].proven = (IF row.proven = "kept" THEN fl[c][k].proven ELSE row.proven)
              ELSE out = fl
         /\ c = None => out = fl
<1>0. None \notin Chats BY SettingsAssumption
<1>1. CASE c \in Chats /\ (from = "any" \/ fl[c][k].state = from)
 <2> DEFINE old == fl[c][k]
            new == Written(old, row)
 <2>1. old \in FlowRow BY <1>1 DEF FlowMap
 <2>2. /\ new \in FlowRow /\ new.state = row.state /\ new.at = clock
       /\ new.addr = (IF row.addr = "kept" THEN old.addr ELSE row.addr)
       /\ new.proven = (IF row.proven = "kept" THEN old.proven ELSE row.proven)
   BY <2>1 DEF FlowRow, Written
 <2>3. out = [fl EXCEPT ![c][k] = new] BY <1>0, <1>1 DEF Transition
 <2> HIDE DEF new
 <2>4. /\ out \in FlowMap /\ out[c][k] = new
       /\ \A d \in Chats, j \in Kinds : d # c \/ j # k => out[d][j] = fl[d][j]
   BY <1>1, <2>2, <2>3 DEF FlowMap
 <2> QED BY <1>0, <1>1, <2>2, <2>4
<1>2. CASE ~(c \in Chats /\ (from = "any" \/ fl[c][k].state = from)) BY <1>0, <1>2 DEF Transition
<1> QED BY <1>1, <1>2
--------------------
(* The gates before a code. *)
LEMMA FreshTypes ==
  ASSUME Types, NEW c \in Chats \cup {None}
  PROVE  /\ FreshConsents(c) \subseteq 1 .. Len(consents) /\ Len(consents) \in Nat
         /\ LatestOf(FreshConsents(c)) \in 0 .. Len(consents)
         /\ FreshConsents(c) # {} =>
              /\ LatestOf(FreshConsents(c)) \in 1 .. Len(consents)
              /\ consents[LatestOf(FreshConsents(c))].chat = c
<1>1. FreshConsents(c) \subseteq 1 .. Len(consents) /\ Len(consents) \in Nat BY DEF FreshConsents, Types
<1>2. FreshConsents(c) # {} => LatestOf(FreshConsents(c)) \in FreshConsents(c) BY <1>1, LatestIsLargest
<1>3. FreshConsents(c) = {} => LatestOf(FreshConsents(c)) = 0 BY DEF LatestOf
<1> QED BY <1>1, <1>2, <1>3 DEF FreshConsents

\* Consents grow, and what is written about them is kept in the row's fields.
ConsentsGrow ==
  /\ consents' \in Seq(ConsentRecord) /\ Len(consents) <= Len(consents')
  /\ \A i \in 1 .. Len(consents) :
       consents[i].chat # None => consents'[i].chat = consents[i].chat

\* The consent a gate goes on with.
LEMMA GateConsent ==
  ASSUME Types, NEW c \in Chats \cup {None}, NEW found \in 0 .. Len(consents),
         found # 0 => consents[found].chat = c, consents' = ConsentsAfter(c, found)
  PROVE  /\ consents' \in Seq(ConsentRecord)
         /\ Len(consents') = Len(consents) + (IF OffWidgetRow(c, found) THEN 1 ELSE 0)
         /\ \A i \in 1 .. Len(consents) : consents'[i] = consents[i]
         /\ OffWidgetRow(c, found) => consents'[Len(consents) + 1] = ConsentRow(c)
         /\ ConsentUsed(c, found) \in 0 .. Len(consents')
         /\ ConsentUsed(c, found) # 0 => consents'[ConsentUsed(c, found)].chat = c
<1>1. Len(consents) \in Nat /\ consents \in Seq(ConsentRecord) BY DEF Types
<1>2. ConsentRow(c) \in ConsentRecord /\ ConsentRow(c).chat = c BY DEF ConsentRow, ConsentRecord, Types
<1>3. CASE OffWidgetRow(c, found)
 <2>1. consents' = Append(consents, ConsentRow(c)) BY <1>3 DEF ConsentsAfter
 <2>2. ConsentUsed(c, found) = Len(consents) + 1 BY <1>3 DEF ConsentUsed, OffWidgetRow
 <2> QED BY <1>1, <1>2, <1>3, <2>1, <2>2, ConsentAdded
<1>4. CASE ~OffWidgetRow(c, found)
 <2>1. consents' = consents BY <1>4 DEF ConsentsAfter
 <2>2. CASE found # 0 \/ c \notin OffWidget BY <1>1, <1>4, <2>1, <2>2 DEF ConsentUsed
 <2>3. CASE found = 0 /\ c \in OffWidget
  <3>1. FreshConsents(c) # {} BY <1>4, <2>3 DEF OffWidgetRow
  <3>2. ConsentUsed(c, found) = LatestOf(FreshConsents(c)) BY <1>4, <2>3 DEF ConsentUsed
  <3> QED BY <1>1, <1>4, <2>1, <3>1, <3>2, FreshTypes
 <2> QED BY <2>2, <2>3
<1> QED BY <1>3, <1>4

\* What a new consent does to the flows.
LEMMA ConsentOkWrites ==
  ASSUME Types, NEW c \in Chats \cup {None}
  PROVE  /\ ConsentOk(flow, c) \in FlowMap
         /\ \A d \in Chats, j \in Kinds : d # c \/ j # "lead" => ConsentOk(flow, c)[d][j] = flow[d][j]
         /\ c \in Chats => /\ ConsentOk(flow, c)[c]["lead"].state = "CONSENT_OK"
                           /\ ConsentOk(flow, c)[c]["lead"].addr = flow[c]["lead"].addr
                           /\ ConsentOk(flow, c)[c]["lead"].proven = flow[c]["lead"].proven
                           /\ ConsentOk(flow, c)[c]["lead"].at = clock
<1> DEFINE row == [state |-> "CONSENT_OK", addr |-> "kept", proven |-> "kept"]
<1>1. row \in [state : FlowStates, addr : Addrs \cup {None, "kept"}, proven : Addrs \cup {None, "kept"}]
  BY DEF FlowStates
<1>2. "lead" \in Kinds BY DEF Kinds
<1>3. ConsentOk(flow, c) = Transition(flow, c, "lead", "any", row) BY DEF ConsentOk
<1>4. flow \in FlowMap /\ clock \in Nat BY DEF Types
<1>5. row.state = "CONSENT_OK" /\ row.addr = "kept" /\ row.proven = "kept" OBVIOUS
<1> HIDE DEF row
<1> QED BY <1>1, <1>2, <1>3, <1>4, <1>5, TransitionWrites

\* What the gates write, and the state they leave the call in.
LEMMA GateEffect ==
  ASSUME Types, NEW q \in Calls, NEW l \in Local, l.addr \in Addrs, GateWrites(q, l)
  PROVE  /\ consents' \in Seq(ConsentRecord) /\ Len(consents) <= Len(consents')
         /\ \A i \in 1 .. Len(consents) : consents'[i] = consents[i]
         /\ \A i \in 1 .. Len(consents') : i > Len(consents) =>
              consents'[i] = ConsentRow(l.chat) /\ consents'[i].chat = l.chat /\ flow' = ConsentOk(flow, l.chat)
         /\ flow' \in {flow, ConsentOk(flow, l.chat)} /\ flow' \in FlowMap
         /\ flow' = flow \/ Len(consents') > Len(consents)
         /\ ~Asked(l.table) => Used(l) = 0
         /\ Used(l) \in 0 .. Len(consents')
         /\ Used(l) # 0 => consents'[Used(l)].chat = l.chat
         /\ AfterGates(l) \in Local /\ AfterGates(l).pc = (IF Passes(l, "go") THEN "issue" ELSE "done")
         /\ Passes(l, "go") /\ Asked(l.table) => Used(l) # 0
         /\ IF Passes(l, "already_verified")
            THEN /\ tokens' = tokens \cup {[table |-> l.table, addr |-> l.addr, n |-> 0,
                                           at |-> clock, by |-> q]}
                 /\ l.table \in Sms /\ Proven(l.chat, l.addr)
            ELSE tokens' = tokens
         /\ tokens' \subseteq Token
<1> DEFINE c == CardChat(l)
           found == Found(l)
<1>0. l.chat \in Chats /\ l.table \in Tables /\ Len(consents) \in Nat /\ clock \in Nat
      /\ None \notin Chats /\ flow \in FlowMap /\ tokens \subseteq Token /\ consents \in Seq(ConsentRecord)
 <2>1. l.chat \in Chats /\ l.table \in Tables BY DEF Local
 <2>2. clock \in Nat /\ flow \in FlowMap /\ tokens \subseteq Token /\ consents \in Seq(ConsentRecord) BY DEF Types
 <2> QED BY <2>1, <2>2, SettingsAssumption
<1>1. c \in {None, l.chat} /\ found \in 0 .. Len(consents)
      /\ (found # 0 => consents[found].chat = c)
  BY <1>0, FreshTypes DEF CardChat, Found, LatestOf
<1>2. /\ consents' = ConsentsAfter(c, found) /\ flow' = FlowAfter(c, found)
      /\ tokens' = IF Passes(l, "already_verified")
               THEN tokens \cup {[table |-> l.table, addr |-> l.addr, n |-> 0,
                                  at |-> clock, by |-> q]}
               ELSE tokens
  BY DEF GateWrites
<1> HIDE DEF c, found
<1>3. Used(l) = ConsentUsed(c, found) BY DEF Used, c, found
<1>4. /\ consents' \in Seq(ConsentRecord)
      /\ Len(consents') = Len(consents) + (IF OffWidgetRow(c, found) THEN 1 ELSE 0)
      /\ \A i \in 1 .. Len(consents) : consents'[i] = consents[i]
      /\ OffWidgetRow(c, found) => consents'[Len(consents) + 1] = ConsentRow(c)
      /\ Used(l) \in 0 .. Len(consents')
      /\ Used(l) # 0 => consents'[Used(l)].chat = c
  BY <1>0, <1>1, <1>2, <1>3, GateConsent
<1>5. OffWidgetRow(c, found) => c = l.chat BY <1>0, <1>1, SettingsAssumption DEF OffWidgetRow
<1>6. Used(l) # 0 => c = l.chat
 <2> SUFFICES ASSUME c = None  PROVE Used(l) = 0 BY <1>1
 <2>1. c \notin OffWidget BY SettingsAssumption
 <2>2. found = 0 BY <1>0 DEF c, CardChat, found, Found
 <2> QED BY <1>3, <2>1, <2>2 DEF ConsentUsed
<1>7. flow' \in {flow, ConsentOk(flow, l.chat)} /\ flow' \in FlowMap
      /\ (OffWidgetRow(c, found) => flow' = ConsentOk(flow, l.chat))
  BY <1>0, <1>2, <1>5, ConsentOkWrites DEF FlowAfter
<1>8. \A i \in 1 .. Len(consents') : i > Len(consents) =>
        consents'[i] = ConsentRow(l.chat) /\ consents'[i].chat = l.chat /\ flow' = ConsentOk(flow, l.chat)
 <2> SUFFICES ASSUME NEW i \in 1 .. Len(consents'), i > Len(consents)
              PROVE  consents'[i] = ConsentRow(l.chat) /\ consents'[i].chat = l.chat /\ flow' = ConsentOk(flow, l.chat)
   OBVIOUS
 <2>1. OffWidgetRow(c, found) /\ i = Len(consents) + 1 BY <1>0, <1>4
 <2> QED
  <3>1. ConsentRow(l.chat).chat = l.chat BY DEF ConsentRow
  <3>2. consents'[i] = ConsentRow(c) /\ c = l.chat BY <1>4, <1>5, <2>1
  <3> QED BY <1>7, <2>1, <3>1, <3>2
<1>9. AfterGates(l) \in Local /\ AfterGates(l).pc = (IF Passes(l, "go") THEN "issue" ELSE "done")
 <2>1. Used(l) \in Nat BY <1>0, <1>4
 <2> QED BY <2>1 DEF AfterGates, Local, Pcs, Over
<1>10. Passes(l, "already_verified") => l.table \in Sms /\ Proven(l.chat, l.addr) BY DEF Passes, Verdict
<1>11. tokens' \subseteq Token BY <1>0, <1>2 DEF Token
<1>12. Passes(l, "go") /\ Asked(l.table) => Used(l) # 0 BY DEF Passes
<1>13. flow' = flow \/ Len(consents') > Len(consents) BY <1>0, <1>2, <1>4 DEF FlowAfter
<1>14. ~Asked(l.table) => Used(l) = 0
 <2> SUFFICES ASSUME ~Asked(l.table)  PROVE Used(l) = 0 OBVIOUS
 <2>1. c = None BY DEF c, CardChat
 <2> QED BY <1>0, <1>6, <2>1
<1> QED BY <1>0, <1>2, <1>4, <1>6, <1>7, <1>8, <1>9, <1>10, <1>11, <1>12, <1>13, <1>14
--------------------
(* What each step of a call makes of the call's record: `Kept` is what no
   later step changes, `Same` the rest but its place in the code. *)
Others(q) == call' \in [Calls -> Local] /\ \A p \in Calls : p # q => call'[p] = call[p]
Kept(q) ==
  /\ call'[q].op = call[q].op /\ call'[q].table = call[q].table /\ call'[q].chat = call[q].chat
  /\ call'[q].addr = call[q].addr /\ call'[q].typed = call[q].typed /\ call'[q].of = call[q].of
  /\ call'[q].mailOk = call[q].mailOk /\ call'[q].smsOk = call[q].smsOk
  /\ call'[q].booked = call[q].booked /\ call'[q].since = call[q].since
Same(q) ==
  /\ call'[q].n = call[q].n /\ call'[q].consent = call[q].consent /\ call'[q].seen = call[q].seen
  /\ call'[q].picked = call[q].picked /\ call'[q].tried = call[q].tried /\ call'[q].noted = call[q].noted
Proceeds(q, from, to) ==
  Others(q) /\ Kept(q) /\ Same(q) /\ call[q].pc = from /\ call'[q].pc = to

\* A Goes step in terms of Proceeds.
LEMMA GoesProceeds ==
  ASSUME call \in [Calls -> Local], NEW q \in Calls, NEW from, NEW to \in Pcs, Goes(q, from, to)
  PROVE  Proceeds(q, from, to)
<1>1. call[q] \in Local OBVIOUS
<1>2. Becomes(q, [call[q] EXCEPT !.pc = to]) /\ call[q].pc = from BY GoesBecomes
<1> QED BY <1>1, <1>2 DEF Becomes, Local, Proceeds, Others, Kept, Same

\* Where the constants of the pcs lie.
LEMMA PcFacts ==
  /\ {"issue", "send", "flow", "claim", "try", "use", "grant", "deliver", "done", "dead"} \subseteq Pcs
  /\ Statuses \subseteq Pcs /\ Statuses = {"delivered", "partial", "failed", "nowhere"}
  /\ Over = {"done", "dead"}
  BY DEF Pcs, Statuses, Over

\* A call's first step: it is with the address a now, at step `to`.
Begins(q, a, to) ==
  /\ Others(q) /\ call[q].pc = "new"
  /\ call'[q].op = call[q].op /\ call'[q].table = call[q].table /\ call'[q].chat = call[q].chat
  /\ call'[q].addr = a /\ call'[q].pc = to /\ call'[q].since = Ended
  /\ call'[q].seen = "none" /\ call'[q].picked = 0 /\ ~call'[q].tried /\ ~call'[q].noted

\* The gates before a code, by what they leave behind.
GateMade(q) ==
  LET t == call'[q].table  c == call'[q].chat  a == call'[q].addr
  IN /\ consents' \in Seq(ConsentRecord) /\ Len(consents) <= Len(consents')
     /\ \A i \in 1 .. Len(consents) : consents'[i] = consents[i]
     /\ \A i \in 1 .. Len(consents') : i > Len(consents) =>
          consents'[i] = ConsentRow(c) /\ consents'[i].chat = c /\ flow' = ConsentOk(flow, c)
     /\ flow' \in {flow, ConsentOk(flow, c)} /\ flow' \in FlowMap
     /\ flow' = flow \/ Len(consents') > Len(consents)
     /\ ~Asked(t) => call'[q].consent = 0
     /\ call'[q].consent \in 0 .. Len(consents')
     /\ call'[q].consent # 0 => consents'[call'[q].consent].chat = c
     /\ call'[q].pc \in {"issue", "done"}
     /\ call'[q].pc = "issue" =>
          (Asked(t) => call'[q].consent # 0) /\ Verdict(t, c, a) = "go"
     /\ \/ tokens' = tokens
        \/ /\ call'[q].pc = "done" /\ t \in Sms /\ Proven(c, a)
           /\ tokens' = tokens \cup {[table |-> t, addr |-> a, n |-> 0, at |-> clock, by |-> q]}
     /\ tokens' \subseteq Token

\* The gates, run on a local state that the call then has, leave GateMade.
LEMMA GateMakes ==
  ASSUME Types, NEW q \in Calls, NEW l \in Local, l.addr \in Addrs, GateWrites(q, l),
         call'[q].table = l.table, call'[q].chat = l.chat, call'[q].addr = l.addr,
         call'[q].consent = AfterGates(l).consent, call'[q].pc = AfterGates(l).pc
  PROVE  GateMade(q)
<1>1. AfterGates(l).consent = Used(l) BY DEF AfterGates, Local
<1>2. AfterGates(l).pc = "issue" => Verdict(l.table, l.chat, l.addr) = "go" BY GateEffect DEF Passes
<1>3. Passes(l, "already_verified") => AfterGates(l).pc = "done" BY GateEffect DEF Passes
<1> QED BY <1>1, <1>2, <1>3, GateEffect DEF GateMade

\* What RequestCode changes, with the types of what it writes.
LEMMA RequestCodeEffect ==
  ASSUME Types, NEW q \in Calls, NEW t \in Tables, NEW c \in Chats, NEW a \in Addrs,
         RequestCode(q, t, c, a)
  PROVE  /\ Begins(q, a, call'[q].pc) /\ GateMade(q)
         /\ call[q].op = "request" /\ call'[q].of = None /\ call'[q].typed = 0 /\ call'[q].n = 0
         /\ ~call'[q].smsOk /\ ~call'[q].booked /\ Required(t) /\ call[q].table = t /\ call[q].chat = c
         /\ UNCHANGED <<plan, clock, codes, leads, pref, pending, sent, picks>>
<1> DEFINE l == [Idle("request", t, c) EXCEPT !.addr = a]
<1>1. /\ l \in Local /\ l.addr = a /\ l.op = "request" /\ l.table = t /\ l.chat = c
      /\ l.of = None /\ l.typed = 0 /\ l.n = 0 /\ ~l.smsOk /\ ~l.booked
      /\ l.seen = "none" /\ l.picked = 0 /\ ~l.tried /\ ~l.noted
  BY DEF Idle, Local, Pcs, Channels, Ops
<1>2. GateWrites(q, l) /\ Starts(q, AfterGates(l)) /\ Required(t) BY DEF RequestCode
<1>3. UNCHANGED <<plan, clock, codes, leads, pref, pending, sent, picks>> BY DEF RequestCode, keys
<1> HIDE DEF l
<1> DEFINE r == AfterGates(l)
<1>4. /\ r \in Local /\ r.op = "request" /\ r.table = t /\ r.chat = c /\ r.addr = a
      /\ r.of = None /\ r.typed = 0 /\ r.n = 0 /\ ~r.smsOk /\ ~r.booked
      /\ r.seen = "none" /\ r.picked = 0 /\ ~r.tried /\ ~r.noted
 <2>1. r \in Local BY <1>1, <1>2, GateEffect
 <2> QED BY <1>1, <2>1 DEF AfterGates, Local
<1> HIDE DEF r
<1>5. call \in [Calls -> Local] BY DEF Types
<1>6. /\ Becomes(q, [r EXCEPT !.since = Ended]) /\ call[q].pc = "new"
      /\ call[q].op = r.op /\ call[q].table = r.table /\ call[q].chat = r.chat
  BY <1>2, <1>4, <1>5, StartsBecomes DEF r
<1>7. /\ Begins(q, a, r.pc) /\ call'[q].consent = r.consent /\ call'[q].pc = r.pc
      /\ call'[q].of = None /\ call'[q].typed = 0 /\ call'[q].n = 0 /\ ~call'[q].smsOk /\ ~call'[q].booked
  BY <1>4, <1>6 DEF Becomes, Begins, Others, Local
<1>8. GateMade(q) BY <1>1, <1>2, <1>4, <1>6, <1>7, GateMakes DEF r, Begins
<1> QED BY <1>2, <1>3, <1>4, <1>6, <1>7, <1>8

\* What Claim changes: the gates once more, and the callback's key.
LEMMA ClaimEffect ==
  ASSUME Types, Begun, NEW q \in Calls, Claim(q)
  PROVE  /\ Others(q) /\ Kept(q) /\ GateMade(q) /\ call[q].pc = "claim"
         /\ call'[q].n = call[q].n /\ call'[q].seen = call[q].seen
         /\ call'[q].picked = call[q].picked /\ call'[q].tried = call[q].tried
         /\ call'[q].noted = call[q].noted /\ pending' \subseteq pending
         /\ ~plan.failures => pending' = pending \ {call[q].of}
         /\ UNCHANGED <<plan, clock, codes, leads, pref, sent, picks>>
<1> DEFINE r == AfterGates(call[q])
<1>0. call \in [Calls -> Local] /\ call[q] \in Local BY DEF Types
<1>1. GateWrites(q, call[q]) /\ Moves(q, "claim", r) /\ call[q].pc = "claim" BY DEF Claim, Moves
<1>2. call[q].addr \in Addrs BY <1>1 DEF Begun
<1>3. /\ r \in Local /\ r.op = call[q].op /\ r.table = call[q].table /\ r.chat = call[q].chat
      /\ r.addr = call[q].addr /\ r.typed = call[q].typed /\ r.of = call[q].of
      /\ r.mailOk = call[q].mailOk /\ r.smsOk = call[q].smsOk /\ r.booked = call[q].booked
      /\ r.since = call[q].since /\ r.n = call[q].n /\ r.seen = call[q].seen
      /\ r.picked = call[q].picked /\ r.tried = call[q].tried /\ r.noted = call[q].noted
 <2>1. r \in Local BY <1>0, <1>1, <1>2, GateEffect
 <2> QED BY <1>0, <2>1 DEF AfterGates, Local
<1>4. Becomes(q, r) BY <1>0, <1>1, <1>3, MovesBecomes
<1>5. Others(q) /\ Kept(q) /\ call'[q] = r BY <1>3, <1>4 DEF Others, Kept, Becomes
<1>6. GateMade(q) BY <1>0, <1>1, <1>2, <1>3, <1>5, GateMakes
<1>7. /\ pending' \subseteq pending
      /\ ~plan.failures => pending' = pending \ {call[q].of}
      /\ UNCHANGED <<plan, clock, codes, leads, pref, sent, picks>>
  BY DEF Claim
<1> QED BY <1>1, <1>3, <1>5, <1>6, <1>7

\* What Issue changes: one code row, and the phone of the call's consent.
LEMMA IssueEffect ==
  ASSUME Types, Begun, NEW q \in Calls, Issue(q)
  PROVE  LET t == call[q].table
         IN /\ Others(q) /\ Kept(q) /\ call[q].pc = "issue" /\ call'[q].pc = "send"
            /\ call'[q].n = Len(codes[t]) + 1 /\ call'[q].consent = call[q].consent
            /\ call'[q].picked = picks[call[q].chat] /\ call'[q].tried = call[q].tried
            /\ call'[q].noted = call[q].noted
            /\ t \in Mail => call'[q].seen = "none"
            /\ t \notin Mail /\ ~plan.failures => call'[q].seen = pref[call[q].chat]
            /\ t \notin Mail => call'[q].seen \in {pref[call[q].chat], "sms"}
            /\ consents' = IF call[q].consent = 0 THEN consents
                           ELSE [consents EXCEPT ![call[q].consent].addr = call[q].addr]
            /\ codes' \in [Tables -> Seq(CodeRow)]
            /\ \A u \in Tables : u # t => codes'[u] = codes[u]
            /\ Len(codes'[t]) = Len(codes[t]) + 1 /\ Len(codes[t]) \in Nat
            /\ \A i \in 1 .. Len(codes[t]) : codes'[t][i] = codes[t][i]
            /\ codes'[t][Len(codes[t]) + 1] =
                 [addr |-> call[q].addr, at |-> clock, tries |-> 0, used |-> FALSE, by |-> q]
            /\ UNCHANGED <<plan, clock, flow, leads, tokens, pref, pending, sent, picks>>
<1> DEFINE t == call[q].table
           c == call[q].chat
           row == [addr |-> call[q].addr, at |-> clock, tries |-> 0, used |-> FALSE, by |-> q]
           seens == IF t \in Mail THEN {"none"}
                    ELSE {pref[c]} \cup (IF plan.failures THEN {"sms"} ELSE {})
           r(seen) == [call[q] EXCEPT !.pc = "send", !.n = Len(codes[t]) + 1, !.seen = seen,
                                      !.picked = picks[c]]
<1>0. /\ call \in [Calls -> Local] /\ call[q] \in Local /\ codes \in [Tables -> Seq(CodeRow)]
      /\ clock \in Nat /\ picks \in [Chats -> Nat] /\ pref \in [Chats -> Channels]
  BY DEF Types
<1>1. t \in Tables /\ c \in Chats /\ codes[t] \in Seq(CodeRow) /\ Len(codes[t]) \in Nat /\ picks[c] \in Nat
      /\ pref[c] \in Channels
 <2>1. t \in Tables /\ c \in Chats BY <1>0 DEF Local
 <2> QED BY <1>0, <2>1
<1>2. PICK seen \in seens : Moves(q, "issue", r(seen)) BY DEF Issue
<1>3. seen \in Channels BY <1>1 DEF Channels
<1>4. r(seen) \in Local
 <2> DEFINE half == [call[q] EXCEPT !.pc = "send", !.n = Len(codes[t]) + 1]
 <2>1. half \in Local
  <3>1. Len(codes[t]) + 1 \in Nat BY <1>1
  <3> HIDE DEF t
  <3> QED BY <1>0, <3>1 DEF Local, Pcs
 <2>2. r(seen) = [half EXCEPT !.seen = seen, !.picked = picks[c]] OBVIOUS
 <2>3. picks[c] \in Nat BY <1>1
 <2> HIDE DEF half, c, r
 <2> QED BY <1>3, <2>1, <2>2, <2>3 DEF Local
<1>5. Becomes(q, r(seen)) /\ call[q].pc = "issue" BY <1>0, <1>2, <1>4, MovesBecomes
<1>6. /\ Others(q) /\ Kept(q) /\ call'[q].pc = "send"
      /\ call'[q].n = Len(codes[t]) + 1 /\ call'[q].consent = call[q].consent
      /\ call'[q].picked = picks[c] /\ call'[q].tried = call[q].tried
      /\ call'[q].noted = call[q].noted /\ call'[q].seen = seen
  BY <1>0, <1>5 DEF Others, Kept, Becomes, Local
<1>7. row \in CodeRow
 <2>1. call[q].addr \in Addrs BY <1>5 DEF Begun
 <2> QED BY <1>0, <2>1 DEF CodeRow
<1>8. codes' = [codes EXCEPT ![t] = Append(@, row)] BY DEF Issue
<1>9. /\ codes' \in [Tables -> Seq(CodeRow)]
      /\ \A u \in Tables : u # t => codes'[u] = codes[u]
      /\ Len(codes'[t]) = Len(codes[t]) + 1
      /\ \A i \in 1 .. Len(codes[t]) : codes'[t][i] = codes[t][i]
      /\ codes'[t][Len(codes[t]) + 1] = row
 <2> HIDE DEF row, t
 <2> QED BY <1>0, <1>1, <1>7, <1>8, CodeAdded
<1>10. /\ consents' = IF call[q].consent = 0 THEN consents
                      ELSE [consents EXCEPT ![call[q].consent].addr = call[q].addr]
       /\ UNCHANGED <<plan, clock, flow, leads, tokens, pref, pending, sent, picks>>
  BY DEF Issue, keys
<1> QED BY <1>1, <1>2, <1>5, <1>6, <1>9, <1>10

\* The channel a message goes out by.
SentBy(q) == IF call[q].table \in Mail THEN "mail"
             ELSE IF call[q].seen = "whatsapp" THEN "whatsapp" ELSE "sms"

\* A message a provider confirms is on its way.
LEMMA DeliveredIsOut == \A d \in Deliveries : d.ok \in BOOLEAN /\ d.out \in BOOLEAN /\ (d.ok => d.out)
  BY DEF Deliveries, Attempt

\* What Send changes: the channel's mark, what went out, the callback's key.
LEMMA SendEffect ==
  ASSUME Types, NEW q \in Calls, Send(q)
  PROVE  LET c == call[q].chat
             mark == [pref EXCEPT ![c] = Marked(call[q].seen, pref[c])]
             more == [picks EXCEPT ![c] = picks[c] + 1]
         IN /\ call'[q].pc \in {"flow", "done"} /\ Proceeds(q, "send", call'[q].pc)
            /\ \/ sent' = sent /\ call'[q].pc = "done"
               \/ sent' = [sent EXCEPT ![q] = SentBy(q)]
            /\ SentBy(q) = "whatsapp" =>
                 \/ pref' = mark /\ picks' = picks
                 \/ pref' = pref /\ picks' = more /\ plan.failures
            /\ SentBy(q) # "whatsapp" => picks' = picks /\ pref' \in {pref, mark}
            /\ pref' # pref => call[q].table \in Sms
            /\ pref' \in [Chats -> Channels] /\ picks' \in [Chats -> Nat]
            /\ sent' \in [Calls -> {"none", "sms", "whatsapp", "mail"}]
            /\ pending' \in {pending, pending \cup {q}}
            /\ pending' # pending => SentBy(q) = "whatsapp" /\ call'[q].pc = "flow"
            /\ UNCHANGED <<plan, clock, codes, consents, flow, leads, tokens>>
<1> DEFINE c == call[q].chat
           mark == [pref EXCEPT ![c] = Marked(call[q].seen, pref[c])]
           more == [picks EXCEPT ![c] = picks[c] + 1]
           channel == SentBy(q)
<1>0. /\ call \in [Calls -> Local] /\ call[q] \in Local /\ pref \in [Chats -> Channels]
      /\ picks \in [Chats -> Nat] /\ sent \in [Calls -> {"none", "sms", "whatsapp", "mail"}]
      /\ pending \subseteq Calls
  BY DEF Types
<1>1. c \in Chats /\ channel \in {"sms", "whatsapp", "mail"}
      /\ (channel = "whatsapp" => call[q].table \in Sms)
  BY <1>0 DEF Local, SentBy, Tables
<1>2. PICK d \in Deliveries, marked \in BOOLEAN, kept \in BOOLEAN :
        /\ (~marked \/ ~kept) => plan.failures
        /\ Goes(q, "send", IF d.ok THEN "flow" ELSE "done")
        /\ pref' = IF marked /\ call[q].table \in Sms THEN mark ELSE pref
        /\ picks' = IF ~marked /\ channel = "whatsapp" THEN more ELSE picks
        /\ sent' = [sent EXCEPT ![q] = IF d.out THEN channel ELSE @]
        /\ pending' = IF d.ok /\ channel = "whatsapp" /\ kept THEN pending \cup {q} ELSE pending
        /\ UNCHANGED <<plan, clock, codes, consents, flow, leads, tokens>>
  BY DEF Send, SentBy, rows
<1> HIDE DEF channel
<1>3. d.ok \in BOOLEAN /\ d.out \in BOOLEAN /\ (d.ok => d.out) BY DeliveredIsOut
<1> DEFINE to == IF d.ok THEN "flow" ELSE "done"
<1>4. Proceeds(q, "send", to) /\ call'[q].pc = to /\ to \in {"flow", "done"}
 <2>1. to \in Pcs BY PcFacts
 <2> HIDE DEF to
 <2>2. Proceeds(q, "send", to) BY <1>0, <1>2, <2>1, GoesProceeds DEF to
 <2> QED BY <2>2 DEF Proceeds, to
<1>5. \/ sent' = sent /\ ~d.ok
      \/ sent' = [sent EXCEPT ![q] = channel]
  BY <1>0, <1>2, <1>3
<1>6. mark \in [Chats -> Channels] /\ more \in [Chats -> Nat]
 <2>1. Marked(call[q].seen, pref[c]) \in Channels BY <1>0, <1>1 DEF Marked, Channels
 <2>2. picks[c] + 1 \in Nat BY <1>0, <1>1
 <2> QED BY <1>0, <1>1, <2>1, <2>2
<1> HIDE DEF mark, more
<1>7. /\ pref' \in [Chats -> Channels] /\ picks' \in [Chats -> Nat]
      /\ sent' \in [Calls -> {"none", "sms", "whatsapp", "mail"}]
  BY <1>0, <1>1, <1>2, <1>5, <1>6
<1>8. /\ channel = "whatsapp" =>
           \/ pref' = mark /\ picks' = picks
           \/ pref' = pref /\ picks' = more /\ plan.failures
      /\ channel # "whatsapp" => picks' = picks /\ pref' \in {pref, mark}
      /\ pref' # pref => call[q].table \in Sms
  BY <1>1, <1>2
<1>9. /\ pending' \in {pending, pending \cup {q}}
      /\ pending' # pending => channel = "whatsapp" /\ call'[q].pc = "flow"
  BY <1>2, <1>4
<1> QED BY <1>2, <1>4, <1>5, <1>7, <1>8, <1>9 DEF channel, mark, more

\* What NoteSent changes: the flow, and that the call has noted it.
LEMMA NoteSentEffect ==
  ASSUME Types, NEW q \in Calls, NoteSent(q)
  PROVE  LET t == call[q].table  c == call[q].chat
         IN /\ Others(q) /\ Kept(q) /\ call[q].pc = "flow" /\ call'[q].pc = "done"
            /\ call'[q].n = call[q].n /\ call'[q].consent = call[q].consent
            /\ call'[q].seen = call[q].seen /\ call'[q].picked = call[q].picked
            /\ call'[q].tried = call[q].tried /\ call'[q].noted = TRUE
            /\ flow' = CASE t = "leadSms" -> Transition(flow, c, "lead", "CONSENT_OK",
                              [state |-> "OTP_SENT", addr |-> "kept", proven |-> "kept"])
                        [] t = "bookSms" -> Transition(flow, c, "booking", "any",
                              [state |-> "OTP_SENT", addr |-> call[q].addr, proven |-> "kept"])
                        [] t = "bookMail" -> Transition(flow, c, "booking", "any",
                              [state |-> "OTP_SENT", addr |-> None, proven |-> "kept"])
                        [] OTHER -> flow
            /\ UNCHANGED <<plan, clock, codes, consents, leads, tokens, pref, pending, sent, picks>>
<1> DEFINE r == [call[q] EXCEPT !.pc = "done", !.noted = TRUE]
<1>0. call \in [Calls -> Local] /\ call[q] \in Local BY DEF Types
<1>1. r \in Local BY <1>0 DEF Local, Pcs, Over
<1>2. Moves(q, "flow", r) BY DEF NoteSent
<1>3. Becomes(q, r) /\ call[q].pc = "flow" BY <1>0, <1>1, <1>2, MovesBecomes
<1>4. /\ Others(q) /\ Kept(q) /\ call'[q].pc = "done"
      /\ call'[q].n = call[q].n /\ call'[q].consent = call[q].consent
      /\ call'[q].seen = call[q].seen /\ call'[q].picked = call[q].picked
      /\ call'[q].tried = call[q].tried /\ call'[q].noted = TRUE
  BY <1>0, <1>3 DEF Others, Kept, Becomes, Local
<1> QED BY <1>3, <1>4 DEF NoteSent, keys

\* What Callback changes: a call that claims begins.
LEMMA CallbackEffect ==
  ASSUME Types, NEW q \in Calls, NEW m \in Calls, Callback(q, m)
  PROVE  /\ Begins(q, call[m].addr, "claim") /\ call'[q].of = m /\ call'[q].typed = 0 /\ call'[q].n = 0
         /\ ~call'[q].smsOk /\ ~call'[q].booked /\ call'[q].consent = 0 /\ m \in pending
         /\ call[q].op = "rescue" /\ call[q].table = call[m].table /\ call[q].chat = call[m].chat
         /\ UNCHANGED <<plan, clock, codes, consents, flow, leads, tokens, pref, pending, sent, picks>>
<1> DEFINE r == [Idle("rescue", call[m].table, call[m].chat) EXCEPT
                   !.pc = "claim", !.of = m, !.addr = call[m].addr]
<1>0. call \in [Calls -> Local] /\ call[m] \in Local BY DEF Types
<1>1. call[m].table \in Tables /\ call[m].chat \in Chats /\ call[m].addr \in Addrs \cup {None} BY <1>0 DEF Local
<1>2. /\ r \in Local /\ r.op = "rescue" /\ r.table = call[m].table /\ r.chat = call[m].chat
      /\ r.addr = call[m].addr /\ r.pc = "claim" /\ r.of = m /\ r.typed = 0 /\ r.n = 0
      /\ ~r.smsOk /\ ~r.booked /\ r.consent = 0 /\ r.seen = "none" /\ r.picked = 0 /\ ~r.tried /\ ~r.noted
  BY <1>1 DEF Idle, Local, Pcs, Channels, Ops
<1>3. Starts(q, r) /\ m \in pending BY DEF Callback
<1> HIDE DEF r
<1>4. /\ Becomes(q, [r EXCEPT !.since = Ended]) /\ call[q].pc = "new"
      /\ call[q].op = r.op /\ call[q].table = r.table /\ call[q].chat = r.chat
  BY <1>0, <1>2, <1>3, StartsBecomes
<1>5. /\ Begins(q, call[m].addr, "claim") /\ call'[q].of = m /\ call'[q].typed = 0 /\ call'[q].n = 0
      /\ ~call'[q].smsOk /\ ~call'[q].booked /\ call'[q].consent = 0
  BY <1>2, <1>4 DEF Becomes, Begins, Others, Local
<1> QED BY <1>2, <1>3, <1>4, <1>5 DEF Callback, rows, keys

\* A verification begins with the code n, at step `to`.
Looks(q, t, c, a, typed, n, to) ==
  /\ Begins(q, a, to) /\ call'[q].of = None /\ call'[q].typed = typed /\ call'[q].n = n
  /\ ~call'[q].smsOk /\ ~call'[q].booked /\ call'[q].consent = 0
  /\ call[q].op = "verify" /\ call[q].table = t /\ call[q].chat = c

\* A verification that begins, in terms of Looks.
LEMMA VerifiesLooks ==
  ASSUME call \in [Calls -> Local], NEW q \in Calls, NEW t \in Tables, NEW c \in Chats, NEW a \in Addrs,
         NEW typed \in Nat, NEW n \in Nat, NEW to \in Pcs, Starts(q, Verifies(t, c, a, typed, n, to))
  PROVE  Looks(q, t, c, a, typed, n, to)
<1> DEFINE r == Verifies(t, c, a, typed, n, to)
<1>1. /\ r \in Local /\ r.op = "verify" /\ r.table = t /\ r.chat = c /\ r.addr = a /\ r.pc = to
      /\ r.of = None /\ r.typed = typed /\ r.n = n /\ ~r.smsOk /\ ~r.booked /\ r.consent = 0
      /\ r.seen = "none" /\ r.picked = 0 /\ ~r.tried /\ ~r.noted
  BY DEF Verifies, Idle, Local, Channels, Ops
<1> HIDE DEF r
<1>2. /\ Becomes(q, [r EXCEPT !.since = Ended]) /\ call[q].pc = "new"
      /\ call[q].op = r.op /\ call[q].table = r.table /\ call[q].chat = r.chat
  BY <1>1, StartsBecomes DEF r
<1> QED BY <1>1, <1>2 DEF Becomes, Looks, Begins, Others, Local

\* What LookUp reads and changes: a row to try is open, the caller's and below the limit.
LEMMA LookUpEffect ==
  ASSUME Types, NEW q \in Calls, NEW t \in Tables, NEW c \in Chats, NEW a \in Addrs,
         NEW typed \in {0} \cup Received(t), LookUp(q, t, c, a, typed)
  PROVE  LET n == LatestOf(Unused(t, a))
         IN /\ t \in Lead /\ typed \in Nat /\ typed <= Len(codes[t]) /\ Len(codes[t]) \in Nat
            /\ call'[q].pc \in {"try", "done"} /\ Looks(q, t, c, a, typed, n, call'[q].pc)
            /\ call'[q].pc = "try" =>
                 n \in 1 .. Len(codes[t]) /\ codes[t][n].addr = a /\ ~codes[t][n].used
                 /\ codes[t][n].tries < MaxTries
            /\ UNCHANGED <<plan, clock, codes, consents, flow, leads, tokens, pref, pending, sent, picks>>
<1> DEFINE n == LatestOf(Unused(t, a))
           open == n # 0 /\ Age(t, n) <= Ttl[t] /\ codes[t][n].tries < MaxTries
<1>0. call \in [Calls -> Local] /\ codes[t] \in Seq(CodeRow) BY DEF Types
<1>1. Len(codes[t]) \in Nat /\ DOMAIN codes[t] = 1 .. Len(codes[t]) BY <1>0
<1>2. typed \in Nat /\ typed <= Len(codes[t]) BY <1>1 DEF Received
<1>3. Unused(t, a) \subseteq 1 .. Len(codes[t]) BY <1>1 DEF Unused
<1>4. n \in Nat /\ (n # 0 => n \in Unused(t, a))
 <2>1. CASE Unused(t, a) = {} BY <2>1 DEF LatestOf
 <2>2. CASE Unused(t, a) # {} BY <1>1, <1>3, <2>2, LatestIsLargest
 <2> QED BY <2>1, <2>2
<1>5. /\ t \in Lead /\ Starts(q, Verifies(t, c, a, typed, n, IF open THEN "try" ELSE "done"))
      /\ UNCHANGED <<plan, clock, codes, consents, flow, leads, tokens, pref, pending, sent, picks>>
  BY DEF LookUp, rows, keys
<1> DEFINE to == IF open THEN "try" ELSE "done"
<1>6. to \in Pcs BY DEF Pcs, Over
<1>7. (to = "try") => open OBVIOUS
<1> HIDE DEF n, to, open
<1>8. Looks(q, t, c, a, typed, n, to) BY <1>0, <1>2, <1>4, <1>5, <1>6, VerifiesLooks DEF to
<1>9. call'[q].pc = to /\ to \in {"try", "done"} BY <1>8 DEF Looks, Begins, to
<1>10. open => n \in Unused(t, a) /\ codes[t][n].tries < MaxTries BY <1>4 DEF open
<1>11. n \in Unused(t, a) => n \in 1 .. Len(codes[t]) /\ codes[t][n].addr = a /\ ~codes[t][n].used BY <1>1 DEF Unused
<1> QED BY <1>1, <1>2, <1>5, <1>7, <1>8, <1>9, <1>10, <1>11 DEF n

\* What LookUpBooking reads and changes: the row typed is open and the caller's.
LEMMA LookUpBookingEffect ==
  ASSUME Types, NEW q \in Calls, NEW t \in Tables, NEW c \in Chats, NEW a \in Addrs,
         NEW typed \in {0} \cup Received(t), LookUpBooking(q, t, c, a, typed)
  PROVE  /\ t \notin Lead /\ typed \in Nat /\ typed <= Len(codes[t]) /\ Len(codes[t]) \in Nat
         /\ call'[q].pc \in {"use", "done"} /\ Looks(q, t, c, a, typed, typed, call'[q].pc)
         /\ call'[q].pc = "use" =>
              typed \in 1 .. Len(codes[t]) /\ codes[t][typed].addr = a /\ ~codes[t][typed].used
         /\ UNCHANGED <<plan, clock, codes, consents, flow, leads, tokens, pref, pending, sent, picks>>
<1> DEFINE open == typed \in Unused(t, a) /\ Age(t, typed) < Ttl[t]
           to == IF open THEN "use" ELSE "done"
<1>0. call \in [Calls -> Local] /\ codes[t] \in Seq(CodeRow) BY DEF Types
<1>1. Len(codes[t]) \in Nat /\ DOMAIN codes[t] = 1 .. Len(codes[t]) BY <1>0
<1>2. typed \in Nat /\ typed <= Len(codes[t]) BY <1>1 DEF Received
<1>5. /\ t \notin Lead /\ Starts(q, Verifies(t, c, a, typed, typed, to))
      /\ UNCHANGED <<plan, clock, codes, consents, flow, leads, tokens, pref, pending, sent, picks>>
  BY DEF LookUpBooking, rows, keys
<1>6. to \in Pcs /\ to \in {"use", "done"} /\ (to = "use" => open) BY DEF Pcs, Over
<1>7. open => typed \in 1 .. Len(codes[t]) /\ codes[t][typed].addr = a /\ ~codes[t][typed].used BY <1>1 DEF Unused
<1> HIDE DEF to, open
<1>8. Looks(q, t, c, a, typed, typed, to) BY <1>0, <1>2, <1>5, <1>6, VerifiesLooks
<1>9. call'[q].pc = to BY <1>8 DEF Looks, Begins
<1> QED BY <1>1, <1>2, <1>5, <1>6, <1>7, <1>8, <1>9

\* A call holds the code it verifies, and a consent that exists.
Verifying(q) ==
  call[q].pc \in {"try", "use", "grant"} =>
    /\ call[q].op = "verify" /\ call[q].n \in 1 .. Len(codes[call[q].table])
    /\ codes[call[q].table][call[q].n].addr = call[q].addr
Holding == \A q \in Calls : Verifying(q) /\ call[q].consent <= Len(consents)

\* One code changes to r, the others stay.
CodeBecomes(t, n, r) ==
  /\ codes' \in [Tables -> Seq(CodeRow)]
  /\ \A u \in Tables : u # t => codes'[u] = codes[u]
  /\ Len(codes'[t]) = Len(codes[t]) /\ codes'[t][n] = r
  /\ \A i \in 1 .. Len(codes[t]) : i # n => codes'[t][i] = codes[t][i]

\* Rewriting one row of one table in terms of CodeBecomes.
LEMMA CodeChanged ==
  ASSUME codes \in [Tables -> Seq(CodeRow)], NEW t \in Tables, NEW n \in 1 .. Len(codes[t]),
         NEW r \in CodeRow, codes' = [codes EXCEPT ![t] = [codes[t] EXCEPT ![n] = r]]
  PROVE  CodeBecomes(t, n, r)
<1>1. codes[t] \in Seq(CodeRow) /\ codes'[t] = [codes[t] EXCEPT ![n] = r] OBVIOUS
<1>2. /\ codes'[t] \in Seq(CodeRow) /\ Len(codes'[t]) = Len(codes[t])
      /\ \A i \in 1 .. Len(codes[t]) : codes'[t][i] = IF i = n THEN r ELSE codes[t][i]
  BY <1>1, ExceptSeq
<1>3. \A u \in Tables : u # t => codes'[u] = codes[u] /\ codes[u] \in Seq(CodeRow) BY Zenon
<1>4. codes' = [u \in Tables |-> codes'[u]] BY Zenon
<1>5. \A u \in Tables : codes'[u] \in Seq(CodeRow) BY <1>2, <1>3, Zenon
<1>6. codes' \in [Tables -> Seq(CodeRow)] BY <1>4, <1>5, ZenonT(40)
<1>7. codes'[t][n] = r /\ \A i \in 1 .. Len(codes[t]) : i # n => codes'[t][i] = codes[t][i] BY <1>2, SMTT(30)
<1> QED BY <1>2, <1>3, <1>6, <1>7, Zenon DEF CodeBecomes

\* What Try changes: one attempt counted, on to use only with the right code.
LEMMA TryEffect ==
  ASSUME Types, Holding, NEW q \in Calls, Try(q)
  PROVE  LET t == call[q].table  n == call[q].n
         IN /\ Others(q) /\ Kept(q) /\ call[q].pc = "try" /\ call'[q].pc \in {"use", "done"}
            /\ call'[q].n = n /\ call'[q].consent = call[q].consent
            /\ call'[q].seen = call[q].seen /\ call'[q].picked = call[q].picked
            /\ call'[q].tried = TRUE /\ call'[q].noted = call[q].noted
            /\ call'[q].pc = "use" => call[q].typed = n
            /\ CodeBecomes(t, n, [codes[t][n] EXCEPT !.tries = @ + 1])
            /\ UNCHANGED <<plan, clock, consents, flow, leads, tokens, pref, pending, sent, picks>>
<1> DEFINE t == call[q].table
           n == call[q].n
           to == IF call[q].typed = n THEN "use" ELSE "done"
           r == [call[q] EXCEPT !.tried = TRUE, !.pc = to]
           row == [codes[t][n] EXCEPT !.tries = @ + 1]
<1>0. call \in [Calls -> Local] /\ call[q] \in Local /\ codes \in [Tables -> Seq(CodeRow)] BY DEF Types
<1>1. Moves(q, "try", r) /\ call[q].pc = "try" BY DEF Try, Moves
<1>2. t \in Tables /\ n \in 1 .. Len(codes[t]) BY <1>0, <1>1 DEF Holding, Verifying, Local
<1>3. to \in Pcs /\ to \in {"use", "done"} /\ (to = "use" => call[q].typed = n) BY PcFacts
<1> HIDE DEF to
<1>4. r \in Local BY <1>0, <1>3 DEF Local
<1>5. Becomes(q, r) BY <1>0, <1>1, <1>4, MovesBecomes
<1>6. /\ Others(q) /\ Kept(q) /\ call'[q].pc = to /\ call'[q].n = n /\ call'[q].consent = call[q].consent
      /\ call'[q].seen = call[q].seen /\ call'[q].picked = call[q].picked
      /\ call'[q].tried = TRUE /\ call'[q].noted = call[q].noted
  BY <1>0, <1>5 DEF Others, Kept, Becomes, Local
<1>7. row \in CodeRow
 <2>1. codes[t][n] \in CodeRow BY <1>0, <1>2
 <2> QED BY <2>1 DEF CodeRow
<1>8. codes' = [codes EXCEPT ![t] = [codes[t] EXCEPT ![n] = row]]
 <2>1. codes' = [codes EXCEPT ![t][n].tries = @ + 1] BY DEF Try
 <2> QED BY <2>1
<1>9. CodeBecomes(t, n, row)
 <2> HIDE DEF row, t, n
 <2> QED BY <1>0, <1>2, <1>7, <1>8, CodeChanged
<1> QED BY <1>1, <1>3, <1>6, <1>9 DEF Try, keys

\* What MarkUsed changes: one row is used.
LEMMA MarkUsedEffect ==
  ASSUME Types, Holding, NEW q \in Calls, MarkUsed(q)
  PROVE  LET t == call[q].table  n == call[q].n
         IN /\ Proceeds(q, "use", "grant")
            /\ CodeBecomes(t, n, [codes[t][n] EXCEPT !.used = TRUE])
            /\ UNCHANGED <<plan, clock, consents, flow, leads, tokens, pref, pending, sent, picks>>
<1> DEFINE t == call[q].table
           n == call[q].n
           row == [codes[t][n] EXCEPT !.used = TRUE]
<1>0. call \in [Calls -> Local] /\ call[q] \in Local /\ codes \in [Tables -> Seq(CodeRow)] BY DEF Types
<1>1. Proceeds(q, "use", "grant") BY <1>0, PcFacts, GoesProceeds DEF MarkUsed
<1>2. t \in Tables /\ n \in 1 .. Len(codes[t]) BY <1>0, <1>1 DEF Holding, Verifying, Local, Proceeds
<1>7. row \in CodeRow
 <2>1. codes[t][n] \in CodeRow BY <1>0, <1>2
 <2> QED BY <2>1 DEF CodeRow
<1>8. codes' = [codes EXCEPT ![t] = [codes[t] EXCEPT ![n] = row]] BY DEF MarkUsed
<1>9. CodeBecomes(t, n, row)
 <2> HIDE DEF row, t, n
 <2> QED BY <1>0, <1>2, <1>7, <1>8, CodeChanged
<1> QED BY <1>1, <1>9 DEF MarkUsed, keys

\* One consent changes to r, the others stay.
ConsentBecomes(k, r) ==
  /\ consents' \in Seq(ConsentRecord) /\ Len(consents') = Len(consents) /\ consents'[k] = r
  /\ \A i \in 1 .. Len(consents) : i # k => consents'[i] = consents[i]

\* Rewriting one consent in terms of ConsentBecomes.
LEMMA ConsentChanged ==
  ASSUME consents \in Seq(ConsentRecord), NEW k \in 1 .. Len(consents), NEW r \in ConsentRecord,
         consents' = [consents EXCEPT ![k] = r]
  PROVE  ConsentBecomes(k, r)
  BY ExceptSeq DEF ConsentBecomes

\* The consent a verified code marks: the newest unverified one with the phone.
Marks(q) ==
  IF call[q].table = "leadSms"
  THEN LatestOf({j \in DOMAIN consents : consents[j].addr = call[q].addr /\ ~consents[j].verified})
  ELSE 0

\* Grant marks the newest unverified consent with the phone, and one if there is one.
LEMMA MarksFacts ==
  ASSUME Types, NEW q \in Calls
  PROVE  /\ Marks(q) \in 0 .. Len(consents) /\ Len(consents) \in Nat
         /\ Marks(q) # 0 => consents[Marks(q)].addr = call[q].addr /\ call[q].table = "leadSms"
                            /\ ~consents[Marks(q)].verified
         /\ call[q].table = "leadSms" =>
              \A j \in 1 .. Len(consents) :
                consents[j].addr = call[q].addr /\ ~consents[j].verified =>
                  Marks(q) # 0 /\ j <= Marks(q)
<1> DEFINE S == {j \in DOMAIN consents : consents[j].addr = call[q].addr /\ ~consents[j].verified}
<1>1. Len(consents) \in Nat /\ DOMAIN consents = 1 .. Len(consents) BY DEF Types
<1>2. S \subseteq 1 .. Len(consents) BY <1>1
<1>3. S # {} => LatestOf(S) \in S /\ \A j \in S : j <= LatestOf(S) BY <1>1, <1>2, LatestIsLargest
<1>4. S = {} => LatestOf(S) = 0 BY DEF LatestOf
<1> QED BY <1>1, <1>2, <1>3, <1>4 DEF Marks

\* What Grant changes: a token, a consent's mark, a flow.
LEMMA GrantEffect ==
  ASSUME Types, Begun, Holding, NEW q \in Calls, Grant(q)
  PROVE  LET t == call[q].table  k == Marks(q)
             verified == [state |-> "OTP_VERIFIED", addr |-> "kept",
                          proven |-> IF t \in Sms THEN call[q].addr ELSE "kept"]
         IN /\ Proceeds(q, "grant", "done") /\ call[q].addr \in Addrs
            /\ k = 0 => consents' = consents
            /\ k # 0 => ConsentBecomes(k, [consents[k] EXCEPT !.verified = TRUE])
            /\ flow' = CASE t \notin Lead -> Transition(flow, call[q].chat, "booking", "OTP_SENT",
                                                [verified EXCEPT !.addr = None])
                        [] k # 0 -> Transition(flow, consents[k].chat, "lead", "OTP_SENT", verified)
                        [] OTHER -> flow
            /\ tokens' = tokens \cup
                 {[table |-> t, addr |-> call[q].addr, n |-> call[q].n, at |-> clock, by |-> q]}
            /\ tokens' \subseteq Token /\ UNCHANGED <<plan, clock, codes, leads, pref, pending, sent, picks>>
<1> DEFINE t == call[q].table
           k == Marks(q)
<1>0. call \in [Calls -> Local] /\ call[q] \in Local /\ consents \in Seq(ConsentRecord)
      /\ clock \in Nat /\ tokens \subseteq Token
  BY DEF Types
<1>1. Proceeds(q, "grant", "done") BY <1>0, PcFacts, GoesProceeds DEF Grant
<1>2. call[q].addr \in Addrs BY <1>1 DEF Begun, Proceeds
<1>3. /\ k = 0 => consents' = consents
      /\ k # 0 => consents' = [consents EXCEPT ![k] = [consents[k] EXCEPT !.verified = TRUE]]
  BY DEF Grant, Marks
<1>4. k # 0 => [consents[k] EXCEPT !.verified = TRUE] \in ConsentRecord /\ k \in 1 .. Len(consents)
 <2>1. k # 0 => k \in 1 .. Len(consents) BY MarksFacts
 <2>2. k # 0 => consents[k] \in ConsentRecord BY <1>0, <2>1
 <2> QED BY <2>1, <2>2 DEF ConsentRecord
<1>5. k # 0 => ConsentBecomes(k, [consents[k] EXCEPT !.verified = TRUE])
 <2> HIDE DEF k
 <2> QED BY <1>0, <1>3, <1>4, ConsentChanged
<1>6. [table |-> t, addr |-> call[q].addr, n |-> call[q].n, at |-> clock, by |-> q] \in Token
  BY <1>0, <1>2 DEF Token, Local
<1> QED BY <1>0, <1>1, <1>2, <1>3, <1>5, <1>6 DEF Grant, Marks, keys

\* What a submit leaves behind.
SubmitMade(q, c, a) ==
  /\ Begins(q, a, call'[q].pc) /\ call'[q].pc \in {"deliver", "done"}
  /\ call[q].op = "submit" /\ call[q].chat = c /\ call'[q].of = None /\ call'[q].typed = 0 /\ call'[q].n = 0
  /\ consents' \in Seq(ConsentRecord) /\ Len(consents) <= Len(consents')
  /\ \A i \in 1 .. Len(consents) : consents'[i] = consents[i]
  /\ \A i \in 1 .. Len(consents') : i > Len(consents) =>
       consents'[i] = ConsentRow(c) /\ consents'[i].chat = c /\ flow' = ConsentOk(flow, c)
  /\ flow' \in {flow, ConsentOk(flow, c)} /\ flow' \in FlowMap
  /\ flow' = flow \/ Len(consents') > Len(consents)
  /\ call'[q].consent \in 0 .. Len(consents')
  /\ call'[q].pc = "deliver" /\ bot.gate /\ ~call'[q].booked =>
       call'[q].consent # 0 /\ consents'[call'[q].consent].chat = c
  /\ call'[q].smsOk /\ ~call'[q].booked => Holds("leadSms", a)
  /\ leads' = IF call'[q].pc = "deliver" THEN leads
              ELSE [leads EXCEPT ![q] = [NoLead EXCEPT !.status = "rejected", !.chat = c]]
  /\ leads' \in [Calls -> LeadRow] /\ UNCHANGED <<plan, clock, codes, tokens, pref, pending, sent, picks>>

\* What Submit changes, in terms of SubmitMade.
LEMMA SubmitEffect ==
  ASSUME Types, NEW q \in Calls, NEW c \in Chats, NEW a \in Addrs,
         NEW booked \in BOOLEAN, NEW mailOk \in BOOLEAN, NEW smsOk \in BOOLEAN,
         Submit(q, c, a, booked, mailOk, smsOk)
  PROVE  SubmitMade(q, c, a)
<1> DEFINE S == {i \in DOMAIN consents : consents[i].chat = c}
           V == {i \in DOMAIN consents : consents[i].chat = c /\ consents[i].verified}
           latest == LatestOf(S)
           gated == bot.gate /\ ~booked
           chat == IF gated THEN c ELSE None
           used == IF gated THEN ConsentUsed(chat, latest) ELSE 0
           proofs == booked \/ ((bot.mail => mailOk) /\ (bot.sms => smsOk))
           goes == (gated => used # 0) /\ proofs
           own == IF bot.sms /\ ~booked THEN LatestOf(V) ELSE 0
           shown == booked \/ (bot.sms /\ smsOk)
           mine == IF own # 0 THEN own ELSE used
           to == IF goes THEN "deliver" ELSE "done"
           r == [Idle("submit", call[q].table, c) EXCEPT
                   !.addr = a, !.mailOk = mailOk, !.smsOk = shown, !.booked = booked,
                   !.consent = mine, !.pc = to]
<1>0. /\ call \in [Calls -> Local] /\ call[q] \in Local /\ consents \in Seq(ConsentRecord)
      /\ clock \in Nat /\ flow \in FlowMap /\ leads \in [Calls -> LeadRow] /\ plan \in Plans
      /\ Len(consents) \in Nat /\ DOMAIN consents = 1 .. Len(consents) /\ None \notin Chats
  BY SettingsAssumption DEF Types
<1>1. /\ smsOk => Holds("leadSms", a)
      /\ consents' = ConsentsAfter(chat, latest) /\ flow' = FlowAfter(chat, latest) /\ Starts(q, r)
      /\ leads' = IF goes THEN leads
                  ELSE [leads EXCEPT ![q] = [NoLead EXCEPT !.status = "rejected", !.chat = c]]
      /\ UNCHANGED <<plan, clock, codes, tokens, pref, pending, sent, picks>>
  BY DEF Submit, keys
<1>2. latest \in 0 .. Len(consents) /\ (latest # 0 => consents[latest].chat = c)
 <2>1. S \subseteq 1 .. Len(consents) BY <1>0
 <2>2. S # {} => latest \in S BY <1>0, <2>1, LatestIsLargest
 <2>3. S = {} => latest = 0 BY DEF LatestOf
 <2> QED BY <1>0, <2>1, <2>2, <2>3
<1>3. own \in 0 .. Len(consents) /\ (own # 0 => consents[own].chat = c)
 <2>1. V \subseteq 1 .. Len(consents) BY <1>0
 <2>2. V # {} => LatestOf(V) \in V BY <1>0, <2>1, LatestIsLargest
 <2>3. V = {} => LatestOf(V) = 0 BY DEF LatestOf
 <2> QED BY <1>0, <2>1, <2>2, <2>3
<1>4. bot.gate \in BOOLEAN /\ bot.sms \in BOOLEAN /\ bot.mail \in BOOLEAN BY <1>0, PlanTypes
<1>5. gated \in BOOLEAN /\ goes \in BOOLEAN /\ shown \in BOOLEAN /\ (shown /\ ~booked => smsOk) BY <1>4
<1> HIDE DEF latest, own, proofs, shown, goes
<1>6. /\ consents' \in Seq(ConsentRecord) /\ Len(consents) <= Len(consents')
      /\ \A i \in 1 .. Len(consents) : consents'[i] = consents[i]
      /\ \A i \in 1 .. Len(consents') : i > Len(consents) =>
           consents'[i] = ConsentRow(c) /\ flow' = ConsentOk(flow, c)
      /\ flow' \in {flow, ConsentOk(flow, c)} /\ (flow' = flow \/ Len(consents') > Len(consents))
      /\ used \in 0 .. Len(consents') /\ (used # 0 => consents'[used].chat = c)
 <2>1. CASE gated
  <3>1. /\ consents' = ConsentsAfter(c, latest) /\ flow' = FlowAfter(c, latest)
        /\ used = ConsentUsed(c, latest)
    BY <1>1, <2>1
  <3> HIDE DEF used, gated, chat
  <3>2. /\ consents' \in Seq(ConsentRecord)
        /\ Len(consents') = Len(consents) + (IF OffWidgetRow(c, latest) THEN 1 ELSE 0)
        /\ \A i \in 1 .. Len(consents) : consents'[i] = consents[i]
        /\ OffWidgetRow(c, latest) => consents'[Len(consents) + 1] = ConsentRow(c)
        /\ used \in 0 .. Len(consents') /\ (used # 0 => consents'[used].chat = c)
    BY <1>2, <3>1, GateConsent
  <3>3. flow' = IF OffWidgetRow(c, latest) THEN ConsentOk(flow, c) ELSE flow BY <3>1 DEF FlowAfter
  <3> QED BY <1>0, <3>2, <3>3
 <2>2. CASE ~gated
  <3>1. ~OffWidgetRow(None, latest) BY SettingsAssumption DEF OffWidgetRow
  <3>2. consents' = consents /\ flow' = flow /\ used = 0 BY <1>1, <2>2, <3>1 DEF ConsentsAfter, FlowAfter
  <3> QED BY <1>0, <3>2
 <2> QED BY <2>1, <2>2
<1>7. flow' \in FlowMap BY <1>0, <1>6, ConsentOkWrites
<1>8. mine \in 0 .. Len(consents') /\ mine \in Nat /\ (mine # 0 => consents'[mine].chat = c)
      /\ (used # 0 => mine # 0)
  BY <1>0, <1>3, <1>6
<1>9. to \in {"deliver", "done"} /\ (to = "deliver" <=> goes) OBVIOUS
<1> HIDE DEF mine, to
<1>10. /\ r \in Local /\ r.op = "submit" /\ r.chat = c /\ r.table = call[q].table
       /\ r.addr = a /\ r.smsOk = shown /\ r.booked = booked /\ r.consent = mine /\ r.pc = to
       /\ r.of = None /\ r.typed = 0 /\ r.n = 0 /\ r.seen = "none" /\ r.picked = 0 /\ ~r.tried /\ ~r.noted
 <2> DEFINE half == [Idle("submit", call[q].table, c) EXCEPT
                       !.addr = a, !.mailOk = mailOk, !.smsOk = shown]
 <2>1. call[q].table \in Tables /\ to \in Pcs BY <1>0, <1>9, PcFacts DEF Local
 <2>2. /\ half \in Local /\ half.op = "submit" /\ half.chat = c /\ half.table = call[q].table
       /\ half.addr = a /\ half.smsOk = shown /\ half.of = None /\ half.typed = 0 /\ half.n = 0
       /\ half.seen = "none" /\ half.picked = 0 /\ ~half.tried /\ ~half.noted
   BY <1>5, <2>1 DEF Idle, Local, Pcs, Channels, Ops
 <2>3. r = [half EXCEPT !.booked = booked, !.consent = mine, !.pc = to] OBVIOUS
 <2> HIDE DEF half, r
 <2> QED BY <1>8, <2>1, <2>2, <2>3 DEF Local
<1> HIDE DEF r
<1>11. Becomes(q, [r EXCEPT !.since = Ended]) /\ call[q].pc = "new"
       /\ call[q].op = r.op /\ call[q].table = r.table /\ call[q].chat = r.chat
  BY <1>0, <1>1, <1>10, StartsBecomes
<1>12. /\ Begins(q, a, to) /\ call'[q].pc = to /\ call'[q].consent = mine /\ call'[q].of = None
       /\ call'[q].typed = 0 /\ call'[q].n = 0 /\ call'[q].smsOk = shown /\ call'[q].booked = booked
  BY <1>10, <1>11 DEF Becomes, Begins, Others, Local
<1>13. leads' \in [Calls -> LeadRow]
 <2>1. [NoLead EXCEPT !.status = "rejected", !.chat = c] \in LeadRow BY DEF NoLead, LeadRow
 <2> QED BY <1>0, <1>1, <2>1
<1>14. goes /\ gated => used # 0 BY DEF goes
<1>15. ConsentRow(c).chat = c BY DEF ConsentRow
<1> QED BY <1>1, <1>5, <1>6, <1>7, <1>8, <1>9, <1>10, <1>11, <1>12, <1>13, <1>14, <1>15 DEF SubmitMade

\* What RecordLead changes: the lead's row, its consent, the flow.
LEMMA RecordLeadEffect ==
  ASSUME Types, Holding, NEW q \in Calls, RecordLead(q)
  PROVE  LET me == call[q]
             row == [status |-> me.pc, chat |-> me.chat, sms |-> me.smsOk,
                     booked |-> me.booked, consent |-> me.consent]
         IN /\ me.pc \in Statuses /\ Proceeds(q, me.pc, "done")
            /\ leads' = [leads EXCEPT ![q] = row] /\ row \in LeadRow
            /\ me.consent = 0 => consents' = consents
            /\ me.consent # 0 => me.consent \in 1 .. Len(consents)
                 /\ ConsentBecomes(me.consent, [consents[me.consent] EXCEPT !.lead = q])
            /\ flow' = IF me.pc = "nowhere" THEN flow
                       ELSE Transition(flow, me.chat, "lead", "any",
                              [state |-> IF me.pc = "failed" THEN "FAILED" ELSE "SUBMITTED",
                               addr |-> "kept", proven |-> "kept"])
            /\ UNCHANGED <<plan, clock, codes, tokens, pref, pending, sent, picks>>
<1> DEFINE k == call[q].consent
<1>0. call \in [Calls -> Local] /\ call[q] \in Local /\ consents \in Seq(ConsentRecord)
      /\ Len(consents) \in Nat
  BY DEF Types
<1>1. call[q].pc \in Statuses /\ Goes(q, call[q].pc, "done") BY DEF RecordLead
<1>2. Proceeds(q, call[q].pc, "done") BY <1>0, <1>1, PcFacts, GoesProceeds
<1>3. [status |-> call[q].pc, chat |-> call[q].chat, sms |-> call[q].smsOk,
       booked |-> call[q].booked, consent |-> call[q].consent] \in LeadRow
  BY <1>0, <1>1 DEF LeadRow, Local
<1>4. /\ k = 0 => consents' = consents
      /\ k # 0 => consents' = [consents EXCEPT ![k] = [consents[k] EXCEPT !.lead = q]]
  BY DEF RecordLead
<1>5. k # 0 => k \in 1 .. Len(consents)
 <2>1. k \in Nat BY <1>0 DEF Local
 <2> QED BY <1>0, <2>1 DEF Holding
<1>6. k # 0 => [consents[k] EXCEPT !.lead = q] \in ConsentRecord
 <2>1. k # 0 => consents[k] \in ConsentRecord BY <1>0, <1>5
 <2> QED BY <2>1 DEF ConsentRecord
<1>7. k # 0 => ConsentBecomes(k, [consents[k] EXCEPT !.lead = q])
 <2> HIDE DEF k
 <2> QED BY <1>0, <1>4, <1>5, <1>6, ConsentChanged
<1> QED BY <1>1, <1>2, <1>3, <1>4, <1>5, <1>7 DEF RecordLead, keys

\* What Deliver changes: the call's pc.
LEMMA DeliverEffect ==
  ASSUME Types, NEW q \in Calls, NEW status \in Statuses, Deliver(q, status)
  PROVE  /\ Proceeds(q, "deliver", status)
         /\ UNCHANGED <<plan, clock, codes, consents, flow, leads, tokens, pref, pending, sent, picks>>
<1>1. call \in [Calls -> Local] BY DEF Types
<1> QED BY <1>1, PcFacts, GoesProceeds DEF Deliver, rows, keys

\* What Die changes: the call's pc.
LEMMA DieEffect ==
  ASSUME Types, NEW q \in Calls, Die(q)
  PROVE  /\ Proceeds(q, call[q].pc, "dead") /\ call[q].pc \notin Over \cup {"new"}
         /\ UNCHANGED <<plan, clock, codes, consents, flow, leads, tokens, pref, pending, sent, picks>>
<1>1. call \in [Calls -> Local] BY DEF Types
<1> QED BY <1>1, PcFacts, GoesProceeds DEF Die, rows, keys

\* What RecordConsent changes: one more row, and the flow of its chat.
LEMMA RecordConsentEffect ==
  ASSUME Types, NEW c \in Chats \cup {None}, RecordConsent(c)
  PROVE  /\ consents' \in Seq(ConsentRecord) /\ Len(consents') = Len(consents) + 1
         /\ \A i \in 1 .. Len(consents) : consents'[i] = consents[i]
         /\ consents'[Len(consents) + 1] = ConsentRow(c) /\ ConsentRow(c).chat = c
         /\ flow' = ConsentOk(flow, c) /\ flow' \in FlowMap
         /\ UNCHANGED <<plan, clock, codes, leads, tokens, call, pref, pending, sent, picks>>
<1>1. consents \in Seq(ConsentRecord) /\ ConsentRow(c) \in ConsentRecord /\ ConsentRow(c).chat = c
  BY DEF Types, ConsentRow, ConsentRecord
<1>2. /\ consents' = Append(consents, ConsentRow(c)) /\ flow' = ConsentOk(flow, c)
      /\ UNCHANGED <<plan, clock, codes, leads, tokens, call, pref, pending, sent, picks>>
  BY DEF RecordConsent, keys
<1> QED BY <1>1, <1>2, ConsentAdded, ConsentOkWrites

\* What BindConsent changes: the chat of one row, and its flow.
LEMMA BindConsentEffect ==
  ASSUME Types, NEW i \in DOMAIN consents, NEW c \in Chats, BindConsent(i, c)
  PROVE  /\ i \in 1 .. Len(consents) /\ consents[i].chat = None
         /\ ConsentBecomes(i, [consents[i] EXCEPT !.chat = c])
         /\ flow' = ConsentOk(flow, c) /\ flow' \in FlowMap
         /\ UNCHANGED <<plan, clock, codes, leads, tokens, call, pref, pending, sent, picks>>
<1>1. consents \in Seq(ConsentRecord) /\ i \in 1 .. Len(consents) /\ consents[i] \in ConsentRecord BY DEF Types
<1>2. [consents[i] EXCEPT !.chat = c] \in ConsentRecord BY <1>1 DEF ConsentRecord
<1>3. /\ consents' = [consents EXCEPT ![i] = [consents[i] EXCEPT !.chat = c]]
      /\ flow' = ConsentOk(flow, c) /\ consents[i].chat = None
      /\ UNCHANGED <<plan, clock, codes, leads, tokens, call, pref, pending, sent, picks>>
  BY DEF BindConsent, keys
<1> QED BY <1>1, <1>2, <1>3, ConsentChanged, ConsentOkWrites

\* What SetOtpChannel changes: the choice and its history.
LEMMA SetOtpChannelEffect ==
  ASSUME Types, NEW c \in Chats, NEW ch, SetOtpChannel(c, ch)
  PROVE  /\ ch \in {"sms", "whatsapp"} /\ pref[c] # ch
         /\ pref' = [pref EXCEPT ![c] = ch] /\ pref' \in [Chats -> Channels]
         /\ picks' = [picks EXCEPT ![c] = IF ch = "whatsapp" THEN picks[c] + 1 ELSE picks[c]]
         /\ picks' \in [Chats -> Nat]
         /\ UNCHANGED <<plan, clock, codes, consents, flow, leads, tokens, pending, call, sent>>
<1>1. pref \in [Chats -> Channels] /\ picks \in [Chats -> Nat] BY DEF Types
<1>2. /\ ch \in {"sms", "whatsapp"} /\ pref[c] # ch /\ pref' = [pref EXCEPT ![c] = ch]
      /\ picks' = [picks EXCEPT ![c] = IF ch = "whatsapp" THEN picks[c] + 1 ELSE picks[c]]
      /\ UNCHANGED <<plan, clock, codes, consents, flow, leads, tokens, pending, call, sent>>
  BY DEF SetOtpChannel, rows
<1> QED BY <1>1, <1>2 DEF Channels

\* What Book changes: the state of a booking flow, not its proven phone.
LEMMA BookEffect ==
  ASSUME Types, NEW c \in Chats, Book(c)
  PROVE  /\ \E tk \in tokens : tk.table \notin Lead
         /\ flow' \in FlowMap
         /\ \A d \in Chats, j \in Kinds : d # c \/ j # "booking" => flow'[d][j] = flow[d][j]
         /\ flow'[c]["booking"].state \in {"BOOKED", flow[c]["booking"].state}
         /\ flow'[c]["booking"].proven = flow[c]["booking"].proven
         /\ flow'[c]["booking"].at \in {clock, flow[c]["booking"].at}
         /\ UNCHANGED <<plan, clock, codes, consents, leads, tokens, call, pref, pending, sent, picks>>
<1> DEFINE row == [state |-> "BOOKED", addr |-> None, proven |-> "kept"]
           from == IF bot.sms THEN "OTP_VERIFIED" ELSE "any"
<1>1. /\ row \in [state : FlowStates, addr : Addrs \cup {None, "kept"}, proven : Addrs \cup {None, "kept"}]
      /\ row.state = "BOOKED" /\ row.proven = "kept"
  BY DEF FlowStates
<1>2. "booking" \in Kinds /\ flow \in FlowMap /\ clock \in Nat BY DEF Kinds, Types
<1>3. /\ flow' = Transition(flow, c, "booking", from, row)
      /\ \E tk \in tokens : tk.table \notin Lead
      /\ UNCHANGED <<plan, clock, codes, consents, leads, tokens, call, pref, pending, sent, picks>>
  BY DEF Book, keys
<1> HIDE DEF row, from
<1> QED BY <1>1, <1>2, <1>3, TransitionWrites

\* What Tick changes: the clock.
LEMMA TickEffect ==
  ASSUME Types, Tick
  PROVE  /\ clock' = clock + 1 /\ clock < Horizon
         /\ UNCHANGED <<plan, codes, consents, flow, leads, tokens, call, pref, pending, sent, picks>>
  BY DEF Tick, rows, keys

\* The transitions of a call write one flow each.
LEMMA NoteSentFlow ==
  ASSUME Types, Begun, NEW q \in Calls, NoteSent(q)
  PROVE  LET t == call[q].table  c == call[q].chat
         IN /\ flow' \in FlowMap
            /\ \A d \in Chats, j \in Kinds : flow'[d][j].proven = flow[d][j].proven
            /\ \A d \in Chats, j \in Kinds : flow'[d][j] # flow[d][j] =>
                 /\ d = c /\ j = (IF t = "leadSms" THEN "lead" ELSE "booking")
                 /\ t # "leadMail" /\ flow'[d][j].state = "OTP_SENT" /\ flow'[d][j].at = clock
                 /\ t = "leadSms" => flow[d][j].state = "CONSENT_OK"
            /\ t = "leadSms" /\ flow[c]["lead"].state = "CONSENT_OK" => flow'[c]["lead"].state = "OTP_SENT"
            /\ t = "bookSms" => /\ flow'[c]["booking"].state = "OTP_SENT"
                                /\ flow'[c]["booking"].addr = call[q].addr /\ flow'[c]["booking"].at = clock
<1> DEFINE t == call[q].table
           c == call[q].chat
           X == [state : FlowStates, addr : Addrs \cup {None, "kept"}, proven : Addrs \cup {None, "kept"}]
           lead == [state |-> "OTP_SENT", addr |-> "kept", proven |-> "kept"]
           sms == [state |-> "OTP_SENT", addr |-> call[q].addr, proven |-> "kept"]
           mail == [state |-> "OTP_SENT", addr |-> None, proven |-> "kept"]
<1>0. /\ flow \in FlowMap /\ clock \in Nat /\ "lead" \in Kinds /\ "booking" \in Kinds
      /\ call[q] \in Local /\ call[q].pc = "flow"
  BY NoteSentEffect DEF Types, Kinds
<1>1. c \in Chats /\ t \in {"leadSms", "bookSms", "leadMail", "bookMail"} /\ call[q].addr \in Addrs
  BY <1>0 DEF Local, Begun, Tables, Sms, Mail
<1>2. /\ lead \in X /\ lead.state = "OTP_SENT" /\ lead.addr = "kept" /\ lead.proven = "kept"
      /\ sms \in X /\ sms.state = "OTP_SENT" /\ sms.addr = call[q].addr /\ sms.proven = "kept"
      /\ mail \in X /\ mail.state = "OTP_SENT" /\ mail.proven = "kept"
  BY <1>1 DEF FlowStates
<1>3. /\ t = "leadSms" => flow' = Transition(flow, c, "lead", "CONSENT_OK", lead)
      /\ t = "bookSms" => flow' = Transition(flow, c, "booking", "any", sms)
      /\ t = "bookMail" => flow' = Transition(flow, c, "booking", "any", mail)
      /\ t = "leadMail" => flow' = flow
  BY NoteSentEffect
<1>k. call[q].addr # "kept" BY <1>1, SettingsAssumption
<1> HIDE DEF lead, sms, mail, t, c
<1>4. CASE t = "leadSms" BY <1>0, <1>1, <1>2, <1>3, <1>4, TransitionWrites DEF t, c
<1>5. CASE t = "bookSms" BY <1>0, <1>1, <1>2, <1>3, <1>5, <1>k, TransitionWrites DEF t, c
<1>6. CASE t = "bookMail" BY <1>0, <1>1, <1>2, <1>3, <1>6, TransitionWrites DEF t, c
<1>7. CASE t = "leadMail" BY <1>0, <1>1, <1>2, <1>3, <1>7 DEF t, c
<1> QED BY <1>1, <1>4, <1>5, <1>6, <1>7

\* The flows after Grant: only one waiting for a code moves, and to OTP_VERIFIED.
LEMMA GrantFlow ==
  ASSUME Types, Begun, Holding, NEW q \in Calls, Grant(q)
  PROVE  LET t == call[q].table  k == Marks(q)
         IN /\ flow' \in FlowMap
            /\ \A d \in Chats, j \in Kinds : flow'[d][j] # flow[d][j] =>
                 /\ flow[d][j].state = "OTP_SENT" /\ flow'[d][j].state = "OTP_VERIFIED"
                 /\ flow'[d][j].at = clock
                 /\ t \in Sms => flow'[d][j].proven = call[q].addr
                 /\ t \notin Sms => flow'[d][j].proven = flow[d][j].proven
                 /\ j = "lead" => t = "leadSms" /\ k # 0 /\ consents[k].chat = d
                 /\ j = "booking" => t \notin Lead
            /\ t = "leadSms" /\ k # 0 => \A d \in Chats :
                 consents[k].chat = d /\ flow[d]["lead"].state = "OTP_SENT" =>
                   flow'[d]["lead"].state = "OTP_VERIFIED" /\ flow'[d]["lead"].proven = call[q].addr
<1> DEFINE t == call[q].table
           k == Marks(q)
           X == [state : FlowStates, addr : Addrs \cup {None, "kept"}, proven : Addrs \cup {None, "kept"}]
           lead == [state |-> "OTP_VERIFIED", addr |-> "kept",
                    proven |-> IF t \in Sms THEN call[q].addr ELSE "kept"]
           booking == [lead EXCEPT !.addr = None]
<1>0. /\ flow \in FlowMap /\ clock \in Nat /\ "lead" \in Kinds /\ "booking" \in Kinds
      /\ call[q] \in Local /\ call[q].addr \in Addrs /\ Kinds = {"lead", "booking"}
      /\ consents \in Seq(ConsentRecord)
  BY GrantEffect DEF Types, Kinds
<1>1. call[q].chat \in Chats /\ t \in Tables BY <1>0 DEF Local
<1>2. /\ lead \in X /\ lead.state = "OTP_VERIFIED" /\ (t \in Sms => lead.proven = call[q].addr)
      /\ (t \notin Sms => lead.proven = "kept")
      /\ booking \in X /\ booking.state = "OTP_VERIFIED" /\ booking.proven = lead.proven
  BY <1>0 DEF FlowStates
<1>3. flow' = CASE t \notin Lead -> Transition(flow, call[q].chat, "booking", "OTP_SENT", booking)
                [] k # 0 -> Transition(flow, consents[k].chat, "lead", "OTP_SENT", lead)
                [] OTHER -> flow
  BY GrantEffect
<1>4. k # 0 => k \in 1 .. Len(consents) /\ t = "leadSms" BY MarksFacts
<1>5. k # 0 => consents[k].chat \in Chats \cup {None}
 <2>1. k # 0 => consents[k] \in ConsentRecord BY <1>0, <1>4
 <2> QED BY <2>1 DEF ConsentRecord
<1>6. "leadSms" \in Lead /\ "leadSms" \in Sms BY DEF Lead, Sms
<1>7. call[q].addr # "kept" /\ None \notin Chats BY <1>0, SettingsAssumption
<1>8. CASE t \notin Lead
 <2>1. flow' = Transition(flow, call[q].chat, "booking", "OTP_SENT", booking) BY <1>3, <1>4, <1>6, <1>8
 <2> HIDE DEF lead, booking, t, k
 <2> QED BY <1>0, <1>1, <1>2, <1>6, <1>7, <1>8, <2>1, TransitionWrites DEF t
<1>9. CASE t \in Lead /\ k # 0
 <2>1. flow' = Transition(flow, consents[k].chat, "lead", "OTP_SENT", lead) BY <1>3, <1>9
 <2> HIDE DEF lead, booking, t, k
 <2> QED BY <1>0, <1>1, <1>2, <1>4, <1>5, <1>6, <1>7, <1>9, <2>1, TransitionWrites DEF t, k
<1>10. CASE t \in Lead /\ k = 0
 <2>1. flow' = flow BY <1>3, <1>10
 <2> QED BY <1>0, <1>10, <2>1
<1> QED BY <1>8, <1>9, <1>10

\* The flows after RecordLead: only the lead flow of the call's chat moves.
LEMMA RecordLeadFlow ==
  ASSUME Types, Holding, NEW q \in Calls, RecordLead(q)
  PROVE  /\ flow' \in FlowMap
         /\ \A d \in Chats, j \in Kinds : flow'[d][j].proven = flow[d][j].proven
         /\ \A d \in Chats, j \in Kinds : flow'[d][j] # flow[d][j] =>
              /\ d = call[q].chat /\ j = "lead" /\ call[q].pc # "nowhere"
              /\ flow'[d][j].state \in {"SUBMITTED", "FAILED"} /\ flow'[d][j].at = clock
<1> DEFINE row == [state |-> IF call[q].pc = "failed" THEN "FAILED" ELSE "SUBMITTED",
                   addr |-> "kept", proven |-> "kept"]
<1>0. /\ flow \in FlowMap /\ clock \in Nat /\ "lead" \in Kinds /\ call[q] \in Local BY DEF Types, Kinds
<1>1. call[q].chat \in Chats BY <1>0 DEF Local
<1>2. /\ row \in [state : FlowStates, addr : Addrs \cup {None, "kept"}, proven : Addrs \cup {None, "kept"}]
      /\ row.state \in {"SUBMITTED", "FAILED"} /\ row.addr = "kept" /\ row.proven = "kept"
  BY DEF FlowStates
<1>3. flow' = IF call[q].pc = "nowhere" THEN flow ELSE Transition(flow, call[q].chat, "lead", "any", row)
  BY RecordLeadEffect
<1> HIDE DEF row
<1> QED BY <1>0, <1>1, <1>2, <1>3, TransitionWrites
--------------------
(* What no step undoes. *)
CodesGrow ==
  /\ codes' \in [Tables -> Seq(CodeRow)]
  /\ \A t \in Tables : Len(codes[t]) <= Len(codes'[t])
  /\ \A t \in Tables : \A i \in 1 .. Len(codes[t]) :
       /\ codes'[t][i].addr = codes[t][i].addr /\ codes'[t][i].at = codes[t][i].at
       /\ codes'[t][i].by = codes[t][i].by
       /\ codes[t][i].used => codes'[t][i].used
ConsentsStay ==
  /\ consents' \in Seq(ConsentRecord) /\ Len(consents) <= Len(consents')
  /\ \A i \in 1 .. Len(consents) :
       /\ consents[i].chat # None => consents'[i].chat = consents[i].chat
       /\ consents[i].verified => consents'[i].verified
       /\ consents'[i].at = consents[i].at
CallsGoOn ==
  /\ call' \in [Calls -> Local]
  /\ \A q \in Calls :
       /\ call'[q].op = call[q].op /\ call'[q].table = call[q].table /\ call'[q].chat = call[q].chat
       /\ call[q].pc # "new" => call'[q].pc # "new" /\ Kept(q)
       /\ call[q].pc \in Over => call'[q].pc = call[q].pc
       /\ call'[q].pc # "new" => call'[q].addr \in Addrs
       /\ call'[q].pc = "new" => call'[q] = call[q]
       /\ call'[q].consent <= Len(consents')
SentStays == \A q \in Calls : sent[q] # "none" => sent'[q] # "none"
Steady ==
  /\ plan' = plan /\ clock' \in Nat /\ clock <= clock'
  /\ flow' \in FlowMap /\ pref' \in [Chats -> Channels] /\ pending' \subseteq Calls
  /\ leads' \in [Calls -> LeadRow] /\ tokens' \subseteq Token /\ tokens \subseteq tokens'
  /\ sent' \in [Calls -> {"none", "sms", "whatsapp", "mail"}] /\ picks' \in [Chats -> Nat]
  /\ CodesGrow /\ ConsentsStay /\ CallsGoOn /\ SentStays

\* A step leaves what it does not write as it is.
LEMMA CodesAlone ==
  ASSUME Types, UNCHANGED codes
  PROVE  CodesGrow
<1>1. codes \in [Tables -> Seq(CodeRow)] /\ \A t \in Tables : Len(codes[t]) \in Nat BY DEF Types
<1> QED BY <1>1 DEF CodesGrow

\* A step that rewrites one row keeps its address, time and author, and a used mark.
LEMMA CodeBecomesGrows ==
  ASSUME Types, NEW t \in Tables, NEW n \in 1 .. Len(codes[t]), NEW r, CodeBecomes(t, n, r),
         r.addr = codes[t][n].addr, r.at = codes[t][n].at, r.by = codes[t][n].by, codes[t][n].used => r.used
  PROVE  CodesGrow
<1>1. codes \in [Tables -> Seq(CodeRow)] /\ \A u \in Tables : Len(codes[u]) \in Nat BY DEF Types
<1>2. /\ codes' \in [Tables -> Seq(CodeRow)] /\ \A u \in Tables : u # t => codes'[u] = codes[u]
      /\ Len(codes'[t]) = Len(codes[t])
  BY DEF CodeBecomes
<1>3. ASSUME NEW u \in Tables, NEW i \in 1 .. Len(codes[u])
      PROVE  /\ codes'[u][i].addr = codes[u][i].addr /\ codes'[u][i].at = codes[u][i].at
             /\ codes'[u][i].by = codes[u][i].by
             /\ codes[u][i].used => codes'[u][i].used
 <2>1. CASE u = t /\ i = n BY <2>1 DEF CodeBecomes
 <2>2. CASE u = t /\ i # n
  <3>1. codes'[u][i] = codes[u][i] BY <2>2 DEF CodeBecomes
  <3> QED BY <3>1
 <2>3. CASE u # t BY <1>2, <2>3
 <2> QED BY <2>1, <2>2, <2>3
<1>4. \A u \in Tables : Len(codes[u]) <= Len(codes'[u]) BY <1>1, <1>2
<1> QED BY <1>2, <1>3, <1>4 DEF CodesGrow

\* A step that leaves the consents alone keeps them.
LEMMA ConsentsAlone ==
  ASSUME Types, UNCHANGED consents
  PROVE  ConsentsStay
<1>1. consents \in Seq(ConsentRecord) /\ Len(consents) \in Nat BY DEF Types
<1> QED BY <1>1 DEF ConsentsStay

\* A step that only appends consents keeps them.
LEMMA ConsentsLonger ==
  ASSUME consents' \in Seq(ConsentRecord), Len(consents) <= Len(consents'),
         \A i \in 1 .. Len(consents) : consents'[i] = consents[i]
  PROVE  ConsentsStay
  BY DEF ConsentsStay

\* A step that rewrites one consent keeps its chat, its time and its mark.
LEMMA ConsentBecomesStays ==
  ASSUME Types, NEW k \in 1 .. Len(consents), NEW r, ConsentBecomes(k, r),
         consents[k].chat # None => r.chat = consents[k].chat,
         consents[k].verified => r.verified, r.at = consents[k].at
  PROVE  ConsentsStay
<1>1. consents \in Seq(ConsentRecord) /\ Len(consents) \in Nat BY DEF Types
<1> QED BY <1>1 DEF ConsentsStay, ConsentBecomes

\* A step that leaves the calls alone keeps what CallsGoOn says.
LEMMA CallsAlone ==
  ASSUME Types, Begun, Holding, UNCHANGED call, ConsentsStay
  PROVE  CallsGoOn
<1>1. /\ call' = call /\ call \in [Calls -> Local] /\ Len(consents) \in Nat /\ Len(consents') \in Nat
      /\ Len(consents) <= Len(consents') /\ \A q \in Calls : call[q].consent \in Nat
  BY DEF Types, ConsentsStay, Local
<1>2. ASSUME NEW q \in Calls  PROVE Kept(q) /\ call'[q].consent <= Len(consents')
                                    /\ (call[q].pc # "new" => call[q].addr \in Addrs)
  BY <1>1 DEF Kept, Holding, Begun
<1> QED BY <1>1, <1>2 DEF CallsGoOn

\* A step of a call under way keeps what CallsGoOn says.
LEMMA CallGoesOn1 ==
  ASSUME Types, Begun, Holding, NEW q \in Calls, Others(q), Kept(q), ConsentsStay,
         call[q].pc \notin Over \cup {"new"}, call'[q].pc # "new",
         call'[q].consent = call[q].consent \/ call'[q].consent <= Len(consents')
  PROVE  CallsGoOn
<1>1. /\ call' \in [Calls -> Local] /\ call \in [Calls -> Local] /\ Len(consents) \in Nat /\ Len(consents') \in Nat
      /\ Len(consents) <= Len(consents') /\ \A p \in Calls : p # q => call'[p] = call[p]
      /\ \A p \in Calls : call[p].consent \in Nat /\ call'[p].consent \in Nat
  BY DEF Types, ConsentsStay, Local, Others
<1>2. ASSUME NEW p \in Calls
      PROVE  /\ Kept(p) /\ call'[p].consent <= Len(consents')
             /\ (call[p].pc # "new" => call[p].addr \in Addrs)
             /\ p # q => call'[p] = call[p]
  BY <1>1 DEF Kept, Holding, Begun
<1>3. \A p \in Calls : /\ call'[p].op = call[p].op /\ call'[p].table = call[p].table
                       /\ call'[p].chat = call[p].chat /\ call'[p].addr = call[p].addr
  BY <1>2 DEF Kept
<1> QED BY <1>1, <1>2, <1>3 DEF CallsGoOn

\* The first step of a call keeps what CallsGoOn says.
LEMMA CallBeginsNow ==
  ASSUME Types, Begun, Holding, NEW q \in Calls, NEW a \in Addrs, NEW to, Begins(q, a, to), ConsentsStay,
         to \notin {"new"}, call'[q].consent <= Len(consents')
  PROVE  CallsGoOn
<1>1. /\ call' \in [Calls -> Local] /\ call \in [Calls -> Local] /\ Len(consents) \in Nat /\ Len(consents') \in Nat
      /\ Len(consents) <= Len(consents') /\ \A p \in Calls : p # q => call'[p] = call[p]
      /\ \A p \in Calls : call[p].consent \in Nat
  BY DEF Types, ConsentsStay, Local, Others, Begins
<1>2. ASSUME NEW p \in Calls, p # q
      PROVE  /\ Kept(p) /\ call'[p].consent <= Len(consents')
             /\ (call[p].pc # "new" => call[p].addr \in Addrs) /\ call'[p] = call[p]
  BY <1>1, <1>2 DEF Kept, Holding, Begun
<1>3. /\ call'[q].op = call[q].op /\ call'[q].table = call[q].table /\ call'[q].chat = call[q].chat
      /\ call[q].pc = "new" /\ call'[q].pc # "new" /\ call'[q].addr \in Addrs /\ call[q].pc \notin Over
  BY DEF Begins, Over
<1> QED BY <1>1, <1>2, <1>3 DEF CallsGoOn

\* The steps of Next, with the ranges of their parameters.
LEMMA NextCases ==
  ASSUME Types, Next
  PROVE  \/ Tick
         \/ \E c \in Chats \cup {None} : RecordConsent(c)
         \/ \E c \in Chats : \/ \E i \in DOMAIN consents : BindConsent(i, c)
                             \/ \E ch \in Channels : SetOtpChannel(c, ch)
                             \/ Book(c)
         \/ \E q \in Calls :
              \/ \E m \in Calls : Callback(q, m)
              \/ \E c \in Chats, a \in Addrs, t \in Tables :
                   \/ RequestCode(q, t, c, a)
                   \/ \E typed \in {0} \cup Received(t) :
                        LookUp(q, t, c, a, typed) \/ LookUpBooking(q, t, c, a, typed)
              \/ \E c \in Chats, a \in Addrs, booked, mailOk, smsOk \in BOOLEAN :
                   Submit(q, c, a, booked, mailOk, smsOk)
              \/ Issue(q) \/ Send(q) \/ NoteSent(q) \/ Claim(q) \/ Try(q) \/ MarkUsed(q) \/ Grant(q)
              \/ \E status \in Statuses : Deliver(q, status)
              \/ RecordLead(q) \/ Die(q)
<1>1. plan \in Plans BY DEF Types
<1>2. Live \subseteq Chats /\ \A q \in Calls : plan.asks[q].addr \in Addrs BY <1>1, PlanTypes
<1>3. ASSUME NEW q \in Calls, CallBegins(q)
      PROVE  \/ \E c \in Chats, a \in Addrs, t \in Tables :
                  \/ RequestCode(q, t, c, a)
                  \/ \E typed \in {0} \cup Received(t) :
                       LookUp(q, t, c, a, typed) \/ LookUpBooking(q, t, c, a, typed)
             \/ \E c \in Chats, a \in Addrs, booked, mailOk, smsOk \in BOOLEAN :
                  Submit(q, c, a, booked, mailOk, smsOk)
  BY <1>2, <1>3 DEF CallBegins
<1> QED BY <1>2, <1>3 DEF Next, CallGoesOn

\* The steps of a call, each of them steady.
LEMMA CallSteady ==
  ASSUME Types, Begun, Holding, NEW q \in Calls
  PROVE  /\ Issue(q) => Steady
         /\ Send(q) => Steady
         /\ NoteSent(q) => Steady
         /\ Claim(q) => Steady
         /\ Try(q) => Steady
         /\ MarkUsed(q) => Steady
         /\ Grant(q) => Steady
         /\ (\E status \in Statuses : Deliver(q, status)) => Steady
         /\ RecordLead(q) => Steady
         /\ Die(q) => Steady
<1>0. /\ plan \in Plans /\ clock \in Nat /\ flow \in FlowMap /\ pref \in [Chats -> Channels]
      /\ pending \subseteq Calls /\ leads \in [Calls -> LeadRow] /\ tokens \subseteq Token
      /\ sent \in [Calls -> {"none", "sms", "whatsapp", "mail"}] /\ picks \in [Chats -> Nat]
      /\ consents \in Seq(ConsentRecord) /\ Len(consents) \in Nat /\ call[q] \in Local
  BY DEF Types
<1>a. call[q].consent \in Nat /\ call[q].consent <= Len(consents) BY <1>0 DEF Local, Holding
<1>1. ASSUME Issue(q)  PROVE Steady
 <2> DEFINE t == call[q].table
            k == call[q].consent
 <2>1. /\ Others(q) /\ Kept(q) /\ call[q].pc = "issue" /\ call'[q].pc = "send"
       /\ call'[q].consent = call[q].consent
       /\ consents' = IF k = 0 THEN consents
                      ELSE [consents EXCEPT ![k].addr = call[q].addr]
       /\ codes' \in [Tables -> Seq(CodeRow)]
       /\ \A u \in Tables : u # t => codes'[u] = codes[u]
       /\ Len(codes'[t]) = Len(codes[t]) + 1 /\ Len(codes[t]) \in Nat
       /\ \A i \in 1 .. Len(codes[t]) : codes'[t][i] = codes[t][i]
       /\ UNCHANGED <<plan, clock, flow, leads, tokens, pref, pending, sent, picks>>
   BY <1>1, IssueEffect
 <2>2. call[q].addr \in Addrs BY <2>1 DEF Begun
 <2>3. ConsentsStay
  <3>1. CASE k = 0 BY <2>1, <3>1, ConsentsAlone
  <3>2. CASE k # 0
   <4>1. k \in 1 .. Len(consents) /\ consents[k] \in ConsentRecord BY <1>0, <1>a, <3>2
   <4>2. [consents[k] EXCEPT !.addr = call[q].addr] \in ConsentRecord BY <2>2, <4>1 DEF ConsentRecord
   <4>3. consents' = [consents EXCEPT ![k] = [consents[k] EXCEPT !.addr = call[q].addr]] BY <2>1, <3>2
   <4> DEFINE r == [consents[k] EXCEPT !.addr = call[q].addr]
   <4>4. r.chat = consents[k].chat /\ r.verified = consents[k].verified /\ r.at = consents[k].at
     BY <4>1 DEF ConsentRecord
   <4> HIDE DEF r, k
   <4>5. ConsentBecomes(k, r) BY <1>0, <4>1, <4>2, <4>3, ConsentChanged DEF r
   <4> QED BY <4>1, <4>4, <4>5, ConsentBecomesStays
  <3> QED BY <3>1, <3>2
 <2>4. CodesGrow
  <3>1. codes \in [Tables -> Seq(CodeRow)] /\ \A u \in Tables : Len(codes[u]) \in Nat BY DEF Types
  <3>2. \A u \in Tables : Len(codes[u]) <= Len(codes'[u]) BY <2>1, <3>1
  <3>3. \A u \in Tables : \A i \in 1 .. Len(codes[u]) : codes'[u][i] = codes[u][i] BY <2>1
  <3> QED BY <2>1, <3>2, <3>3 DEF CodesGrow
 <2>5. CallsGoOn BY <2>1, <2>3, CallGoesOn1 DEF Over
 <2> QED BY <1>0, <2>1, <2>3, <2>4, <2>5 DEF Steady, SentStays
<1>2. ASSUME Send(q)  PROVE Steady
 <2>1. /\ call'[q].pc \in {"flow", "done"} /\ Proceeds(q, "send", call'[q].pc)
       /\ sent' = sent \/ sent' = [sent EXCEPT ![q] = SentBy(q)]
       /\ pref' \in [Chats -> Channels] /\ picks' \in [Chats -> Nat]
       /\ sent' \in [Calls -> {"none", "sms", "whatsapp", "mail"}] /\ pending' \in {pending, pending \cup {q}}
       /\ UNCHANGED <<plan, clock, codes, consents, flow, leads, tokens>>
   BY <1>2, SendEffect
 <2>2. CodesGrow /\ ConsentsStay BY <2>1, CodesAlone, ConsentsAlone
 <2>3. CallsGoOn BY <2>1, <2>2, CallGoesOn1 DEF Over, Proceeds, Same
 <2>4. SentStays BY <1>0, <2>1 DEF SentStays, SentBy
 <2> QED BY <1>0, <2>1, <2>2, <2>3, <2>4 DEF Steady
<1>3. ASSUME NoteSent(q)  PROVE Steady
 <2>1. /\ Others(q) /\ Kept(q) /\ call[q].pc = "flow" /\ call'[q].pc = "done"
       /\ call'[q].consent = call[q].consent
       /\ UNCHANGED <<plan, clock, codes, consents, leads, tokens, pref, pending, sent, picks>>
   BY <1>3, NoteSentEffect
 <2>2. CodesGrow /\ ConsentsStay /\ flow' \in FlowMap BY <1>3, <2>1, CodesAlone, ConsentsAlone, NoteSentFlow
 <2>3. CallsGoOn BY <2>1, <2>2, CallGoesOn1 DEF Over
 <2> QED BY <1>0, <2>1, <2>2, <2>3 DEF Steady, SentStays
<1>4. ASSUME Claim(q)  PROVE Steady
 <2>1. /\ Others(q) /\ Kept(q) /\ GateMade(q) /\ call[q].pc = "claim" /\ pending' \subseteq pending
       /\ UNCHANGED <<plan, clock, codes, leads, pref, sent, picks>>
   BY <1>4, ClaimEffect
 <2>2. /\ ConsentsStay /\ flow' \in FlowMap /\ tokens' \subseteq Token /\ tokens \subseteq tokens'
       /\ call'[q].consent <= Len(consents') /\ call'[q].pc # "new"
   BY <2>1, ConsentsLonger DEF GateMade
 <2>3. CodesGrow /\ CallsGoOn BY <2>1, <2>2, CodesAlone, CallGoesOn1 DEF Over
 <2> QED BY <1>0, <2>1, <2>2, <2>3 DEF Steady, SentStays
<1>5. ASSUME Try(q)  PROVE Steady
 <2> DEFINE t == call[q].table
            n == call[q].n
            r == [codes[t][n] EXCEPT !.tries = @ + 1]
 <2>1. /\ Others(q) /\ Kept(q) /\ call[q].pc = "try" /\ call'[q].pc \in {"use", "done"}
       /\ call'[q].consent = call[q].consent /\ CodeBecomes(t, n, r)
       /\ UNCHANGED <<plan, clock, consents, flow, leads, tokens, pref, pending, sent, picks>>
   BY <1>5, TryEffect
 <2>2. t \in Tables /\ n \in 1 .. Len(codes[t]) BY <1>0, <2>1 DEF Holding, Verifying, Local
 <2>3. codes[t][n] \in CodeRow BY <2>2 DEF Types
 <2>4. r.addr = codes[t][n].addr /\ r.at = codes[t][n].at /\ r.by = codes[t][n].by
       /\ r.used = codes[t][n].used
   BY <2>3 DEF CodeRow
 <2>5. CodesGrow
  <3> HIDE DEF t, n, r
  <3> QED BY <2>1, <2>2, <2>4, CodeBecomesGrows
 <2>6. ConsentsStay BY <2>1, ConsentsAlone
 <2>7. CallsGoOn BY <2>1, <2>6, CallGoesOn1 DEF Over
 <2> QED BY <1>0, <2>1, <2>5, <2>6, <2>7 DEF Steady, SentStays
<1>6. ASSUME MarkUsed(q)  PROVE Steady
 <2> DEFINE t == call[q].table
            n == call[q].n
            r == [codes[t][n] EXCEPT !.used = TRUE]
 <2>1. /\ Proceeds(q, "use", "grant") /\ CodeBecomes(t, n, r)
       /\ UNCHANGED <<plan, clock, consents, flow, leads, tokens, pref, pending, sent, picks>>
   BY <1>6, MarkUsedEffect
 <2>2. t \in Tables /\ n \in 1 .. Len(codes[t]) BY <1>0, <2>1 DEF Holding, Verifying, Local, Proceeds
 <2>3. codes[t][n] \in CodeRow BY <2>2 DEF Types
 <2>4. r.addr = codes[t][n].addr /\ r.at = codes[t][n].at /\ r.by = codes[t][n].by /\ r.used BY <2>3 DEF CodeRow
 <2>5. CodesGrow
  <3> HIDE DEF t, n, r
  <3> QED BY <2>1, <2>2, <2>4, CodeBecomesGrows
 <2>6. ConsentsStay BY <2>1, ConsentsAlone
 <2>7. CallsGoOn BY <2>1, <2>6, CallGoesOn1 DEF Over, Proceeds, Same
 <2> QED BY <1>0, <2>1, <2>5, <2>6, <2>7 DEF Steady, SentStays
<1>7. ASSUME Grant(q)  PROVE Steady
 <2> DEFINE k == Marks(q)
            r == [consents[k] EXCEPT !.verified = TRUE]
 <2>1. /\ Proceeds(q, "grant", "done")
       /\ k = 0 => consents' = consents
       /\ k # 0 => ConsentBecomes(k, r)
       /\ tokens \subseteq tokens' /\ tokens' \subseteq Token
       /\ UNCHANGED <<plan, clock, codes, leads, pref, pending, sent, picks>>
   BY <1>7, GrantEffect
 <2>2. flow' \in FlowMap BY <1>7, GrantFlow
 <2>3. ConsentsStay
  <3>1. CASE k = 0 BY <2>1, <3>1, ConsentsAlone
  <3>2. CASE k # 0
   <4>1. k \in 1 .. Len(consents) /\ consents[k] \in ConsentRecord BY <1>0, <3>2, MarksFacts
   <4>2. r.chat = consents[k].chat /\ r.verified /\ r.at = consents[k].at BY <4>1 DEF ConsentRecord
   <4> HIDE DEF k, r
   <4> QED BY <2>1, <3>2, <4>1, <4>2, ConsentBecomesStays
  <3> QED BY <3>1, <3>2
 <2>4. CodesGrow /\ CallsGoOn BY <2>1, <2>3, CodesAlone, CallGoesOn1 DEF Over, Proceeds, Same
 <2> QED BY <1>0, <2>1, <2>2, <2>3, <2>4 DEF Steady, SentStays
<1>8. ASSUME NEW status \in Statuses, Deliver(q, status)  PROVE Steady
 <2>1. /\ Proceeds(q, "deliver", status)
       /\ UNCHANGED <<plan, clock, codes, consents, flow, leads, tokens, pref, pending, sent, picks>>
   BY <1>8, DeliverEffect
 <2>2. CodesGrow /\ ConsentsStay BY <2>1, CodesAlone, ConsentsAlone
 <2>3. CallsGoOn BY <2>1, <2>2, CallGoesOn1 DEF Over, Proceeds, Same, Statuses
 <2> QED BY <1>0, <2>1, <2>2, <2>3 DEF Steady, SentStays
<1>9. ASSUME RecordLead(q)  PROVE Steady
 <2> DEFINE k == call[q].consent
            r == [consents[k] EXCEPT !.lead = q]
 <2>1. /\ call[q].pc \in Statuses /\ Proceeds(q, call[q].pc, "done")
       /\ k = 0 => consents' = consents
       /\ k # 0 => k \in 1 .. Len(consents) /\ ConsentBecomes(k, r)
       /\ UNCHANGED <<plan, clock, codes, tokens, pref, pending, sent, picks>>
   BY <1>9, RecordLeadEffect
 <2>2. flow' \in FlowMap /\ leads' \in [Calls -> LeadRow]
  <3>1. leads' = [leads EXCEPT ![q] = [status |-> call[q].pc, chat |-> call[q].chat,
                   sms |-> call[q].smsOk, booked |-> call[q].booked, consent |-> call[q].consent]]
        /\ [status |-> call[q].pc, chat |-> call[q].chat, sms |-> call[q].smsOk,
            booked |-> call[q].booked, consent |-> call[q].consent] \in LeadRow
    BY <1>9, RecordLeadEffect
  <3> QED BY <1>0, <1>9, <3>1, RecordLeadFlow
 <2>3. ConsentsStay
  <3>1. CASE k = 0 BY <2>1, <3>1, ConsentsAlone
  <3>2. CASE k # 0
   <4>1. k \in 1 .. Len(consents) /\ consents[k] \in ConsentRecord BY <1>0, <2>1, <3>2
   <4>2. r.chat = consents[k].chat /\ r.verified = consents[k].verified /\ r.at = consents[k].at
     BY <4>1 DEF ConsentRecord
   <4> HIDE DEF k, r
   <4> QED BY <2>1, <3>2, <4>1, <4>2, ConsentBecomesStays
  <3> QED BY <3>1, <3>2
 <2>4. CodesGrow /\ CallsGoOn BY <2>1, <2>3, CodesAlone, CallGoesOn1 DEF Over, Proceeds, Same, Statuses
 <2> QED BY <1>0, <2>1, <2>2, <2>3, <2>4 DEF Steady, SentStays
<1>10. ASSUME Die(q)  PROVE Steady
 <2>1. /\ Proceeds(q, call[q].pc, "dead") /\ call[q].pc \notin Over \cup {"new"}
       /\ UNCHANGED <<plan, clock, codes, consents, flow, leads, tokens, pref, pending, sent, picks>>
   BY <1>10, DieEffect
 <2>2. CodesGrow /\ ConsentsStay BY <2>1, CodesAlone, ConsentsAlone
 <2>3. CallsGoOn BY <2>1, <2>2, CallGoesOn1 DEF Proceeds, Same
 <2> QED BY <1>0, <2>1, <2>2, <2>3 DEF Steady, SentStays
<1> QED BY <1>1, <1>2, <1>3, <1>4, <1>5, <1>6, <1>7, <1>8, <1>9, <1>10

\* The first steps of the calls, and those of the visitor, the clock and the owner.
LEMMA BeginSteady ==
  ASSUME Types, Begun, Holding, NEW q \in Calls
  PROVE  /\ \A m \in Calls : Callback(q, m) => Steady
         /\ \A t \in Tables, c \in Chats, a \in Addrs : RequestCode(q, t, c, a) => Steady
         /\ \A t \in Tables, c \in Chats, a \in Addrs : \A typed \in {0} \cup Received(t) :
              LookUp(q, t, c, a, typed) \/ LookUpBooking(q, t, c, a, typed) => Steady
         /\ \A c \in Chats, a \in Addrs : \A booked, mailOk, smsOk \in BOOLEAN :
              Submit(q, c, a, booked, mailOk, smsOk) => Steady
<1>0. /\ plan \in Plans /\ clock \in Nat /\ flow \in FlowMap /\ pref \in [Chats -> Channels]
      /\ pending \subseteq Calls /\ leads \in [Calls -> LeadRow] /\ tokens \subseteq Token
      /\ sent \in [Calls -> {"none", "sms", "whatsapp", "mail"}] /\ picks \in [Chats -> Nat]
      /\ consents \in Seq(ConsentRecord) /\ Len(consents) \in Nat
  BY DEF Types
<1>1. ASSUME NEW m \in Calls, Callback(q, m)  PROVE Steady
 <2>1. /\ Begins(q, call[m].addr, "claim") /\ call'[q].consent = 0 /\ m \in pending
       /\ UNCHANGED <<plan, clock, codes, consents, flow, leads, tokens, pref, pending, sent, picks>>
   BY <1>1, CallbackEffect
 <2>2. call[m].addr \in Addrs BY <2>1 DEF Begun
 <2>3. CodesGrow /\ ConsentsStay BY <2>1, CodesAlone, ConsentsAlone
 <2>4. call'[q].consent <= Len(consents') BY <1>0, <2>1
 <2>5. CallsGoOn BY <2>1, <2>2, <2>3, <2>4, CallBeginsNow
 <2> QED BY <1>0, <2>1, <2>3, <2>5 DEF Steady, SentStays
<1>2. ASSUME NEW t \in Tables, NEW c \in Chats, NEW a \in Addrs, RequestCode(q, t, c, a)  PROVE Steady
 <2>1. /\ Begins(q, a, call'[q].pc) /\ GateMade(q)
       /\ UNCHANGED <<plan, clock, codes, leads, pref, pending, sent, picks>>
   BY <1>2, RequestCodeEffect
 <2>2. /\ ConsentsStay /\ flow' \in FlowMap /\ tokens' \subseteq Token /\ tokens \subseteq tokens'
       /\ call'[q].consent <= Len(consents') /\ call'[q].pc # "new"
   BY <2>1, ConsentsLonger DEF GateMade
 <2>3. CodesGrow /\ CallsGoOn BY <2>1, <2>2, CodesAlone, CallBeginsNow
 <2> QED BY <1>0, <2>1, <2>2, <2>3 DEF Steady, SentStays
<1>3. ASSUME NEW t \in Tables, NEW c \in Chats, NEW a \in Addrs, NEW typed \in {0} \cup Received(t),
             LookUp(q, t, c, a, typed) \/ LookUpBooking(q, t, c, a, typed)
      PROVE  Steady
 <2>1. /\ Begins(q, a, call'[q].pc) /\ call'[q].pc # "new" /\ call'[q].consent = 0
       /\ UNCHANGED <<plan, clock, codes, consents, flow, leads, tokens, pref, pending, sent, picks>>
  <3>1. CASE LookUp(q, t, c, a, typed) BY <3>1, LookUpEffect DEF Looks
  <3>2. CASE LookUpBooking(q, t, c, a, typed) BY <3>2, LookUpBookingEffect DEF Looks
  <3> QED BY <1>3, <3>1, <3>2
 <2>2. CodesGrow /\ ConsentsStay BY <2>1, CodesAlone, ConsentsAlone
 <2>3. call'[q].consent <= Len(consents') BY <1>0, <2>1
 <2>4. CallsGoOn BY <2>1, <2>2, <2>3, CallBeginsNow
 <2> QED BY <1>0, <2>1, <2>2, <2>4 DEF Steady, SentStays
<1>4. ASSUME NEW c \in Chats, NEW a \in Addrs, NEW booked \in BOOLEAN, NEW mailOk \in BOOLEAN,
             NEW smsOk \in BOOLEAN, Submit(q, c, a, booked, mailOk, smsOk)
      PROVE  Steady
 <2>1. /\ Begins(q, a, call'[q].pc) /\ call'[q].pc # "new" /\ flow' \in FlowMap
       /\ consents' \in Seq(ConsentRecord) /\ Len(consents) <= Len(consents')
       /\ \A i \in 1 .. Len(consents) : consents'[i] = consents[i]
       /\ call'[q].consent <= Len(consents') /\ leads' \in [Calls -> LeadRow]
       /\ UNCHANGED <<plan, clock, codes, tokens, pref, pending, sent, picks>>
  <3>1. SubmitMade(q, c, a) BY <1>4, SubmitEffect, Zenon
  <3> QED BY <3>1 DEF SubmitMade
 <2>2. ConsentsStay BY <2>1, ConsentsLonger
 <2>3. CodesGrow /\ CallsGoOn BY <2>1, <2>2, CodesAlone, CallBeginsNow
 <2> QED BY <1>0, <2>1, <2>2, <2>3 DEF Steady, SentStays
<1> QED BY <1>1, <1>2, <1>3, <1>4

\* The steps that belong to no call are steady.
LEMMA OthersSteady ==
  ASSUME Types, Begun, Holding
  PROVE  /\ Tick => Steady
         /\ \A c \in Chats \cup {None} : RecordConsent(c) => Steady
         /\ \A c \in Chats : /\ \A i \in DOMAIN consents : BindConsent(i, c) => Steady
                             /\ \A ch \in Channels : SetOtpChannel(c, ch) => Steady
                             /\ Book(c) => Steady
<1>0. /\ plan \in Plans /\ clock \in Nat /\ flow \in FlowMap /\ pref \in [Chats -> Channels]
      /\ pending \subseteq Calls /\ leads \in [Calls -> LeadRow] /\ tokens \subseteq Token
      /\ sent \in [Calls -> {"none", "sms", "whatsapp", "mail"}] /\ picks \in [Chats -> Nat]
      /\ consents \in Seq(ConsentRecord) /\ Len(consents) \in Nat
  BY DEF Types
<1>1. ASSUME Tick  PROVE Steady
 <2>1. /\ clock' = clock + 1
       /\ UNCHANGED <<plan, codes, consents, flow, leads, tokens, call, pref, pending, sent, picks>>
   BY <1>1, TickEffect
 <2>2. CodesGrow /\ ConsentsStay BY <2>1, CodesAlone, ConsentsAlone
 <2>3. CallsGoOn BY <2>1, <2>2, CallsAlone
 <2> QED BY <1>0, <2>1, <2>2, <2>3 DEF Steady, SentStays
<1>2. ASSUME NEW c \in Chats \cup {None}, RecordConsent(c)  PROVE Steady
 <2>1. /\ consents' \in Seq(ConsentRecord) /\ Len(consents') = Len(consents) + 1
       /\ \A i \in 1 .. Len(consents) : consents'[i] = consents[i]
       /\ flow' \in FlowMap
       /\ UNCHANGED <<plan, clock, codes, leads, tokens, call, pref, pending, sent, picks>>
   BY <1>2, RecordConsentEffect
 <2>2. CodesGrow /\ ConsentsStay BY <1>0, <2>1, CodesAlone, ConsentsLonger
 <2>3. CallsGoOn BY <2>1, <2>2, CallsAlone
 <2> QED BY <1>0, <2>1, <2>2, <2>3 DEF Steady, SentStays
<1>3. ASSUME NEW c \in Chats, NEW i \in DOMAIN consents, BindConsent(i, c)  PROVE Steady
 <2> DEFINE r == [consents[i] EXCEPT !.chat = c]
 <2>1. /\ i \in 1 .. Len(consents) /\ consents[i].chat = None /\ ConsentBecomes(i, r) /\ flow' \in FlowMap
       /\ UNCHANGED <<plan, clock, codes, leads, tokens, call, pref, pending, sent, picks>>
   BY <1>3, BindConsentEffect
 <2>2. consents[i] \in ConsentRecord BY <1>0, <2>1
 <2>3. r.verified = consents[i].verified /\ r.at = consents[i].at BY <2>2 DEF ConsentRecord
 <2>4. ConsentsStay
  <3> HIDE DEF r
  <3> QED BY <2>1, <2>3, ConsentBecomesStays
 <2>5. CodesGrow /\ CallsGoOn BY <2>1, <2>4, CodesAlone, CallsAlone
 <2> QED BY <1>0, <2>1, <2>4, <2>5 DEF Steady, SentStays
<1>4. ASSUME NEW c \in Chats, NEW ch \in Channels, SetOtpChannel(c, ch)  PROVE Steady
 <2>1. /\ pref' \in [Chats -> Channels] /\ picks' \in [Chats -> Nat]
       /\ UNCHANGED <<plan, clock, codes, consents, flow, leads, tokens, pending, call, sent>>
   BY <1>4, SetOtpChannelEffect
 <2>2. CodesGrow /\ ConsentsStay BY <2>1, CodesAlone, ConsentsAlone
 <2>3. CallsGoOn BY <2>1, <2>2, CallsAlone
 <2> QED BY <1>0, <2>1, <2>2, <2>3 DEF Steady, SentStays
<1>5. ASSUME NEW c \in Chats, Book(c)  PROVE Steady
 <2>1. /\ flow' \in FlowMap
       /\ UNCHANGED <<plan, clock, codes, consents, leads, tokens, call, pref, pending, sent, picks>>
   BY <1>5, BookEffect
 <2>2. CodesGrow /\ ConsentsStay BY <2>1, CodesAlone, ConsentsAlone
 <2>3. CallsGoOn BY <2>1, <2>2, CallsAlone
 <2> QED BY <1>0, <2>1, <2>2, <2>3 DEF Steady, SentStays
<1> QED BY <1>1, <1>2, <1>3, <1>4, <1>5

\* Every step is steady: what exists stays, and keeps its types.
LEMMA NextSteady ==
  ASSUME Types, Begun, Holding, Next
  PROVE  Steady
<1>1. CASE \E q \in Calls :
              \/ \E m \in Calls : Callback(q, m)
              \/ \E c \in Chats, a \in Addrs, t \in Tables :
                   \/ RequestCode(q, t, c, a)
                   \/ \E typed \in {0} \cup Received(t) :
                        LookUp(q, t, c, a, typed) \/ LookUpBooking(q, t, c, a, typed)
              \/ \E c \in Chats, a \in Addrs, booked, mailOk, smsOk \in BOOLEAN :
                   Submit(q, c, a, booked, mailOk, smsOk)
  BY <1>1, BeginSteady
<1>2. CASE \E q \in Calls :
              \/ Issue(q) \/ Send(q) \/ NoteSent(q) \/ Claim(q) \/ Try(q) \/ MarkUsed(q) \/ Grant(q)
              \/ \E status \in Statuses : Deliver(q, status)
              \/ RecordLead(q) \/ Die(q)
  BY <1>2, CallSteady
<1>3. CASE \/ Tick
           \/ \E c \in Chats \cup {None} : RecordConsent(c)
           \/ \E c \in Chats : \/ \E i \in DOMAIN consents : BindConsent(i, c)
                               \/ \E ch \in Channels : SetOtpChannel(c, ch)
                               \/ Book(c)
  BY <1>3, OthersSteady
<1> QED BY <1>1, <1>2, <1>3, NextCases
--------------------
(* Types are invariant, with what a call holds. *)
Submitted(q, c, a) == \E booked, mailOk, smsOk \in BOOLEAN : Submit(q, c, a, booked, mailOk, smsOk)

\* A submission, whatever it shows, leaves SubmitMade.
LEMMA SubmittedMade ==
  ASSUME Types, NEW q \in Calls, NEW c \in Chats, NEW a \in Addrs, Submitted(q, c, a)
  PROVE  SubmitMade(q, c, a)
  BY SubmitEffect, Zenon DEF Submitted

InVerification == {"try", "use", "grant"}

\* A call comes to a verification by looking its code up, and stays with it.
LEMMA VerificationSteps ==
  ASSUME Types, Begun, Holding, Next, NEW p \in Calls, call'[p].pc \in InVerification
  PROVE  \/ call'[p] = call[p]
         \/ /\ Kept(p) /\ call'[p].n = call[p].n /\ call[p].pc \in {"try", "use"}
            /\ call[p].pc = "try" => Try(p)
            /\ call[p].pc = "use" => MarkUsed(p)
         \/ \E t \in Tables, c \in Chats, a \in Addrs : \E typed \in {0} \cup Received(t) :
              LookUp(p, t, c, a, typed) \/ LookUpBooking(p, t, c, a, typed)
<1> USE DEF InVerification
<1>1. ASSUME NEW q \in Calls, NEW m \in Calls, Callback(q, m)  PROVE call'[p] = call[p]
  BY <1>1, CallbackEffect DEF Begins, Others
<1>2. ASSUME NEW q \in Calls, NEW c \in Chats, NEW a \in Addrs, NEW t \in Tables, RequestCode(q, t, c, a)
      PROVE  call'[p] = call[p]
  BY <1>2, RequestCodeEffect, SMTT(30) DEF Begins, Others, GateMade
<1>3. ASSUME NEW q \in Calls, NEW c \in Chats, NEW a \in Addrs, NEW t \in Tables,
             NEW typed \in {0} \cup Received(t),
             LookUp(q, t, c, a, typed) \/ LookUpBooking(q, t, c, a, typed), q # p
      PROVE  call'[p] = call[p]
  BY <1>3, LookUpEffect, LookUpBookingEffect, ZenonT(40) DEF Looks, Begins, Others
<1>4. ASSUME NEW q \in Calls, NEW c \in Chats, NEW a \in Addrs, Submitted(q, c, a)
      PROVE  call'[p] = call[p]
  BY <1>4, SubmittedMade, Zenon DEF SubmitMade, Begins, Others
<1>5. ASSUME NEW q \in Calls, Issue(q) \/ Send(q) \/ NoteSent(q) \/ Grant(q) \/ RecordLead(q) \/ Die(q)
      PROVE  call'[p] = call[p]
  BY <1>5, IssueEffect, SendEffect, NoteSentEffect, GrantEffect, RecordLeadEffect, DieEffect
     DEF Others, Proceeds
<1>6. ASSUME NEW q \in Calls, Claim(q)  PROVE call'[p] = call[p] BY <1>6, ClaimEffect DEF Others, GateMade
<1>7. ASSUME NEW q \in Calls, NEW status \in Statuses, Deliver(q, status)  PROVE call'[p] = call[p]
  BY <1>7, DeliverEffect DEF Others, Proceeds, Statuses
<1>8. ASSUME NEW q \in Calls, q # p, Try(q) \/ MarkUsed(q)  PROVE call'[p] = call[p]
  BY <1>8, TryEffect, MarkUsedEffect DEF Others, Proceeds
<1>9. ASSUME Try(p) \/ MarkUsed(p)
      PROVE  /\ Kept(p) /\ call'[p].n = call[p].n /\ call[p].pc \in {"try", "use"}
             /\ call[p].pc = "try" => Try(p)
             /\ call[p].pc = "use" => MarkUsed(p)
  BY <1>9, TryEffect, MarkUsedEffect DEF Proceeds, Same
<1>10. ASSUME \/ Tick
              \/ \E c \in Chats \cup {None} : RecordConsent(c)
              \/ \E c \in Chats : \/ \E i \in DOMAIN consents : BindConsent(i, c)
                                  \/ \E ch \in Channels : SetOtpChannel(c, ch)
                                  \/ Book(c)
       PROVE  call'[p] = call[p]
  BY <1>10, TickEffect, RecordConsentEffect, BindConsentEffect, SetOtpChannelEffect, BookEffect
<1> QED BY <1>1, <1>2, <1>3, <1>4, <1>5, <1>6, <1>7, <1>8, <1>9, <1>10, NextCases DEF Submitted

\* Types, Begun and Holding are kept by every step.
LEMMA SmallStep ==
  ASSUME Types, Begun, Holding, [Next]_vars
  PROVE  Types' /\ Begun' /\ Holding'
<1>1. CASE UNCHANGED vars
 <2>1. Types' = Types /\ Begun' = Begun /\ Holding' = Holding BY <1>1 DEF vars, Types, Begun, Holding, Verifying
 <2> QED BY <2>1
<1>2. CASE Next
 <2>1. Steady BY <1>2, NextSteady
 <2>2. Types'
  <3>1. plan \in Plans BY DEF Types
  <3> QED BY <2>1, <3>1 DEF Steady, CodesGrow, ConsentsStay, CallsGoOn, Types
 <2>3. Begun'
  <3>1. ASSUME NEW q \in Calls
        PROVE  IF call'[q].pc = "new" THEN call'[q] = Idle(call'[q].op, call'[q].table, call'[q].chat)
               ELSE call'[q].addr \in Addrs
    BY <2>1 DEF Steady, CallsGoOn, Begun
  <3>2. ASSUME NEW m \in pending'  PROVE call'[m].pc # "new"
   <4>1. m \in Calls BY <2>1 DEF Steady
   <4>2. CASE m \in pending BY <2>1, <4>1, <4>2 DEF Steady, CallsGoOn, Begun
   <4>3. CASE m \notin pending
    <5>1. \E q \in Calls : Send(q) /\ m = q
     <6>1. ASSUME NEW q \in Calls, \/ Issue(q) \/ NoteSent(q) \/ Try(q) \/ MarkUsed(q) \/ Grant(q) \/ Claim(q)
                                   \/ RecordLead(q) \/ Die(q) \/ \E status \in Statuses : Deliver(q, status)
           PROVE  FALSE
       BY <4>3, <6>1, <3>2, IssueEffect, NoteSentEffect, TryEffect, MarkUsedEffect, GrantEffect,
          ClaimEffect, RecordLeadEffect, DieEffect, DeliverEffect
     <6>2. ASSUME NEW q \in Calls, NEW c \in Chats, NEW a \in Addrs, Submitted(q, c, a)  PROVE FALSE
       BY <4>3, <6>2, <3>2, SubmittedMade DEF SubmitMade
     <6>3. ASSUME NEW q \in Calls, NEW c \in Chats, NEW a \in Addrs, NEW t \in Tables,
                  \/ RequestCode(q, t, c, a)
                  \/ \E typed \in {0} \cup Received(t) :
                       LookUp(q, t, c, a, typed) \/ LookUpBooking(q, t, c, a, typed)
           PROVE  FALSE
       BY <4>3, <6>3, <3>2, RequestCodeEffect, LookUpEffect, LookUpBookingEffect
     <6>4. ASSUME NEW q \in Calls, NEW r \in Calls, Callback(q, r)  PROVE FALSE BY <4>3, <6>4, <3>2, CallbackEffect
     <6>5. ASSUME \/ Tick
                  \/ \E c \in Chats \cup {None} : RecordConsent(c)
                  \/ \E c \in Chats : \/ \E i \in DOMAIN consents : BindConsent(i, c)
                                      \/ \E ch \in Channels : SetOtpChannel(c, ch)
                                      \/ Book(c)
           PROVE  FALSE
       BY <4>3, <6>5, <3>2, TickEffect, RecordConsentEffect, BindConsentEffect, SetOtpChannelEffect,
          BookEffect
     <6>6. ASSUME NEW q \in Calls, Send(q)  PROVE m = q BY <4>3, <6>6, <3>2, SendEffect
     <6> QED BY <1>2, <6>1, <6>2, <6>3, <6>4, <6>5, <6>6, NextCases DEF Submitted
    <5> QED BY <5>1, SendEffect DEF Proceeds
   <4> QED BY <4>2, <4>3
  <3> QED BY <3>1, <3>2 DEF Begun
 <2>4. ASSUME NEW p \in Calls  PROVE Verifying(p)'
  <3> SUFFICES ASSUME call'[p].pc \in InVerification
               PROVE  /\ call'[p].op = "verify" /\ call'[p].n \in 1 .. Len(codes'[call'[p].table])
                      /\ codes'[call'[p].table][call'[p].n].addr = call'[p].addr
    BY DEF Verifying, InVerification
  <3>0. \A t \in Tables : Len(codes[t]) \in Nat /\ Len(codes'[t]) \in Nat BY <2>2 DEF Types
  <3>1. ASSUME call[p].pc \in InVerification, Kept(p), call'[p].n = call[p].n
        PROVE  /\ call'[p].op = "verify" /\ call'[p].n \in 1 .. Len(codes'[call'[p].table])
               /\ codes'[call'[p].table][call'[p].n].addr = call'[p].addr
   <4>1. /\ call[p].op = "verify" /\ call[p].n \in 1 .. Len(codes[call[p].table])
         /\ codes[call[p].table][call[p].n].addr = call[p].addr
     BY <3>1 DEF Holding, Verifying, InVerification
   <4>2. call[p].table \in Tables BY DEF Types, Local
   <4> QED BY <2>1, <3>0, <3>1, <4>1, <4>2 DEF Steady, CodesGrow, Kept
  <3>2. CASE call'[p] = call[p] BY <3>1, <3>2 DEF Kept
  <3>3. CASE Kept(p) /\ call'[p].n = call[p].n /\ call[p].pc \in {"try", "use"} BY <3>1, <3>3 DEF InVerification
  <3>4. ASSUME NEW t \in Tables, NEW c \in Chats, NEW a \in Addrs, NEW typed \in {0} \cup Received(t),
               LookUp(p, t, c, a, typed) \/ LookUpBooking(p, t, c, a, typed)
        PROVE  /\ call'[p].op = "verify" /\ call'[p].n \in 1 .. Len(codes'[call'[p].table])
               /\ codes'[call'[p].table][call'[p].n].addr = call'[p].addr
   <4>1. CASE LookUp(p, t, c, a, typed) BY <4>1, LookUpEffect DEF Looks, Begins, InVerification
   <4>2. CASE LookUpBooking(p, t, c, a, typed) BY <4>2, LookUpBookingEffect DEF Looks, Begins, InVerification
   <4> QED BY <3>4, <4>1, <4>2
  <3> QED BY <1>2, <3>2, <3>3, <3>4, VerificationSteps
 <2>5. Holding' BY <2>1, <2>4 DEF Holding, Steady, CallsGoOn
 <2> QED BY <2>2, <2>3, <2>5
<1> QED BY <1>1, <1>2


(* Where what is new in a state comes from. *)
\* A call changes by a step of its own.
LEMMA OwnSteps ==
  ASSUME Types, Begun, Holding, Next, NEW p \in Calls
  PROVE  \/ call'[p] = call[p]
         \/ \E m \in Calls : Callback(p, m)
         \/ \E c \in Chats, a \in Addrs, t \in Tables :
              \/ RequestCode(p, t, c, a)
              \/ \E typed \in {0} \cup Received(t) :
                   LookUp(p, t, c, a, typed) \/ LookUpBooking(p, t, c, a, typed)
         \/ \E c \in Chats, a \in Addrs : Submitted(p, c, a)
         \/ Issue(p) \/ Send(p) \/ NoteSent(p) \/ Claim(p) \/ Try(p) \/ MarkUsed(p) \/ Grant(p)
         \/ \E status \in Statuses : Deliver(p, status)
         \/ RecordLead(p) \/ Die(p)
<1>1. ASSUME NEW q \in Calls, NEW m \in Calls, Callback(q, m), q # p  PROVE call'[p] = call[p]
  BY <1>1, CallbackEffect DEF Begins, Others
<1>2. ASSUME NEW q \in Calls, NEW c \in Chats, NEW a \in Addrs, NEW t \in Tables, RequestCode(q, t, c, a),
             q # p
      PROVE  call'[p] = call[p]
  BY <1>2, RequestCodeEffect DEF Begins, Others
<1>3. ASSUME NEW q \in Calls, NEW c \in Chats, NEW a \in Addrs, NEW t \in Tables,
             NEW typed \in {0} \cup Received(t),
             LookUp(q, t, c, a, typed) \/ LookUpBooking(q, t, c, a, typed), q # p
      PROVE  call'[p] = call[p]
  BY <1>3, LookUpEffect, LookUpBookingEffect DEF Looks, Begins, Others
<1>4. ASSUME NEW q \in Calls, NEW c \in Chats, NEW a \in Addrs, Submitted(q, c, a), q # p
      PROVE  call'[p] = call[p]
 <2>1. SubmitMade(q, c, a) BY <1>4, SubmittedMade
 <2>2. Others(q) BY <2>1 DEF SubmitMade, Begins
 <2> QED BY <1>4, <2>2 DEF Others
<1>5. ASSUME NEW q \in Calls, q # p,
             Issue(q) \/ Send(q) \/ NoteSent(q) \/ Grant(q) \/ RecordLead(q) \/ Die(q)
      PROVE  call'[p] = call[p]
 <2>1. Issue(q) \/ NoteSent(q) \/ RecordLead(q) => Others(q)
   BY IssueEffect, NoteSentEffect, RecordLeadEffect DEF Proceeds
 <2>2. Send(q) \/ Grant(q) \/ Die(q) => Others(q) BY SendEffect, GrantEffect, DieEffect DEF Proceeds
 <2> QED BY <1>5, <2>1, <2>2 DEF Others
<1>6. ASSUME NEW q \in Calls, q # p, Claim(q) \/ Try(q) \/ MarkUsed(q)  PROVE call'[p] = call[p]
  BY <1>6, ClaimEffect, TryEffect, MarkUsedEffect DEF Others, Proceeds
<1>7. ASSUME NEW q \in Calls, q # p, NEW status \in Statuses, Deliver(q, status)  PROVE call'[p] = call[p]
  BY <1>7, DeliverEffect DEF Others, Proceeds
<1>8. ASSUME \/ Tick
             \/ \E c \in Chats \cup {None} : RecordConsent(c)
             \/ \E c \in Chats : \/ \E i \in DOMAIN consents : BindConsent(i, c)
                                 \/ \E ch \in Channels : SetOtpChannel(c, ch)
                                 \/ Book(c)
      PROVE  call'[p] = call[p]
  BY <1>8, TickEffect, RecordConsentEffect, BindConsentEffect, SetOtpChannelEffect, BookEffect
<1> QED BY <1>1, <1>2, <1>3, <1>4, <1>5, <1>6, <1>7, <1>8, NextCases DEF Submitted

\* The steps that give a consent to chat c.
Consents(c) ==
  \/ RecordConsent(c)
  \/ c \in Chats /\ \E i \in DOMAIN consents : BindConsent(i, c)
  \/ \E q \in Calls, a \in Addrs : c \in Chats /\ Submitted(q, c, a)
  \/ \E q \in Calls, a \in Addrs, t \in Tables : c \in Chats /\ RequestCode(q, t, c, a)
  \/ \E q \in Calls : c = call[q].chat /\ Claim(q)

\* Chat c has a consent that it had not.
Gains(c) == \E i \in 1 .. Len(consents') : /\ consents'[i].chat = c
                                           /\ i <= Len(consents) => consents[i].chat = None
ConsentMade(c) ==
  /\ UNCHANGED <<plan, clock, codes, sent>>
  /\ consents' \in Seq(ConsentRecord) /\ Len(consents) <= Len(consents')
  /\ \A i \in 1 .. Len(consents) :
       \/ consents'[i] = consents[i]
       \/ consents[i].chat = None /\ consents'[i] = [consents[i] EXCEPT !.chat = c]
          /\ flow' = ConsentOk(flow, c)
  /\ \A i \in 1 .. Len(consents') : i > Len(consents) =>
       consents'[i] = ConsentRow(c) /\ flow' = ConsentOk(flow, c)
  /\ flow' = flow \/ (flow' = ConsentOk(flow, c) /\ Gains(c))
  /\ \/ leads' = leads
     \/ \E q \in Calls : /\ call[q].pc = "new"
                         /\ leads' = [leads EXCEPT ![q] = [NoLead EXCEPT !.status = "rejected", !.chat = c]]
  /\ \A tk \in tokens' : tk \notin tokens =>
       tk.n = 0 /\ tk.at = clock /\ c \in Chats /\ Proven(c, tk.addr)

\* The gates give a consent only to the chat of their call.
LEMMA GateConsents ==
  ASSUME Types, NEW q \in Calls, NEW c \in Chats, GateMade(q), call'[q].chat = c,
         UNCHANGED <<plan, clock, codes, sent, leads>>
  PROVE  ConsentMade(c)
<1>1. /\ consents' \in Seq(ConsentRecord) /\ Len(consents) <= Len(consents')
      /\ \A i \in 1 .. Len(consents) : consents'[i] = consents[i]
      /\ \A i \in 1 .. Len(consents') : i > Len(consents) =>
           consents'[i] = ConsentRow(c) /\ consents'[i].chat = c /\ flow' = ConsentOk(flow, c)
      /\ flow' = flow \/ (flow' = ConsentOk(flow, c) /\ Len(consents') > Len(consents))
  BY DEF GateMade
<1>2. Len(consents) \in Nat /\ Len(consents') \in Nat BY <1>1 DEF Types
<1>3. Len(consents') > Len(consents) => Gains(c)
 <2> SUFFICES ASSUME Len(consents') > Len(consents)  PROVE Gains(c) OBVIOUS
 <2>1. Len(consents') \in 1 .. Len(consents') /\ ~(Len(consents') <= Len(consents)) BY <1>2
 <2> QED BY <1>1, <2>1 DEF Gains
<1>4. \A tk \in tokens' : tk \notin tokens =>
        tk.n = 0 /\ tk.at = clock /\ c \in Chats /\ Proven(c, tk.addr)
  BY DEF GateMade
<1> QED BY <1>1, <1>3, <1>4 DEF ConsentMade

\* Each step of Consents(c) leaves ConsentMade(c).
LEMMA ConsentSteps ==
  ASSUME Types, Begun, Holding, NEW c \in Chats \cup {None}, Consents(c)
  PROVE  ConsentMade(c)
<1>0. Len(consents) \in Nat BY DEF Types
<1>1. ASSUME NEW q \in Calls, NEW a \in Addrs, NEW t \in Tables, c \in Chats, RequestCode(q, t, c, a)
      PROVE  ConsentMade(c)
 <2>1. GateMade(q) /\ call'[q].chat = c /\ UNCHANGED <<plan, clock, codes, sent, leads>>
   BY <1>1, RequestCodeEffect DEF Begins
 <2> QED BY <1>1, <2>1, GateConsents
<1>2. ASSUME NEW q \in Calls, c = call[q].chat, Claim(q)
      PROVE  ConsentMade(c)
 <2>1. GateMade(q) /\ call'[q].chat = c /\ UNCHANGED <<plan, clock, codes, sent, leads>> /\ c \in Chats
   BY <1>2, ClaimEffect DEF Kept, Types, Local
 <2> QED BY <2>1, GateConsents
<1>3. ASSUME NEW q \in Calls, NEW a \in Addrs, c \in Chats, Submitted(q, c, a)
      PROVE  ConsentMade(c)
 <2>1. SubmitMade(q, c, a) BY <1>3, SubmittedMade
 <2>2. /\ consents' \in Seq(ConsentRecord) /\ Len(consents) <= Len(consents')
       /\ \A i \in 1 .. Len(consents) : consents'[i] = consents[i]
       /\ \A i \in 1 .. Len(consents') : i > Len(consents) =>
            consents'[i] = ConsentRow(c) /\ consents'[i].chat = c /\ flow' = ConsentOk(flow, c)
       /\ flow' = flow \/ (flow' = ConsentOk(flow, c) /\ Len(consents') > Len(consents))
       /\ UNCHANGED <<plan, clock, codes, sent, tokens>> /\ call[q].pc = "new"
       /\ \/ leads' = leads
          \/ leads' = [leads EXCEPT ![q] = [NoLead EXCEPT !.status = "rejected", !.chat = c]]
   BY <2>1 DEF SubmitMade, Begins
 <2>3. Len(consents') > Len(consents) => Gains(c)
  <3> SUFFICES ASSUME Len(consents') > Len(consents)  PROVE Gains(c) OBVIOUS
  <3>1. Len(consents') \in 1 .. Len(consents') /\ ~(Len(consents') <= Len(consents)) BY <1>0, <2>2
  <3> QED BY <2>2, <3>1 DEF Gains
 <2> QED BY <2>2, <2>3 DEF ConsentMade
<1>4. ASSUME RecordConsent(c)  PROVE ConsentMade(c)
 <2>1. /\ consents' \in Seq(ConsentRecord) /\ Len(consents') = Len(consents) + 1
       /\ \A i \in 1 .. Len(consents) : consents'[i] = consents[i]
       /\ consents'[Len(consents) + 1] = ConsentRow(c) /\ ConsentRow(c).chat = c /\ flow' = ConsentOk(flow, c)
       /\ UNCHANGED <<plan, clock, codes, sent, tokens, leads>>
   BY <1>4, RecordConsentEffect
 <2>2. Gains(c) BY <1>0, <2>1 DEF Gains
 <2>3. \A i \in 1 .. Len(consents') : i > Len(consents) => i = Len(consents) + 1 BY <1>0, <2>1
 <2> QED BY <1>0, <2>1, <2>2, <2>3 DEF ConsentMade
<1>5. ASSUME c \in Chats, NEW i \in DOMAIN consents, BindConsent(i, c)  PROVE ConsentMade(c)
 <2>1. /\ i \in 1 .. Len(consents) /\ consents[i].chat = None
       /\ ConsentBecomes(i, [consents[i] EXCEPT !.chat = c]) /\ flow' = ConsentOk(flow, c)
       /\ UNCHANGED <<plan, clock, codes, sent, tokens, leads>>
   BY <1>5, BindConsentEffect
 <2>2. consents'[i].chat = c /\ consents[i] \in ConsentRecord
  <3>1. consents[i] \in ConsentRecord BY <2>1 DEF Types
  <3>2. consents'[i] = [consents[i] EXCEPT !.chat = c] BY <2>1 DEF ConsentBecomes
  <3> QED BY <3>1, <3>2 DEF ConsentRecord
 <2>3. Gains(c) BY <2>1, <2>2 DEF Gains, ConsentBecomes
 <2> QED BY <1>0, <2>1, <2>3 DEF ConsentMade, ConsentBecomes
<1> QED BY <1>1, <1>2, <1>3, <1>4, <1>5 DEF Consents

\* The steps that write a table, and those that do not.
LEMMA Writers ==
  ASSUME Types, Begun, Holding, Next
  PROVE  \/ UNCHANGED rows
         \/ \E c \in Chats \cup {None} : Consents(c)
         \/ \E q \in Calls : Issue(q) \/ NoteSent(q) \/ Try(q) \/ MarkUsed(q) \/ Grant(q) \/ RecordLead(q)
         \/ \E c \in Chats : Book(c)
<1>1. ASSUME NEW q \in Calls, NEW m \in Calls, Callback(q, m)  PROVE UNCHANGED rows BY <1>1, CallbackEffect DEF rows
<1>2. ASSUME NEW q \in Calls, NEW c \in Chats, NEW a \in Addrs, NEW t \in Tables,
             NEW typed \in {0} \cup Received(t),
             LookUp(q, t, c, a, typed) \/ LookUpBooking(q, t, c, a, typed)
      PROVE  UNCHANGED rows
  BY <1>2, LookUpEffect, LookUpBookingEffect DEF rows
<1>3. ASSUME NEW q \in Calls, Send(q) \/ Die(q) \/ \E status \in Statuses : Deliver(q, status)
      PROVE  UNCHANGED rows
  BY <1>3, SendEffect, DieEffect, DeliverEffect DEF rows
<1>4. ASSUME Tick \/ \E c \in Chats : \E ch \in Channels : SetOtpChannel(c, ch)  PROVE UNCHANGED rows
  BY <1>4, TickEffect, SetOtpChannelEffect DEF rows
<1>5. \A q \in Calls : call[q].chat \in Chats BY DEF Types, Local
<1> QED BY <1>1, <1>2, <1>3, <1>4, <1>5, NextCases DEF Consents, Submitted

\* What a step of its own does to a call.
LEMMA CallKeeps ==
  ASSUME Types, Begun, Holding, Next, NEW p \in Calls
  PROVE  /\ call[p].pc \notin {"new", "claim"} => call'[p].consent = call[p].consent
         /\ call'[p].noted # call[p].noted => NoteSent(p) /\ call'[p].noted
         /\ call'[p].typed # call[p].typed =>
              \E t \in Tables, c \in Chats, a \in Addrs : \E typed \in {0} \cup Received(t) :
                LookUp(p, t, c, a, typed) \/ LookUpBooking(p, t, c, a, typed)
<1> DEFINE Keeps == /\ call[p].pc \notin {"new", "claim"} => call'[p].consent = call[p].consent
                    /\ call'[p].noted = call[p].noted /\ call'[p].typed = call[p].typed
<1>0. call[p].pc = "new" => call[p].typed = 0 /\ call[p].noted = FALSE
 <2>1. call[p].pc = "new" => call[p] = Idle(call[p].op, call[p].table, call[p].chat) BY DEF Begun
 <2> QED BY <2>1 DEF Idle
<1>1. ASSUME NEW m \in Calls, Callback(p, m)  PROVE Keeps
 <2>1. Begins(p, call[m].addr, "claim") /\ call'[p].typed = 0 BY <1>1, CallbackEffect
 <2>2. call'[p].noted \in BOOLEAN BY <2>1 DEF Begins, Others, Local
 <2> QED BY <1>0, <2>1, <2>2 DEF Begins
<1>2. ASSUME NEW c \in Chats, NEW a \in Addrs, NEW t \in Tables, RequestCode(p, t, c, a)  PROVE Keeps
 <2>1. Begins(p, a, call'[p].pc) /\ call'[p].typed = 0 BY <1>2, RequestCodeEffect
 <2>2. call'[p].noted \in BOOLEAN BY <2>1 DEF Begins, Others, Local
 <2> QED BY <1>0, <2>1, <2>2 DEF Begins
<1>3. ASSUME NEW c \in Chats, NEW a \in Addrs, Submitted(p, c, a)  PROVE Keeps
 <2>0. SubmitMade(p, c, a) BY <1>3, SubmittedMade
 <2>1. Begins(p, a, call'[p].pc) /\ call'[p].typed = 0 BY <2>0 DEF SubmitMade
 <2>2. call'[p].noted \in BOOLEAN BY <2>1 DEF Begins, Others, Local
 <2> QED BY <1>0, <2>1, <2>2 DEF Begins
<1>4. ASSUME NEW c \in Chats, NEW a \in Addrs, NEW t \in Tables, NEW typed \in {0} \cup Received(t),
             LookUp(p, t, c, a, typed) \/ LookUpBooking(p, t, c, a, typed)
      PROVE  call[p].pc = "new" /\ call'[p].noted = call[p].noted
 <2>1. \E n : Looks(p, t, c, a, typed, n, call'[p].pc) BY <1>4, LookUpEffect, LookUpBookingEffect
 <2>2. Begins(p, a, call'[p].pc) BY <2>1 DEF Looks
 <2>3. call'[p].noted \in BOOLEAN BY <2>2 DEF Begins, Others, Local
 <2> QED BY <1>0, <2>2, <2>3 DEF Begins
<1>5. ASSUME Issue(p) \/ Send(p) \/ Try(p) \/ MarkUsed(p)  PROVE Keeps
 <2>1. CASE Issue(p) \/ Try(p) BY <2>1, IssueEffect, TryEffect DEF Kept
 <2>2. CASE Send(p) \/ MarkUsed(p) BY <2>2, SendEffect, MarkUsedEffect DEF Proceeds, Kept, Same
 <2> QED BY <1>5, <2>1, <2>2
<1>6. ASSUME Grant(p) \/ RecordLead(p) \/ Die(p) \/ \E status \in Statuses : Deliver(p, status)  PROVE Keeps
 <2>1. \E from, to : Proceeds(p, from, to)
  <3>1. CASE Grant(p) \/ RecordLead(p) BY <3>1, GrantEffect, RecordLeadEffect
  <3>2. CASE Die(p) \/ \E status \in Statuses : Deliver(p, status) BY <3>2, DieEffect, DeliverEffect
  <3> QED BY <1>6, <3>1, <3>2
 <2> QED BY <2>1 DEF Proceeds, Kept, Same
<1>7. ASSUME Claim(p)  PROVE Keeps BY <1>7, ClaimEffect DEF Kept
<1>8. ASSUME NoteSent(p)
      PROVE  call'[p].consent = call[p].consent /\ call'[p].noted /\ call'[p].typed = call[p].typed
  BY <1>8, NoteSentEffect DEF Kept
<1>9. CASE call'[p] = call[p] BY <1>9
<1> QED BY <1>1, <1>2, <1>3, <1>4, <1>5, <1>6, <1>7, <1>8, <1>9, OwnSteps

Delivering == {"deliver"} \cup Statuses

\* How a call comes to where it is.
LEMMA Arrivals ==
  ASSUME Types, Begun, Holding, Next, NEW p \in Calls, call'[p] # call[p]
  PROVE  /\ call'[p].pc = "issue" => GateMade(p) /\ call[p].pc \in {"new", "claim"} /\ UNCHANGED codes
         /\ call'[p].pc = "send" => Issue(p)
         /\ call'[p].pc = "flow" => Send(p)
         /\ call'[p].pc = "claim" => \E m \in Calls : Callback(p, m)
         /\ call'[p].pc = "use" =>
              \/ Try(p)
              \/ \E t \in Tables, c \in Chats, a \in Addrs : \E typed \in {0} \cup Received(t) :
                   LookUpBooking(p, t, c, a, typed)
         /\ call'[p].pc = "grant" => MarkUsed(p)
         /\ call'[p].pc \in Delivering =>
              \/ Proceeds(p, "deliver", call'[p].pc) /\ UNCHANGED rows
              \/ \E c \in Chats, a \in Addrs : Submitted(p, c, a)
<1> DEFINE To(S) == call'[p].pc \in S
<1>1. ASSUME NEW m \in Calls, Callback(p, m)  PROVE To({"claim"}) BY <1>1, CallbackEffect DEF Begins
<1>2. ASSUME NEW c \in Chats, NEW a \in Addrs, NEW t \in Tables, RequestCode(p, t, c, a)
      PROVE  To({"issue", "done"}) /\ GateMade(p) /\ call[p].pc = "new" /\ UNCHANGED codes
  BY <1>2, RequestCodeEffect DEF Begins, GateMade
<1>3. ASSUME NEW c \in Chats, NEW a \in Addrs, Submitted(p, c, a)  PROVE To({"deliver", "done"})
 <2>1. SubmitMade(p, c, a) BY <1>3, SubmittedMade
 <2> QED BY <2>1 DEF SubmitMade
<1>4. ASSUME NEW c \in Chats, NEW a \in Addrs, NEW t \in Tables, NEW typed \in {0} \cup Received(t)
      PROVE  /\ LookUp(p, t, c, a, typed) => To({"try", "done"})
             /\ LookUpBooking(p, t, c, a, typed) => To({"use", "done"})
  BY <1>4, LookUpEffect, LookUpBookingEffect
<1>5. /\ Issue(p) => To({"send"})
      /\ Send(p) => To({"flow", "done"})
      /\ NoteSent(p) => To({"done"})
      /\ Claim(p) => To({"issue", "done"}) /\ GateMade(p) /\ call[p].pc = "claim" /\ UNCHANGED codes
  BY IssueEffect, SendEffect, NoteSentEffect, ClaimEffect DEF GateMade
<1>6. /\ Try(p) => To({"use", "done"})
      /\ MarkUsed(p) => To({"grant"})
      /\ Grant(p) => To({"done"})
      /\ RecordLead(p) => To({"done"})
      /\ Die(p) => To({"dead"})
  BY TryEffect, MarkUsedEffect, GrantEffect, RecordLeadEffect, DieEffect DEF Proceeds
<1>7. ASSUME NEW status \in Statuses, Deliver(p, status)
      PROVE  Proceeds(p, "deliver", call'[p].pc) /\ UNCHANGED rows /\ To(Statuses)
  BY <1>7, DeliverEffect DEF Proceeds, rows
<1>8. Statuses = {"delivered", "partial", "failed", "nowhere"} /\ Delivering = {"deliver"} \cup Statuses
  BY PcFacts DEF Delivering
<1> QED BY <1>1, <1>2, <1>3, <1>4, <1>5, <1>6, <1>7, <1>8, OwnSteps

\* A flow is moved by a consent, a code sent or given back, a lead or a booking.
LEMMA FlowChanges ==
  ASSUME Types, Begun, Holding, Next, NEW c \in Chats, NEW k \in Kinds, flow'[c][k] # flow[c][k]
  PROVE  /\ flow'[c][k].at \in {clock, flow[c][k].at}
         /\ \/ /\ flow'[c][k].proven = flow[c][k].proven
               /\ \/ k = "lead" /\ flow'[c][k].state = "CONSENT_OK" /\ Gains(c)
                  \/ /\ flow'[c][k].state = "OTP_SENT"
                     /\ k = "lead" => flow[c][k].state = "CONSENT_OK"
                  \/ /\ k = "lead" /\ flow'[c][k].state \in {"SUBMITTED", "FAILED"}
                     /\ \E q \in Calls : RecordLead(q) /\ call[q].chat = c
                  \/ k = "booking" /\ flow'[c][k].state \in {"BOOKED", flow[c][k].state}
            \/ \E q \in Calls :
                 /\ Grant(q) /\ flow[c][k].state = "OTP_SENT" /\ flow'[c][k].state = "OTP_VERIFIED"
                 /\ IF call[q].table \in Sms THEN flow'[c][k].proven = call[q].addr
                                             ELSE flow'[c][k].proven = flow[c][k].proven
                 /\ k = "lead" => call[q].table = "leadSms" /\ Marks(q) # 0 /\ consents[Marks(q)].chat = c
<1>0. flow' # flow /\ rows' # rows BY DEF rows
<1>1. ASSUME NEW d \in Chats \cup {None}, Consents(d)
      PROVE  /\ k = "lead" /\ flow'[c][k].state = "CONSENT_OK" /\ Gains(c)
             /\ flow'[c][k].proven = flow[c][k].proven /\ flow'[c][k].at = clock
 <2>1. flow' = ConsentOk(flow, d) /\ Gains(d) BY <1>0, <1>1, ConsentSteps DEF ConsentMade
 <2>2. c = d /\ k = "lead" BY <2>1, ConsentOkWrites
 <2> QED BY <2>1, <2>2, ConsentOkWrites
<1>2. ASSUME NEW q \in Calls, NoteSent(q)
      PROVE  /\ flow'[c][k].proven = flow[c][k].proven /\ flow'[c][k].state = "OTP_SENT"
             /\ k = "lead" => flow[c][k].state = "CONSENT_OK"
             /\ flow'[c][k].at = clock
  BY <1>2, NoteSentFlow
<1>3. ASSUME NEW q \in Calls, RecordLead(q)
      PROVE  /\ k = "lead" /\ flow'[c][k].state \in {"SUBMITTED", "FAILED"} /\ call[q].chat = c
             /\ flow'[c][k].proven = flow[c][k].proven /\ flow'[c][k].at = clock
  BY <1>3, RecordLeadFlow
<1>4. ASSUME NEW q \in Calls, Grant(q)
      PROVE  /\ flow[c][k].state = "OTP_SENT" /\ flow'[c][k].state = "OTP_VERIFIED"
             /\ IF call[q].table \in Sms THEN flow'[c][k].proven = call[q].addr
                                         ELSE flow'[c][k].proven = flow[c][k].proven
             /\ k = "lead" => call[q].table = "leadSms" /\ Marks(q) # 0 /\ consents[Marks(q)].chat = c
             /\ flow'[c][k].at = clock
  BY <1>4, GrantFlow
<1>5. ASSUME NEW d \in Chats, Book(d)
      PROVE  /\ k = "booking" /\ flow'[c][k].state \in {"BOOKED", flow[c][k].state}
             /\ flow'[c][k].proven = flow[c][k].proven /\ flow'[c][k].at \in {clock, flow[c][k].at}
  BY <1>5, BookEffect
<1>6. ASSUME NEW q \in Calls, Issue(q) \/ Try(q) \/ MarkUsed(q)  PROVE FALSE
  BY <1>0, <1>6, IssueEffect, TryEffect, MarkUsedEffect
<1> QED BY <1>0, <1>1, <1>2, <1>3, <1>4, <1>5, <1>6, Writers

\* A code is added by Issue, marked used by MarkUsed.
LEMMA CodeChanges ==
  ASSUME Types, Begun, Holding, Next, NEW t \in Tables, NEW i \in 1 .. Len(codes'[t])
  PROVE  /\ i > Len(codes[t]) =>
              \E q \in Calls :
                /\ Issue(q) /\ call[q].table = t
                /\ codes'[t][i] = [addr |-> call[q].addr, at |-> clock, tries |-> 0, used |-> FALSE, by |-> q]
         /\ i <= Len(codes[t]) /\ codes'[t][i].used /\ ~codes[t][i].used =>
              \E q \in Calls : MarkUsed(q) /\ call[q].table = t /\ call[q].n = i
<1>0. Len(codes[t]) \in Nat /\ codes \in [Tables -> Seq(CodeRow)]
      /\ \A u \in Tables : \A j \in 1 .. Len(codes[u]) : codes[u][j] \in CodeRow
  BY DEF Types
<1>1. CASE codes' = codes BY <1>0, <1>1
<1>2. ASSUME NEW q \in Calls, Issue(q)
      PROVE  /\ i > Len(codes[t]) =>
                  /\ call[q].table = t
                  /\ codes'[t][i] = [addr |-> call[q].addr, at |-> clock, tries |-> 0, used |-> FALSE, by |-> q]
             /\ i <= Len(codes[t]) => codes'[t][i] = codes[t][i]
 <2>1. LET u == call[q].table
       IN /\ \A v \in Tables : v # u => codes'[v] = codes[v]
          /\ Len(codes'[u]) = Len(codes[u]) + 1 /\ Len(codes[u]) \in Nat
          /\ \A j \in 1 .. Len(codes[u]) : codes'[u][j] = codes[u][j]
          /\ codes'[u][Len(codes[u]) + 1] =
               [addr |-> call[q].addr, at |-> clock, tries |-> 0, used |-> FALSE, by |-> q]
   BY <1>2, IssueEffect
 <2>2. CASE call[q].table = t
  <3>1. i > Len(codes[t]) => i = Len(codes[t]) + 1 BY <1>0, <2>1, <2>2
  <3> QED BY <1>0, <2>1, <2>2, <3>1
 <2>3. CASE call[q].table # t BY <1>0, <2>1, <2>3
 <2> QED BY <2>2, <2>3
<1>3. ASSUME NEW q \in Calls, Try(q)  PROVE i <= Len(codes[t]) /\ codes'[t][i].used = codes[t][i].used
 <2>1. /\ CodeBecomes(call[q].table, call[q].n, [codes[call[q].table][call[q].n] EXCEPT !.tries = @ + 1])
       /\ call[q].pc = "try" /\ call[q].table \in Tables
   BY <1>3, TryEffect DEF Types, Local
 <2>2. call[q].n \in 1 .. Len(codes[call[q].table]) BY <2>1 DEF Holding, Verifying
 <2>3. codes[call[q].table][call[q].n] \in CodeRow BY <1>0, <2>1, <2>2
 <2>4. codes'[call[q].table][call[q].n].used = codes[call[q].table][call[q].n].used
   BY <2>1, <2>3 DEF CodeBecomes, CodeRow
 <2>5. /\ Len(codes'[t]) = Len(codes[t])
       /\ call[q].table # t \/ call[q].n # i => codes'[t][i] = codes[t][i]
  <3>1. CASE call[q].table = t BY <1>0, <2>1, <3>1 DEF CodeBecomes
  <3>2. CASE call[q].table # t BY <1>0, <2>1, <3>2 DEF CodeBecomes
  <3> QED BY <3>1, <3>2
 <2>6. CASE call[q].table = t /\ call[q].n = i BY <1>0, <2>4, <2>5, <2>6
 <2>7. CASE call[q].table # t \/ call[q].n # i BY <1>0, <2>5, <2>7
 <2> QED BY <2>6, <2>7
<1>4. ASSUME NEW q \in Calls, MarkUsed(q)
      PROVE  /\ i <= Len(codes[t])
             /\ codes'[t][i].used /\ ~codes[t][i].used => call[q].table = t /\ call[q].n = i
 <2>1. /\ CodeBecomes(call[q].table, call[q].n, [codes[call[q].table][call[q].n] EXCEPT !.used = TRUE])
       /\ call[q].table \in Tables
   BY <1>4, MarkUsedEffect DEF Types, Local
 <2>2. /\ Len(codes'[t]) = Len(codes[t])
       /\ call[q].table # t \/ call[q].n # i => codes'[t][i] = codes[t][i]
  <3>1. CASE call[q].table = t BY <1>0, <2>1, <3>1 DEF CodeBecomes
  <3>2. CASE call[q].table # t BY <1>0, <2>1, <3>2 DEF CodeBecomes
  <3> QED BY <3>1, <3>2
 <2> QED BY <1>0, <2>2
<1>5. ASSUME NEW q \in Calls, NoteSent(q) \/ Grant(q) \/ RecordLead(q)  PROVE codes' = codes
  BY <1>5, NoteSentEffect, GrantEffect, RecordLeadEffect
<1>6. ASSUME NEW c \in Chats \cup {None}, Consents(c)  PROVE codes' = codes BY <1>6, ConsentSteps DEF ConsentMade
<1>7. ASSUME NEW c \in Chats, Book(c)  PROVE codes' = codes BY <1>7, BookEffect
<1>8. UNCHANGED rows => codes' = codes BY DEF rows
<1>9. codes' = codes \/ \E q \in Calls : Issue(q) \/ Try(q) \/ MarkUsed(q) BY <1>5, <1>6, <1>7, <1>8, Writers
<1>10. ASSUME NEW q \in Calls, Issue(q)
       PROVE  /\ i > Len(codes[t]) => Issue(q) /\ call[q].table = t /\ codes'[t][i] =
                   [addr |-> call[q].addr, at |-> clock, tries |-> 0, used |-> FALSE, by |-> q]
              /\ i <= Len(codes[t]) /\ codes'[t][i].used => codes[t][i].used
  BY <1>2, <1>10
<1>11. ASSUME NEW q \in Calls, Try(q)
       PROVE  i <= Len(codes[t]) /\ (codes'[t][i].used => codes[t][i].used)
  BY <1>3, <1>11
<1>12. i <= Len(codes[t]) => ~(i > Len(codes[t])) BY <1>0
<1> QED BY <1>1, <1>4, <1>9, <1>10, <1>11, <1>12, Zenon

\* A token is given for a code that was given back, or for a phone the chat's flows know.
LEMMA TokenChanges ==
  ASSUME Types, Begun, Holding, Next, NEW tk \in tokens', tk \notin tokens
  PROVE  /\ tk.at = clock
         /\ \/ \E q \in Calls : Grant(q) /\ tk = [table |-> call[q].table, addr |-> call[q].addr,
                                                 n |-> call[q].n, at |-> clock, by |-> q]
            \/ tk.n = 0 /\ \E c \in Chats : Proven(c, tk.addr)
<1>1. ASSUME NEW c \in Chats \cup {None}, Consents(c)
      PROVE  tk.at = clock /\ tk.n = 0 /\ \E d \in Chats : Proven(d, tk.addr)
  BY <1>1, ConsentSteps DEF ConsentMade
<1>2. ASSUME NEW q \in Calls, Grant(q)
      PROVE  tk = [table |-> call[q].table, addr |-> call[q].addr, n |-> call[q].n, at |-> clock, by |-> q]
  BY <1>2, GrantEffect
<1>3. ASSUME \/ UNCHANGED rows \/ \E c \in Chats : Book(c)
             \/ \E q \in Calls : Issue(q) \/ NoteSent(q) \/ Try(q) \/ MarkUsed(q) \/ RecordLead(q)
      PROVE  FALSE
 <2>1. tokens' # tokens OBVIOUS
 <2>2. UNCHANGED rows => tokens' = tokens BY DEF rows
 <2> QED BY <1>3, <2>1, <2>2, BookEffect, IssueEffect, NoteSentEffect, TryEffect, MarkUsedEffect, RecordLeadEffect
<1> QED BY <1>1, <1>2, <1>3, Writers

\* A lead is refused at once, or written when its delivery has ended.
LEMMA LeadChanges ==
  ASSUME Types, Begun, Holding, Next, NEW p \in Calls, leads'[p] # leads[p]
  PROVE  \/ /\ RecordLead(p)
            /\ leads'[p] = [status |-> call[p].pc, chat |-> call[p].chat, sms |-> call[p].smsOk,
                            booked |-> call[p].booked, consent |-> call[p].consent]
         \/ \E c \in Chats, a \in Addrs :
              /\ Submitted(p, c, a) /\ call'[p].pc = "done"
              /\ leads'[p] = [NoLead EXCEPT !.status = "rejected", !.chat = c]
<1>0. leads \in [Calls -> LeadRow] /\ leads' # leads BY DEF Types
<1>1. ASSUME NEW c \in Chats \cup {None}, Consents(c)
      PROVE  \E d \in Chats, a \in Addrs :
               /\ Submitted(p, d, a) /\ call'[p].pc = "done"
               /\ leads'[p] = [NoLead EXCEPT !.status = "rejected", !.chat = d]
 <2>1. \E q \in Calls, a \in Addrs : c \in Chats /\ Submitted(q, c, a)
  <3>1. RecordConsent(c) => FALSE BY <1>0, RecordConsentEffect
  <3>2. ASSUME NEW i \in DOMAIN consents, c \in Chats, BindConsent(i, c)  PROVE FALSE BY <1>0, <3>2, BindConsentEffect
  <3>3. ASSUME NEW q \in Calls, NEW a \in Addrs, NEW t \in Tables, c \in Chats, RequestCode(q, t, c, a)
        PROVE  FALSE
    BY <1>0, <3>3, RequestCodeEffect
  <3>4. ASSUME NEW q \in Calls, Claim(q)  PROVE FALSE BY <1>0, <3>4, ClaimEffect
  <3> QED BY <1>1, <3>1, <3>2, <3>3, <3>4 DEF Consents
 <2>2. PICK q \in Calls, a \in Addrs : c \in Chats /\ Submitted(q, c, a) BY <2>1
 <2>3. SubmitMade(q, c, a) BY <2>2, SubmittedMade
 <2>4. /\ leads' = [leads EXCEPT ![q] = [NoLead EXCEPT !.status = "rejected", !.chat = c]]
       /\ call'[q].pc = "done"
   BY <1>0, <2>3 DEF SubmitMade
 <2>5. p = q BY <1>0, <2>4
 <2> QED BY <1>0, <2>2, <2>4, <2>5
<1>2. ASSUME NEW q \in Calls, RecordLead(q)
      PROVE  /\ p = q
             /\ leads'[p] = [status |-> call[p].pc, chat |-> call[p].chat, sms |-> call[p].smsOk,
                             booked |-> call[p].booked, consent |-> call[p].consent]
  BY <1>0, <1>2, RecordLeadEffect
<1>3. ASSUME \/ UNCHANGED rows \/ \E c \in Chats : Book(c)
             \/ \E q \in Calls : Issue(q) \/ NoteSent(q) \/ Try(q) \/ MarkUsed(q) \/ Grant(q)
      PROVE  FALSE
 <2>1. UNCHANGED rows => leads' = leads BY DEF rows
 <2> QED BY <1>0, <1>3, <2>1, BookEffect, IssueEffect, NoteSentEffect, TryEffect, MarkUsedEffect, GrantEffect
<1> QED BY <1>1, <1>2, <1>3, Writers
--------------------
(* Type correctness. *)
\* Nothing is dated in the future, and what points into a table finds its row.
Ranges ==
  /\ clock <= Horizon
  /\ \A t \in Tables : \A i \in 1 .. Len(codes[t]) : codes[t][i].at <= clock
  /\ \A i \in 1 .. Len(consents) : consents[i].at <= clock
  /\ \A c \in Chats, k \in Kinds : flow[c][k].at <= clock
  /\ \A q \in Calls : leads[q].consent <= Len(consents)
  /\ \A tk \in tokens : tk.at <= clock /\ tk.n <= Len(codes[tk.table])

\* Holding and Ranges hold at the start.
LEMMA InitHolds == Init => Holding /\ Ranges
<1> SUFFICES ASSUME Init  PROVE Holding /\ Ranges OBVIOUS
<1>1. /\ \A q \in Calls : call[q].pc = "new" /\ call[q].consent = 0
      /\ Len(consents) = 0 /\ \A t \in Tables : Len(codes[t]) = 0
  BY DEF Init, Idle
<1>2. \A q \in Calls : leads[q].consent = 0 BY DEF Init, NoLead
<1>3. clock = 0 /\ tokens = {} /\ \A c \in Chats, k \in Kinds : flow[c][k].at = 0 BY DEF Init, NoFlow
<1>4. Horizon \in Nat BY SettingsAssumption
<1> QED BY <1>1, <1>2, <1>3, <1>4 DEF Holding, Verifying, Ranges

\* The clock is moved by Tick alone, within the horizon.
LEMMA ClockSteps ==
  ASSUME Types, Begun, Holding, Next
  PROVE  clock' = clock \/ (clock < Horizon /\ clock' = clock + 1)
<1>1. ASSUME NEW q \in Calls, NEW m \in Calls, Callback(q, m)  PROVE clock' = clock BY <1>1, CallbackEffect
<1>2. ASSUME NEW q \in Calls, NEW c \in Chats, NEW a \in Addrs, NEW t \in Tables,
             NEW typed \in {0} \cup Received(t),
             LookUp(q, t, c, a, typed) \/ LookUpBooking(q, t, c, a, typed)
      PROVE  clock' = clock
  BY <1>2, LookUpEffect, LookUpBookingEffect
<1>3. ASSUME NEW q \in Calls, \/ Issue(q) \/ Send(q) \/ NoteSent(q) \/ Try(q) \/ MarkUsed(q) \/ Grant(q)
                              \/ RecordLead(q) \/ Die(q) \/ \E status \in Statuses : Deliver(q, status)
      PROVE  clock' = clock
  BY <1>3, IssueEffect, SendEffect, NoteSentEffect, TryEffect, MarkUsedEffect, GrantEffect,
     RecordLeadEffect, DieEffect, DeliverEffect
<1>4. ASSUME NEW c \in Chats \cup {None}, Consents(c)  PROVE clock' = clock BY <1>4, ConsentSteps DEF ConsentMade
<1>5. ASSUME NEW c \in Chats, Book(c) \/ \E ch \in Channels : SetOtpChannel(c, ch)  PROVE clock' = clock
  BY <1>5, BookEffect, SetOtpChannelEffect
<1>6. \A q \in Calls : call[q].chat \in Chats BY DEF Types, Local
<1> QED BY <1>1, <1>2, <1>3, <1>4, <1>5, <1>6, TickEffect, NextCases DEF Consents, Submitted

\* Ranges is kept: what is written carries the time and the positions of now.
LEMMA RangesStep ==
  ASSUME Types, Begun, Holding, Ranges, [Next]_vars
  PROVE  Ranges'
<1>1. CASE UNCHANGED vars BY <1>1 DEF vars, Ranges
<1>2. CASE Next
 <2>0. /\ Steady /\ clock \in Nat /\ clock' \in Nat /\ clock <= clock' /\ Horizon \in Nat
       /\ Len(consents) \in Nat /\ Len(consents') \in Nat /\ Len(consents) <= Len(consents')
       /\ \A t \in Tables : Len(codes[t]) \in Nat /\ Len(codes'[t]) \in Nat /\ Len(codes[t]) <= Len(codes'[t])
  <3>1. Steady BY <1>2, NextSteady
  <3> QED BY <3>1, SettingsAssumption, SMTT(30) DEF Steady, CodesGrow, ConsentsStay, Types
 <2>1. clock' <= Horizon BY <1>2, <2>0, ClockSteps DEF Ranges
 <2>2. ASSUME NEW t \in Tables, NEW i \in 1 .. Len(codes'[t])  PROVE codes'[t][i].at <= clock'
  <3>1. CASE i > Len(codes[t])
   <4>1. PICK q \in Calls :
           codes'[t][i] = [addr |-> call[q].addr, at |-> clock, tries |-> 0, used |-> FALSE, by |-> q]
     BY <1>2, <3>1, CodeChanges
   <4> QED BY <2>0, <4>1
  <3>2. CASE i <= Len(codes[t])
   <4>1. i \in 1 .. Len(codes[t]) BY <2>0, <3>2
   <4>2. codes[t][i] \in CodeRow BY <4>1 DEF Types
   <4>3. codes'[t][i].at = codes[t][i].at /\ codes[t][i].at <= clock BY <2>0, <4>1 DEF Steady, CodesGrow, Ranges
   <4>4. codes[t][i].at \in Nat BY <4>2 DEF CodeRow
   <4> QED BY <2>0, <4>3, <4>4
  <3> QED BY <2>0, <3>1, <3>2
 <2>3. ASSUME NEW i \in 1 .. Len(consents')  PROVE consents'[i].at <= clock'
  <3>1. CASE i > Len(consents)
   <4>1. ASSUME NEW q \in Calls, \/ Issue(q) \/ NoteSent(q) \/ Try(q) \/ MarkUsed(q) \/ Grant(q)
                                 \/ RecordLead(q)
         PROVE  Len(consents') = Len(consents)
    <5>1. Issue(q) => Len(consents') = Len(consents)
     <6>1. Issue(q) => consents' = IF call[q].consent = 0 THEN consents
                                   ELSE [consents EXCEPT ![call[q].consent].addr = call[q].addr]
       BY IssueEffect
     <6>2. consents \in Seq(ConsentRecord) BY DEF Types
     <6> QED BY <2>0, <6>1, <6>2
    <5>2. Grant(q) \/ RecordLead(q) => Len(consents') = Len(consents)
      BY GrantEffect, RecordLeadEffect DEF ConsentBecomes
    <5> QED BY <4>1, <5>1, <5>2, NoteSentEffect, TryEffect, MarkUsedEffect
   <4>2. UNCHANGED rows \/ (\E c \in Chats : Book(c)) => consents' = consents BY BookEffect DEF rows
   <4>3. PICK c \in Chats \cup {None} : Consents(c) BY <1>2, <2>0, <3>1, <4>1, <4>2, Writers
   <4>4. consents'[i] = ConsentRow(c) /\ clock' = clock BY <3>1, <4>3, ConsentSteps DEF ConsentMade
   <4> QED BY <2>0, <4>4 DEF ConsentRow
  <3>2. CASE i <= Len(consents)
   <4>1. i \in 1 .. Len(consents) BY <2>0, <3>2
   <4>2. consents[i] \in ConsentRecord BY <4>1 DEF Types
   <4>3. consents'[i].at = consents[i].at /\ consents[i].at <= clock BY <2>0, <4>1 DEF Steady, ConsentsStay, Ranges
   <4>4. consents[i].at \in Nat BY <4>2 DEF ConsentRecord
   <4> QED BY <2>0, <4>3, <4>4
  <3> QED BY <2>0, <3>1, <3>2
 <2>4. ASSUME NEW c \in Chats, NEW k \in Kinds  PROVE flow'[c][k].at <= clock'
  <3>1. flow[c][k].at \in Nat /\ flow[c][k].at <= clock BY DEF Ranges, Types, FlowMap, FlowRow
  <3>2. flow'[c][k].at \in {clock, flow[c][k].at} BY <1>2, FlowChanges
  <3> QED BY <2>0, <3>1, <3>2
 <2>5. ASSUME NEW q \in Calls  PROVE leads'[q].consent <= Len(consents')
  <3>1. leads[q].consent \in Nat /\ leads[q].consent <= Len(consents) BY DEF Ranges, Types, LeadRow
  <3>2. call[q].consent \in Nat /\ call[q].consent <= Len(consents) BY DEF Holding, Types, Local
  <3>3. leads'[q].consent \in {0, leads[q].consent, call[q].consent}
   <4>1. ASSUME NEW c \in Chats, leads'[q] = [NoLead EXCEPT !.status = "rejected", !.chat = c]
         PROVE  leads'[q].consent = 0
     BY <4>1 DEF NoLead
   <4>2. ASSUME leads'[q] = [status |-> call[q].pc, chat |-> call[q].chat, sms |-> call[q].smsOk,
                             booked |-> call[q].booked, consent |-> call[q].consent]
         PROVE  leads'[q].consent = call[q].consent
     BY <4>2
   <4>3. leads'[q] # leads[q] => leads'[q].consent = call[q].consent \/ leads'[q].consent = 0
     BY <1>2, <4>1, <4>2, LeadChanges, Zenon
   <4> QED BY <4>3
  <3> QED BY <2>0, <3>1, <3>2, <3>3
 <2>6. ASSUME NEW tk \in tokens'  PROVE tk.at <= clock' /\ tk.n <= Len(codes'[tk.table])
  <3>0. tk \in Token BY <2>0 DEF Steady
  <3>1. CASE tk \in tokens
   <4>1. tk.at <= clock /\ tk.n <= Len(codes[tk.table]) /\ tk.at \in Nat /\ tk.n \in Nat /\ tk.table \in Tables
     BY <3>0, <3>1 DEF Ranges, Token
   <4> QED BY <2>0, <4>1
  <3>2. CASE tk \notin tokens
   <4>1. tk.at = clock BY <1>2, <3>2, TokenChanges
   <4>2. tk.n = 0 \/ tk.n <= Len(codes[tk.table])
    <5>1. ASSUME NEW q \in Calls, Grant(q)
          PROVE  call[q].n <= Len(codes[call[q].table])
     <6>1. call[q].pc = "grant" /\ call[q].table \in Tables BY <5>1, GrantEffect DEF Proceeds, Types, Local
     <6> QED BY <2>0, <6>1 DEF Holding, Verifying
    <5> QED BY <1>2, <3>2, <5>1, TokenChanges
   <4>3. tk.table \in Tables /\ tk.n \in Nat BY <3>0 DEF Token
   <4> QED BY <2>0, <4>1, <4>2, <4>3
  <3> QED BY <3>1, <3>2
 <2> QED BY <2>1, <2>2, <2>3, <2>4, <2>5, <2>6 DEF Ranges
<1> QED BY <1>1, <1>2

\* The state predicates of the proof imply the type invariant the run checks.
LEMMA TypesAreOk ==
  ASSUME Types, Holding, Ranges
  PROVE  TypeOK
<1>0. clock \in 0 .. Horizon /\ plan \in Plans /\ pending \subseteq Calls /\ pref \in [Chats -> Channels]
  BY SettingsAssumption DEF Types, Ranges
<1>1. ASSUME NEW t \in Tables, NEW i \in DOMAIN codes[t]
      PROVE  codes[t][i] \in [addr : Addrs, at : 0 .. clock, tries : Nat, used : BOOLEAN, by : Calls]
 <2>1. codes[t][i] \in CodeRow /\ i \in 1 .. Len(codes[t]) BY DEF Types
 <2> QED BY <1>0, <2>1 DEF CodeRow, Ranges
<1>2. ASSUME NEW i \in DOMAIN consents
      PROVE  consents[i] \in [chat : Chats \cup {None}, addr : Addrs \cup {None}, at : 0 .. clock,
                              verified : BOOLEAN, lead : Calls \cup {None}]
 <2>1. consents[i] \in ConsentRecord /\ i \in 1 .. Len(consents) BY DEF Types
 <2> QED BY <1>0, <2>1 DEF ConsentRecord, Ranges
<1>3. ASSUME NEW c \in Chats, NEW k \in Kinds
      PROVE  flow[c][k] \in [state : FlowStates, addr : Addrs \cup {None},
                             proven : Addrs \cup {None}, at : 0 .. clock]
 <2>1. flow[c][k] \in FlowRow BY DEF Types, FlowMap
 <2> QED BY <1>0, <2>1 DEF FlowRow, Ranges
<1>4. ASSUME NEW q \in Calls
      PROVE  /\ leads[q] \in [status : Statuses \cup {"none", "rejected"}, chat : Chats \cup {None},
                              sms : BOOLEAN, booked : BOOLEAN, consent : 0 .. Len(consents)]
             /\ call[q].op \in Ops /\ call[q].table \in Tables /\ call[q].pc \in Pcs
             /\ call[q].since \subseteq Calls /\ call[q].consent \in 0 .. Len(consents)
 <2>1. leads[q] \in LeadRow /\ Len(consents) \in Nat BY DEF Types
 <2>2. leads[q].consent \in 0 .. Len(consents) BY <2>1 DEF LeadRow, Ranges
 <2>3. call[q] \in Local BY DEF Types
 <2>4. call[q].consent \in 0 .. Len(consents) BY <2>1, <2>3 DEF Local, Holding
 <2>5. leads[q] \in [status : Statuses \cup {"none", "rejected"}, chat : Chats \cup {None},
                     sms : BOOLEAN, booked : BOOLEAN, consent : 0 .. Len(consents)]
   BY <2>1, <2>2 DEF LeadRow
 <2> QED BY <2>3, <2>4, <2>5 DEF Local
<1>5. ASSUME NEW tk \in tokens
      PROVE  /\ tk.table \in Tables /\ tk.addr \in Addrs /\ tk.by \in Calls
             /\ tk.n \in 0 .. Len(codes[tk.table]) /\ tk.at <= clock
 <2>1. tk \in Token BY DEF Types
 <2>2. Len(codes[tk.table]) \in Nat BY <2>1 DEF Token, Types
 <2> QED BY <2>1, <2>2 DEF Token, Ranges
<1> QED BY <1>0, <1>1, <1>2, <1>3, <1>4, <1>5 DEF TypeOK

\* For any plans, addresses, chats and requests, every variable keeps its type and
\* every code, consent and lead points to what exists (the rows of LeadService,
\* BookingService and ChatFlowService).
THEOREM TypesHold == Spec => []TypeOK
<1> DEFINE Inv == Types /\ Begun /\ Holding /\ Ranges
<1>1. Init => Inv BY InitTypes, InitHolds
<1>2. Inv /\ [Next]_vars => Inv' BY SmallStep, RangesStep
<1>3. Inv => TypeOK BY TypesAreOk
<1> QED BY <1>1, <1>2, <1>3, PTL DEF Spec
--------------------
(* ProvenPhones: whatever counts as a proof goes back to a code that was
   sent and given back. *)
\* What a call typed is 0 or a code that reached somebody; a call that passed
\* the comparison typed the code it found, and one past MarkUsed has used it.
Guesses ==
  \A q \in Calls :
    /\ call[q].typed # 0 => /\ call[q].typed \in 1 .. Len(codes[call[q].table])
                            /\ sent[codes[call[q].table][call[q].typed].by] # "none"
    /\ call[q].pc \in {"use", "grant"} => call[q].typed = call[q].n
    /\ call[q].pc = "grant" => codes[call[q].table][call[q].n].used
\* A used code was typed by a verification for its address.
UsedCodes ==
  \A t \in Tables : \A i \in 1 .. Len(codes[t]) :
    codes[t][i].used =>
      sent[codes[t][i].by] # "none" /\ \E q \in Calls : /\ call[q].op = "verify" /\ call[q].table = t
                       /\ call[q].typed = i /\ call[q].addr = codes[t][i].addr /\ call[q].pc # "new"
ProvenTokens ==
  \A tk \in tokens : IF tk.n = 0 THEN VerifiedBySms(tk.addr)
                     ELSE codes[tk.table][tk.n].used /\ codes[tk.table][tk.n].addr = tk.addr
ProvenFlows ==
  \A c \in Chats, k \in Kinds :
    /\ flow[c][k].proven # None => VerifiedBySms(flow[c][k].proven)
    /\ flow[c][k].state = "OTP_VERIFIED" => \E t \in Tables, a \in Addrs : Verified(t, a)
\* A lead is not written before its call ends, and a call takes to the delivery
\* what it showed.
ProvenLeads ==
  \A q \in Calls :
    /\ call[q].pc \notin Over => leads[q] = NoLead
    /\ call[q].pc \in Delivering /\ call[q].smsOk /\ ~call[q].booked => VerifiedBySms(call[q].addr)
    /\ leads[q].sms /\ ~leads[q].booked => VerifiedBySms(call[q].addr)
Proofs == Guesses /\ UsedCodes /\ ProvenTokens /\ ProvenFlows /\ ProvenLeads

\* Verified and VerifiedBySms in the next state.
Reverified(t, a) == \E i \in DOMAIN codes'[t] : codes'[t][i].addr = a /\ codes'[t][i].used
ReverifiedBySms(a) == \E t \in Sms : Reverified(t, a)

\* A verified address stays verified.
LEMMA VerifiedStays ==
  ASSUME Types, Steady
  PROVE  /\ \A t \in Tables, a \in Addrs : Verified(t, a) => Reverified(t, a)
         /\ \A a \in Addrs : VerifiedBySms(a) => ReverifiedBySms(a)
<1>1. ASSUME NEW t \in Tables, NEW a, Verified(t, a)  PROVE Reverified(t, a)
 <2>1. /\ DOMAIN codes[t] = 1 .. Len(codes[t]) /\ DOMAIN codes'[t] = 1 .. Len(codes'[t])
       /\ Len(codes[t]) \in Nat /\ Len(codes'[t]) \in Nat /\ Len(codes[t]) <= Len(codes'[t])
   BY DEF Types, Steady, CodesGrow
 <2>2. PICK i \in 1 .. Len(codes[t]) : codes[t][i].addr = a /\ codes[t][i].used BY <1>1, <2>1 DEF Verified
 <2>3. i \in 1 .. Len(codes'[t]) /\ codes'[t][i].addr = a /\ codes'[t][i].used BY <2>1, <2>2 DEF Steady, CodesGrow
 <2> QED BY <2>1, <2>3 DEF Reverified
<1>2. Sms \subseteq Tables BY DEF Tables
<1> QED BY <1>1, <1>2 DEF VerifiedBySms, ReverifiedBySms

\* A code that was given back by SMS proves its address.
LEMMA UsedVerifies ==
  ASSUME Types, NEW t \in Tables, NEW i \in 1 .. Len(codes[t]), codes[t][i].used
  PROVE  /\ Verified(t, codes[t][i].addr) /\ codes[t][i].addr \in Addrs
         /\ t \in Sms => VerifiedBySms(codes[t][i].addr)
<1>1. DOMAIN codes[t] = 1 .. Len(codes[t]) /\ codes[t][i] \in CodeRow BY DEF Types
<1> QED BY <1>1 DEF Verified, VerifiedBySms, CodeRow

\* Nothing is proven at the start.
LEMMA InitProofs == Init => Proofs
<1> SUFFICES ASSUME Init  PROVE Proofs OBVIOUS
<1>1. /\ \A q \in Calls : call[q].pc = "new" /\ call[q].typed = 0 /\ ~call[q].smsOk
      /\ \A t \in Tables : Len(codes[t]) = 0
  BY DEF Init, Idle
<1>2. \A q \in Calls : leads[q] = NoLead /\ ~leads[q].sms BY DEF Init, NoLead
<1>3. tokens = {} /\ \A c \in Chats, k \in Kinds : flow[c][k].proven = None /\ flow[c][k].state = "none"
  BY DEF Init, NoFlow
<1>4. "new" \notin Delivering /\ "new" \notin {"use", "grant"} BY PcFacts DEF Delivering
<1>5. Guesses BY <1>1, <1>4 DEF Guesses
<1>6. UsedCodes BY <1>1 DEF UsedCodes
<1> QED BY <1>1, <1>2, <1>3, <1>4, <1>5, <1>6 DEF Proofs, ProvenTokens, ProvenFlows, ProvenLeads

\* What a call typed stays a code that was sent.
LEMMA GuessesStep ==
  ASSUME Types, Begun, Holding, Proofs, Next, NEW q \in Calls
  PROVE  /\ call'[q].typed # 0 => /\ call'[q].typed \in 1 .. Len(codes'[call'[q].table])
                                  /\ sent'[codes'[call'[q].table][call'[q].typed].by] # "none"
         /\ call'[q].pc \in {"use", "grant"} => call'[q].typed = call'[q].n
         /\ call'[q].pc = "grant" => codes'[call'[q].table][call'[q].n].used
<1>0. /\ Steady /\ Guesses
      /\ \A t \in Tables : /\ Len(codes[t]) \in Nat /\ Len(codes'[t]) \in Nat /\ Len(codes[t]) <= Len(codes'[t])
                           /\ DOMAIN codes[t] = 1 .. Len(codes[t])
      /\ \A t \in Tables : \A i \in 1 .. Len(codes[t]) : codes[t][i].by \in Calls
      /\ call[q].table \in Tables /\ call'[q].table = call[q].table
 <2>1. Steady BY NextSteady
 <2>2. ASSUME NEW t \in Tables, NEW i \in 1 .. Len(codes[t])  PROVE codes[t][i].by \in Calls
  <3>1. codes[t][i] \in CodeRow BY DEF Types
  <3> QED BY <3>1 DEF CodeRow
 <2>3. call[q].table \in Tables BY DEF Types, Local
 <2> QED BY <2>1, <2>2, <2>3 DEF Steady, CodesGrow, CallsGoOn, Types, Proofs
<1> DEFINE t == call[q].table
<1>a. ASSUME NEW n \in 1 .. Len(codes[t]), sent[codes[t][n].by] # "none"
      PROVE  n \in 1 .. Len(codes'[t]) /\ sent'[codes'[t][n].by] # "none"
  BY <1>0, <1>a DEF Steady, CodesGrow, SentStays
<1>1. call'[q].typed # 0 => /\ call'[q].typed \in 1 .. Len(codes'[t])
                            /\ sent'[codes'[t][call'[q].typed].by] # "none"
 <2>1. CASE call'[q].typed = call[q].typed BY <1>0, <1>a, <2>1 DEF Guesses
 <2>2. CASE call'[q].typed # call[q].typed
  <3>1. PICK u \in Tables, c \in Chats, a \in Addrs : \E typed \in {0} \cup Received(u) :
          LookUp(q, u, c, a, typed) \/ LookUpBooking(q, u, c, a, typed)
    BY <2>2, CallKeeps
  <3>2. PICK typed \in {0} \cup Received(u) : LookUp(q, u, c, a, typed) \/ LookUpBooking(q, u, c, a, typed) BY <3>1
  <3>3. call[q].table = u /\ call'[q].typed = typed BY <3>2, LookUpEffect, LookUpBookingEffect DEF Looks
  <3>4. typed # 0 => typed \in 1 .. Len(codes[t]) /\ sent[codes[t][typed].by] # "none" BY <1>0, <3>3 DEF Received
  <3> QED BY <1>a, <3>3, <3>4
 <2> QED BY <2>1, <2>2
<1>2. CASE call'[q] = call[q]
 <2>1. ASSUME call[q].pc = "grant"  PROVE codes'[t][call[q].n].used
  <3>1. call[q].n \in 1 .. Len(codes[t]) BY <1>0, <2>1 DEF Holding, Verifying
  <3>2. codes[t][call[q].n].used BY <1>0, <2>1 DEF Guesses
  <3> QED BY <1>0, <3>1, <3>2 DEF Steady, CodesGrow
 <2> QED BY <1>0, <1>1, <1>2, <2>1 DEF Guesses
<1>3. CASE call'[q] # call[q]
 <2>1. call'[q].pc = "use" => call'[q].typed = call'[q].n
  <3>1. Try(q) /\ call'[q].pc = "use" => call'[q].typed = call'[q].n BY TryEffect DEF Kept
  <3>2. ASSUME NEW u \in Tables, NEW c \in Chats, NEW a \in Addrs, NEW typed \in {0} \cup Received(u),
               LookUpBooking(q, u, c, a, typed)
        PROVE  call'[q].typed = call'[q].n
    BY <3>2, LookUpBookingEffect, SMTT(30) DEF Looks
  <3> QED BY <1>3, <3>1, <3>2, Arrivals
 <2>2. ASSUME call'[q].pc = "grant"  PROVE call'[q].typed = call'[q].n /\ codes'[t][call'[q].n].used
  <3>1. MarkUsed(q) BY <1>3, <2>2, Arrivals
  <3>2. /\ Proceeds(q, "use", "grant") /\ codes'[t][call[q].n] = [codes[t][call[q].n] EXCEPT !.used = TRUE]
    BY <3>1, MarkUsedEffect, Zenon DEF CodeBecomes
  <3>3. codes[t][call[q].n] \in CodeRow BY <1>0, <3>2 DEF Proceeds, Holding, Verifying, Types
  <3> QED BY <1>0, <3>2, <3>3 DEF Proceeds, Kept, Same, Guesses, CodeRow
 <2> QED BY <1>0, <1>1, <2>1, <2>2
<1> QED BY <1>2, <1>3

\* A code that becomes used was typed by a verification for its address.
LEMMA UsedCodesStep ==
  ASSUME Types, Begun, Holding, Proofs, Next, NEW t \in Tables, NEW i \in 1 .. Len(codes'[t]),
         codes'[t][i].used
  PROVE  /\ sent'[codes'[t][i].by] # "none"
         /\ \E q \in Calls : /\ call'[q].op = "verify" /\ call'[q].table = t /\ call'[q].pc # "new"
                             /\ call'[q].typed = i /\ call'[q].addr = codes'[t][i].addr
<1>0. /\ Steady /\ Len(codes[t]) \in Nat /\ Guesses /\ UsedCodes BY NextSteady DEF Types, Proofs
<1>1. i \in 1 .. Len(codes[t])
 <2>1. ASSUME i > Len(codes[t])  PROVE FALSE
  <3>1. PICK q \in Calls :
          codes'[t][i] = [addr |-> call[q].addr, at |-> clock, tries |-> 0, used |-> FALSE, by |-> q]
    BY <2>1, CodeChanges
  <3> QED BY <3>1
 <2> QED BY <1>0, <2>1
<1>2. codes[t][i].by \in Calls /\ codes'[t][i].by = codes[t][i].by /\ codes'[t][i].addr = codes[t][i].addr
 <2>1. codes[t][i] \in CodeRow BY <1>1 DEF Types
 <2> QED BY <1>0, <1>1, <2>1 DEF CodeRow, Steady, CodesGrow
<1>3. ASSUME NEW q \in Calls, call[q].op = "verify", call[q].table = t, call[q].pc # "new",
             call[q].typed = i, call[q].addr = codes[t][i].addr
      PROVE  /\ call'[q].op = "verify" /\ call'[q].table = t /\ call'[q].pc # "new"
             /\ call'[q].typed = i /\ call'[q].addr = codes'[t][i].addr
  BY <1>0, <1>2, <1>3 DEF Steady, CallsGoOn, Kept
<1>4. CASE codes[t][i].used BY <1>0, <1>1, <1>2, <1>3, <1>4 DEF UsedCodes, Steady, SentStays
<1>5. CASE ~codes[t][i].used
 <2>1. PICK q \in Calls : MarkUsed(q) /\ call[q].table = t /\ call[q].n = i BY <1>0, <1>1, <1>5, CodeChanges
 <2>2. call[q].pc = "use" BY <2>1, MarkUsedEffect DEF Proceeds
 <2>3. call[q].typed = i /\ call[q].op = "verify" /\ call[q].addr = codes[t][i].addr
   BY <1>0, <2>1, <2>2 DEF Guesses, Holding, Verifying
 <2>4. sent[codes[t][i].by] # "none" BY <1>0, <1>1, <2>1, <2>3 DEF Guesses
 <2> QED BY <1>0, <1>2, <1>3, <2>1, <2>2, <2>3, <2>4 DEF Steady, SentStays
<1> QED BY <1>4, <1>5

\* What a step takes for proven goes back to a used code.
LEMMA ProvenStep ==
  ASSUME Types, Begun, Holding, Ranges, Proofs, Next
  PROVE  ProvenTokens' /\ ProvenFlows' /\ ProvenLeads'
<1>0. /\ Steady /\ ProvenTokens /\ ProvenFlows /\ ProvenLeads
      /\ \A t \in Tables, a \in Addrs : Verified(t, a) => Reverified(t, a)
      /\ \A a \in Addrs : VerifiedBySms(a) => ReverifiedBySms(a)
      /\ \A t \in Tables : Len(codes[t]) \in Nat
      /\ Sms \subseteq Tables
  BY NextSteady, VerifiedStays DEF Proofs, Types, Tables
\* What a call gives a token for.
<1>1. ASSUME NEW q \in Calls, Grant(q)
      PROVE  /\ call[q].table \in Tables /\ call[q].addr \in Addrs
             /\ call[q].n \in 1 .. Len(codes[call[q].table]) /\ codes[call[q].table][call[q].n].used
             /\ codes[call[q].table][call[q].n].addr = call[q].addr /\ Verified(call[q].table, call[q].addr)
             /\ call[q].table \in Sms => VerifiedBySms(call[q].addr)
 <2>1. call[q].pc = "grant" /\ call[q].table \in Tables BY <1>1, GrantEffect DEF Proceeds, Types, Local
 <2>2. /\ call[q].n \in 1 .. Len(codes[call[q].table]) /\ codes[call[q].table][call[q].n].used
       /\ codes[call[q].table][call[q].n].addr = call[q].addr
   BY <2>1 DEF Holding, Verifying, Proofs, Guesses
 <2> QED BY <2>1, <2>2, UsedVerifies
<1>2. ASSUME NEW c \in Chats, NEW a \in Addrs, Proven(c, a)  PROVE VerifiedBySms(a)
 <2>1. None \notin Addrs BY SettingsAssumption
 <2> QED BY <1>0, <1>2, <2>1 DEF Proven, ProvenFlows
<1>3. ASSUME NEW tk \in tokens'
      PROVE  IF tk.n = 0 THEN ReverifiedBySms(tk.addr)
             ELSE codes'[tk.table][tk.n].used /\ codes'[tk.table][tk.n].addr = tk.addr
 <2>0. tk.table \in Tables /\ tk.addr \in Addrs /\ tk.n \in Nat BY <1>0 DEF Steady, Token
 <2>a. ASSUME tk.n \in 1 .. Len(codes[tk.table]), codes[tk.table][tk.n].used,
              codes[tk.table][tk.n].addr = tk.addr
       PROVE  codes'[tk.table][tk.n].used /\ codes'[tk.table][tk.n].addr = tk.addr
   BY <1>0, <2>0, <2>a DEF Steady, CodesGrow
 <2>1. CASE tk \in tokens
  <3>1. tk.n # 0 => tk.n \in 1 .. Len(codes[tk.table]) BY <1>0, <2>0, <2>1 DEF Ranges
  <3> QED BY <1>0, <2>0, <2>1, <2>a, <3>1 DEF ProvenTokens
 <2>2. CASE tk \notin tokens
  <3>1. ASSUME NEW q \in Calls, Grant(q),
               tk = [table |-> call[q].table, addr |-> call[q].addr, n |-> call[q].n, at |-> clock, by |-> q]
        PROVE  tk.n # 0 /\ codes'[tk.table][tk.n].used /\ codes'[tk.table][tk.n].addr = tk.addr
   <4>1. tk.table = call[q].table /\ tk.addr = call[q].addr /\ tk.n = call[q].n BY <3>1
   <4> QED BY <1>0, <1>1, <2>0, <2>a, <3>1, <4>1
  <3>2. ASSUME tk.n = 0, NEW c \in Chats, Proven(c, tk.addr)  PROVE ReverifiedBySms(tk.addr) BY <1>0, <1>2, <2>0, <3>2
  <3> QED BY <2>2, <3>1, <3>2, TokenChanges
 <2> QED BY <2>1, <2>2
<1>4. ASSUME NEW c \in Chats, NEW k \in Kinds
      PROVE  /\ flow'[c][k].proven # None => ReverifiedBySms(flow'[c][k].proven)
             /\ flow'[c][k].state = "OTP_VERIFIED" => \E t \in Tables, a \in Addrs : Reverified(t, a)
 <2>0. flow[c][k].proven \in Addrs \cup {None} BY DEF Types, FlowMap, FlowRow
 <2>1. CASE flow'[c][k].proven = flow[c][k].proven
            /\ (flow'[c][k].state = "OTP_VERIFIED" => flow[c][k].state = "OTP_VERIFIED")
   BY <1>0, <2>0, <2>1 DEF ProvenFlows
 <2>2. ASSUME NEW q \in Calls, Grant(q),
              IF call[q].table \in Sms THEN flow'[c][k].proven = call[q].addr
                                       ELSE flow'[c][k].proven = flow[c][k].proven
       PROVE  /\ flow'[c][k].proven # None => ReverifiedBySms(flow'[c][k].proven)
              /\ \E t \in Tables, a \in Addrs : Reverified(t, a)
  <3>1. CASE call[q].table \in Sms BY <1>0, <1>1, <2>2, <3>1
  <3>2. CASE call[q].table \notin Sms BY <1>0, <1>1, <2>0, <2>2, <3>2 DEF ProvenFlows
  <3> QED BY <3>1, <3>2
 <2>3. CASE flow'[c][k] = flow[c][k] BY <2>1, <2>3
 <2>4. CASE flow'[c][k] # flow[c][k] BY <2>1, <2>2, <2>4, FlowChanges
 <2> QED BY <2>3, <2>4
<1>5. ASSUME NEW q \in Calls
      PROVE  /\ call'[q].pc \notin Over => leads'[q] = NoLead
             /\ call'[q].pc \in Delivering /\ call'[q].smsOk /\ ~call'[q].booked => ReverifiedBySms(call'[q].addr)
             /\ leads'[q].sms /\ ~leads'[q].booked => ReverifiedBySms(call'[q].addr)
 <2>0. /\ call[q].pc \in Over => call'[q].pc \in Over
       /\ call[q].pc # "new" => Kept(q)
       /\ call'[q].pc # "new" => call'[q].addr \in Addrs
       /\ call[q].pc # "new" => call[q].addr \in Addrs
       /\ "new" \notin Delivering
   BY <1>0, PcFacts DEF Steady, CallsGoOn, Begun, Delivering
 <2>1. call'[q].pc \notin Over => leads'[q] = NoLead
  <3>1. CASE leads'[q] = leads[q] BY <1>0, <2>0, <3>1 DEF ProvenLeads
  <3>2. CASE leads'[q] # leads[q]
   <4>1. RecordLead(q) => call'[q].pc = "done" BY RecordLeadEffect DEF Proceeds
   <4> QED BY <3>2, <4>1, LeadChanges DEF Over
  <3> QED BY <3>1, <3>2
 <2>2. ASSUME call'[q].pc \in Delivering, call'[q].smsOk, ~call'[q].booked
       PROVE  ReverifiedBySms(call'[q].addr)
  <3>1. CASE call[q].pc \in Delivering /\ Kept(q) BY <1>0, <2>0, <2>2, <3>1 DEF ProvenLeads, Kept
  <3>2. ASSUME NEW c \in Chats, NEW a \in Addrs, Submitted(q, c, a)  PROVE ReverifiedBySms(call'[q].addr)
   <4>1. SubmitMade(q, c, a) BY <3>2, SubmittedMade
   <4>2. Holds("leadSms", a) /\ call'[q].addr = a BY <2>2, <4>1 DEF SubmitMade, Begins
   <4>3. PICK tk \in tokens : tk.table = "leadSms" /\ tk.addr = a BY <4>2 DEF Holds
   <4>4. "leadSms" \in Sms BY DEF Sms
   <4>5. tk.n # 0 => tk.n \in 1 .. Len(codes[tk.table]) BY <1>0, <4>3, <4>4 DEF Ranges, Types, Token
   <4>6. VerifiedBySms(a) BY <1>0, <4>3, <4>4, <4>5, UsedVerifies DEF ProvenTokens
   <4> QED BY <1>0, <4>2, <4>6
  <3>3. CASE call'[q] = call[q] BY <2>0, <2>2, <3>1, <3>3
  <3>4. CASE Proceeds(q, "deliver", call'[q].pc) BY <3>1, <3>4 DEF Proceeds, Delivering
  <3> QED BY <2>2, <3>2, <3>3, <3>4, Arrivals
 <2>3. ASSUME leads'[q].sms, ~leads'[q].booked  PROVE ReverifiedBySms(call'[q].addr)
  <3>1. CASE leads'[q] = leads[q]
   <4>1. call[q].pc # "new" BY <1>0, <2>3, <3>1 DEF ProvenLeads, NoLead, Over
   <4> QED BY <1>0, <2>0, <2>3, <3>1, <4>1 DEF ProvenLeads, Kept
  <3>2. CASE leads'[q] # leads[q]
   <4>1. \A c \in Chats : ~[NoLead EXCEPT !.status = "rejected", !.chat = c].sms BY DEF NoLead
   <4>2. /\ RecordLead(q)
         /\ leads'[q] = [status |-> call[q].pc, chat |-> call[q].chat, sms |-> call[q].smsOk,
                         booked |-> call[q].booked, consent |-> call[q].consent]
    <5>1. ASSUME NEW c \in Chats, leads'[q] = [NoLead EXCEPT !.status = "rejected", !.chat = c]
          PROVE  FALSE
      BY <2>3, <4>1, <5>1
    <5> QED BY <3>2, <5>1, LeadChanges, Zenon
   <4>3. call[q].smsOk /\ ~call[q].booked BY <2>3, <4>2
   <4>4. call[q].pc \in Delivering /\ call[q].pc # "new" BY <2>0, <4>2, RecordLeadEffect DEF Delivering
   <4> QED BY <1>0, <2>0, <4>3, <4>4 DEF ProvenLeads, Kept
  <3> QED BY <3>1, <3>2
 <2> QED BY <2>1, <2>2, <2>3
<1> QED
  BY <1>3, <1>4, <1>5 DEF ProvenTokens, ProvenFlows, ProvenLeads, VerifiedBySms, Verified,
     ReverifiedBySms, Reverified

\* Proofs is kept by every step.
LEMMA ProofsStep ==
  ASSUME Types, Begun, Holding, Ranges, Proofs, [Next]_vars
  PROVE  Proofs'
<1>1. CASE UNCHANGED vars
  BY <1>1 DEF vars, Proofs, Guesses, UsedCodes, ProvenTokens, ProvenFlows, ProvenLeads, VerifiedBySms, Verified
<1>2. CASE Next
 <2>1. Guesses' BY <1>2, GuessesStep DEF Guesses
 <2>2. UsedCodes' BY <1>2, UsedCodesStep DEF UsedCodes
 <2> QED BY <1>2, <2>1, <2>2, ProvenStep DEF Proofs
<1> QED BY <1>1, <1>2

\* Proofs implies the invariant the run checks.
LEMMA ProofsProve ==
  ASSUME Types, Proofs
  PROVE  ProvenPhones
<1>1. \A t \in Tables : DOMAIN codes[t] = 1 .. Len(codes[t]) BY DEF Types
<1>2. ASSUME NEW t \in Tables, NEW i \in DOMAIN codes[t], codes[t][i].used
      PROVE  sent[codes[t][i].by] # "none" /\ \E q \in Calls : /\ call[q].op = "verify" /\ call[q].table = t
                          /\ call[q].typed = i /\ call[q].addr = codes[t][i].addr
  BY <1>1, <1>2 DEF Proofs, UsedCodes
<1> QED BY <1>2 DEF Proofs, ProvenTokens, ProvenFlows, ProvenLeads, ProvenPhones

\* LeadsCarryConsent: what a delivery and a lead say about their consent.
Carrying ==
  \A q \in Calls :
    /\ bot.gate /\ call[q].pc \in Delivering /\ ~call[q].booked =>
         call[q].consent # 0 /\ consents[call[q].consent].chat = call[q].chat
    /\ bot.gate /\ leads[q].status \in Statuses /\ ~leads[q].booked =>
         /\ leads[q].consent # 0 /\ consents[leads[q].consent].chat = leads[q].chat /\ leads[q].chat \in Chats

\* Carrying holds at the start.
LEMMA InitCarrying == Init => Carrying
<1> SUFFICES ASSUME Init  PROVE Carrying OBVIOUS
<1>1. \A q \in Calls : call[q].pc = "new" /\ leads[q].status = "none" BY DEF Init, Idle, NoLead
<1> QED BY <1>1, PcFacts DEF Carrying, Delivering

\* A lead under way keeps the consent the gate found.
LEMMA CarryingStep ==
  ASSUME Types, Begun, Holding, Ranges, Carrying, [Next]_vars
  PROVE  Carrying'
<1>1. CASE UNCHANGED vars BY <1>1 DEF vars, Carrying, bot
<1>2. CASE Next
 <2>0. /\ Steady /\ bot' = bot /\ None \notin Chats /\ Len(consents) \in Nat
       /\ \A q \in Calls : /\ call[q].chat \in Chats /\ call[q].consent \in Nat /\ leads[q].consent \in Nat
                           /\ call[q].consent <= Len(consents) /\ leads[q].consent <= Len(consents)
  <3>1. Steady BY <1>2, NextSteady
  <3>2. \A q \in Calls : call[q] \in Local /\ leads[q] \in LeadRow BY DEF Types
  <3>3. bot' = bot BY <3>1 DEF Steady, bot
  <3>4. \A q \in Calls : /\ call[q].consent <= Len(consents) /\ leads[q].consent <= Len(consents)
    BY DEF Holding, Ranges
  <3>5. \A q \in Calls : call[q].chat \in Chats /\ call[q].consent \in Nat BY <3>2 DEF Local
  <3>6. \A q \in Calls : leads[q].consent \in Nat BY <3>2 DEF LeadRow
  <3>7. Len(consents) \in Nat BY DEF Types
  <3> QED BY <3>1, <3>3, <3>4, <3>5, <3>6, <3>7, SettingsAssumption
 <2>1. ASSUME NEW k \in Nat, k # 0, k <= Len(consents), NEW c \in Chats, consents[k].chat = c
       PROVE  consents'[k].chat = c
   BY <2>0, <2>1 DEF Steady, ConsentsStay
 <2>2. ASSUME NEW q \in Calls, bot.gate, call'[q].pc \in Delivering, ~call'[q].booked
       PROVE  call'[q].consent # 0 /\ consents'[call'[q].consent].chat = call'[q].chat
  <3>1. CASE /\ call[q].pc \in Delivering /\ call'[q].consent = call[q].consent
             /\ call'[q].booked = call[q].booked /\ call'[q].chat = call[q].chat
    BY <2>0, <2>1, <2>2, <3>1 DEF Carrying
  <3>2. CASE call'[q] = call[q] BY <2>2, <3>1, <3>2
  <3>3. CASE Proceeds(q, "deliver", call'[q].pc) BY <3>1, <3>3 DEF Proceeds, Kept, Same, Delivering
  <3>4. ASSUME NEW c \in Chats, NEW a \in Addrs, Submitted(q, c, a)
        PROVE  call'[q].consent # 0 /\ consents'[call'[q].consent].chat = call'[q].chat
   <4>1. SubmitMade(q, c, a) BY <3>4, SubmittedMade
   <4>2. call'[q].pc = "deliver" BY <2>2, <4>1, PcFacts DEF SubmitMade, Delivering
   <4>3. call'[q].chat = c BY <4>1 DEF SubmitMade, Begins
   <4> QED BY <2>2, <4>1, <4>2, <4>3 DEF SubmitMade
  <3> QED BY <1>2, <2>2, <3>2, <3>3, <3>4, Arrivals
 <2>3. ASSUME NEW q \in Calls, bot.gate, leads'[q].status \in Statuses, ~leads'[q].booked
       PROVE  /\ leads'[q].consent # 0 /\ consents'[leads'[q].consent].chat = leads'[q].chat
              /\ leads'[q].chat \in Chats
  <3>1. CASE leads'[q] = leads[q] BY <2>0, <2>1, <2>3, <3>1 DEF Carrying
  <3>2. CASE leads'[q] # leads[q]
   <4>1. ASSUME NEW c \in Chats, leads'[q] = [NoLead EXCEPT !.status = "rejected", !.chat = c]
         PROVE  FALSE
     BY <2>3, <4>1, PcFacts DEF NoLead
   <4>2. /\ RecordLead(q)
         /\ leads'[q] = [status |-> call[q].pc, chat |-> call[q].chat, sms |-> call[q].smsOk,
                         booked |-> call[q].booked, consent |-> call[q].consent]
     BY <1>2, <3>2, <4>1, LeadChanges, Zenon
   <4>3. call[q].pc \in Delivering /\ ~call[q].booked BY <2>3, <4>2 DEF Delivering
   <4>4. call[q].consent # 0 /\ consents[call[q].consent].chat = call[q].chat BY <2>3, <4>3 DEF Carrying
   <4> QED BY <2>0, <2>1, <4>2, <4>4
  <3> QED BY <3>1, <3>2
 <2> QED BY <2>0, <2>2, <2>3 DEF Carrying
<1> QED BY <1>1, <1>2

\* Carrying implies the invariant the run checks.
LEMMA CarryingCarries ==
  ASSUME Carrying
  PROVE  LeadsCarryConsent
BY DEF Carrying, LeadsCarryConsent

\* In every instance a phone is trusted only after a code sent to it came back
\* (verifySmsCode, verifyCode, BookingService.verify, getVerifiedPhoneForChat), and
\* a lead that passed the consent gate of LeadService.submit carries a consent
\* given in its own conversation.
THEOREM PhonesAreProven == Spec => []ProvenPhones /\ []LeadsCarryConsent
<1> DEFINE Inv == Types /\ Begun /\ Holding /\ Ranges /\ Proofs /\ Carrying
<1>1. Init => Inv BY InitTypes, InitHolds, InitProofs, InitCarrying
<1>2. Inv /\ [Next]_vars => Inv' BY SmallStep, RangesStep, ProofsStep, CarryingStep
<1>3. Inv => ProvenPhones /\ LeadsCarryConsent BY ProofsProve, CarryingCarries
<1> QED BY <1>1, <1>2, <1>3, PTL DEF Spec
--------------------
(* Remembered: a phone proven for a lead stays with the flow of its chat. *)
\* The fields of a consent: its address is set by Issue, its mark by Grant, its
\* chat once.
LEMMA ConsentFields ==
  ASSUME Types, Begun, Holding, Next, NEW i \in 1 .. Len(consents')
  PROVE  /\ i > Len(consents) =>
              \E c \in Chats \cup {None} : consents'[i] = ConsentRow(c) /\ flow' = ConsentOk(flow, c)
         /\ i <= Len(consents) =>
              /\ \/ consents'[i].addr = consents[i].addr
                 \/ \E q \in Calls : /\ Issue(q) /\ call[q].consent = i
                                     /\ consents'[i].addr = call[q].addr
              /\ \/ consents'[i].verified = consents[i].verified
                 \/ \E q \in Calls : Grant(q) /\ Marks(q) = i
              /\ \/ consents'[i].chat = consents[i].chat
                 \/ \E c \in Chats : /\ consents[i].chat = None /\ consents'[i].chat = c
                                     /\ flow' = ConsentOk(flow, c)
<1> DEFINE New == \E c \in Chats \cup {None} : consents'[i] = ConsentRow(c) /\ flow' = ConsentOk(flow, c)
           SameAddr == consents'[i].addr = consents[i].addr
           SameMark == consents'[i].verified = consents[i].verified
           SameChat == consents'[i].chat = consents[i].chat
<1>0. consents \in Seq(ConsentRecord) /\ Len(consents) \in Nat
      /\ (i <= Len(consents) => i \in 1 .. Len(consents) /\ consents[i] \in ConsentRecord)
 <2>1. consents \in Seq(ConsentRecord) /\ Len(consents) \in Nat BY DEF Types
 <2> QED BY <2>1
<1>1. ASSUME consents' = consents
      PROVE  i <= Len(consents) /\ SameAddr /\ SameMark /\ SameChat
  BY <1>0, <1>1
<1>2. ASSUME NEW c \in Chats \cup {None}, Consents(c)
      PROVE  /\ i > Len(consents) => New
             /\ i <= Len(consents) =>
                  /\ SameAddr /\ SameMark
                  /\ SameChat \/ (consents[i].chat = None /\ consents'[i].chat = c /\ flow' = ConsentOk(flow, c))
 <2>1. ConsentMade(c) BY <1>2, ConsentSteps
 <2>2. ASSUME i <= Len(consents), consents'[i] = [consents[i] EXCEPT !.chat = c]
       PROVE  SameAddr /\ SameMark /\ consents'[i].chat = c
   BY <1>0, <2>2 DEF ConsentRecord
 <2> QED BY <1>0, <2>1, <2>2 DEF ConsentMade
<1>3. ASSUME NEW q \in Calls, Issue(q)
      PROVE  /\ i <= Len(consents) /\ SameMark /\ SameChat
             /\ SameAddr \/ (call[q].consent = i /\ consents'[i].addr = call[q].addr)
 <2>1. consents' = IF call[q].consent = 0 THEN consents
                   ELSE [consents EXCEPT ![call[q].consent].addr = call[q].addr]
   BY <1>3, IssueEffect
 <2>2. CASE call[q].consent = 0 BY <1>1, <2>1, <2>2
 <2>3. CASE call[q].consent # 0
  <3>1. call[q].consent \in 1 .. Len(consents) BY <1>0, <2>3 DEF Holding, Types, Local
  <3>2. Len(consents') = Len(consents) BY <1>0, <2>1, <2>3
  <3>3. consents[i] \in ConsentRecord /\ i \in 1 .. Len(consents) /\ i <= Len(consents) BY <1>0, <3>2
  <3>4. CASE call[q].consent = i
   <4>1. consents'[i] = [consents[i] EXCEPT !.addr = call[q].addr] BY <1>0, <2>1, <2>3, <3>3, <3>4
   <4> QED BY <3>3, <3>4, <4>1 DEF ConsentRecord
  <3>5. CASE call[q].consent # i
   <4>1. consents'[i] = consents[i] BY <1>0, <2>1, <2>3, <3>3, <3>5
   <4> QED BY <3>3, <4>1
  <3> QED BY <3>4, <3>5
 <2> QED BY <2>2, <2>3
<1>4. ASSUME NEW q \in Calls, Grant(q)
      PROVE  i <= Len(consents) /\ SameAddr /\ SameChat /\ (SameMark \/ Marks(q) = i)
 <2>1. Marks(q) \in 0 .. Len(consents) BY MarksFacts
 <2>2. CASE Marks(q) = 0 BY <1>1, <1>4, <2>2, GrantEffect
 <2>3. CASE Marks(q) # 0
  <3>1. ConsentBecomes(Marks(q), [consents[Marks(q)] EXCEPT !.verified = TRUE]) BY <1>4, <2>3, GrantEffect
  <3>2. i \in 1 .. Len(consents) /\ i <= Len(consents) /\ consents[i] \in ConsentRecord
    BY <1>0, <3>1 DEF ConsentBecomes
  <3>3. CASE Marks(q) = i
   <4>1. consents'[i] = [consents[i] EXCEPT !.verified = TRUE] BY <3>1, <3>3 DEF ConsentBecomes
   <4> QED BY <3>2, <3>3, <4>1 DEF ConsentRecord
  <3>4. CASE Marks(q) # i
   <4>1. consents'[i] = consents[i] BY <3>1, <3>2, <3>4 DEF ConsentBecomes
   <4> QED BY <3>2, <4>1
  <3> QED BY <3>3, <3>4
 <2> QED BY <2>2, <2>3
<1>5. ASSUME NEW q \in Calls, RecordLead(q)
      PROVE  i <= Len(consents) /\ SameAddr /\ SameChat /\ SameMark
 <2>1. CASE call[q].consent = 0 BY <1>1, <1>5, <2>1, RecordLeadEffect
 <2>2. CASE call[q].consent # 0
  <3>1. /\ ConsentBecomes(call[q].consent, [consents[call[q].consent] EXCEPT !.lead = q])
    BY <1>5, <2>2, RecordLeadEffect
  <3>2. i \in 1 .. Len(consents) /\ i <= Len(consents) /\ consents[i] \in ConsentRecord
    BY <1>0, <3>1 DEF ConsentBecomes
  <3>3. CASE call[q].consent = i
   <4>1. consents'[i] = [consents[i] EXCEPT !.lead = q] BY <3>1, <3>3 DEF ConsentBecomes
   <4> QED BY <3>2, <4>1 DEF ConsentRecord
  <3>4. CASE call[q].consent # i
   <4>1. consents'[i] = consents[i] BY <3>1, <3>2, <3>4 DEF ConsentBecomes
   <4> QED BY <3>2, <4>1
  <3> QED BY <3>3, <3>4
 <2> QED BY <2>1, <2>2
<1>6. ASSUME NEW q \in Calls, NoteSent(q) \/ Try(q) \/ MarkUsed(q)  PROVE consents' = consents
  BY <1>6, NoteSentEffect, TryEffect, MarkUsedEffect
<1>7. UNCHANGED rows \/ (\E c \in Chats : Book(c)) => consents' = consents BY BookEffect DEF rows
<1>8. i <= Len(consents) => ~(i > Len(consents)) BY <1>0
<1>9. \/ consents' = consents
      \/ \E c \in Chats \cup {None} : Consents(c)
      \/ \E q \in Calls : Issue(q) \/ Grant(q) \/ RecordLead(q)
  BY <1>6, <1>7, Writers
<1>10. ASSUME NEW c \in Chats \cup {None}, Consents(c), i <= Len(consents)
       PROVE  /\ SameAddr /\ SameMark
              /\ SameChat \/ \E d \in Chats : /\ consents[i].chat = None /\ consents'[i].chat = d
                                              /\ flow' = ConsentOk(flow, d)
 <2>1. CASE SameChat BY <1>2, <1>10, <2>1
 <2>2. CASE ~SameChat
  <3>1. consents[i].chat = None /\ consents'[i].chat = c /\ flow' = ConsentOk(flow, c) BY <1>2, <1>10, <2>2
  <3>2. c \in Chats BY <2>2, <3>1
  <3> QED BY <1>2, <1>10, <3>1, <3>2
 <2> QED BY <2>1, <2>2
<1> HIDE DEF New, SameAddr, SameMark, SameChat
<1>11. /\ i > Len(consents) => New
       /\ i <= Len(consents) =>
            /\ SameAddr \/ \E q \in Calls : Issue(q) /\ call[q].consent = i /\ consents'[i].addr = call[q].addr
            /\ SameMark \/ \E q \in Calls : Grant(q) /\ Marks(q) = i
            /\ SameChat \/ \E d \in Chats : /\ consents[i].chat = None /\ consents'[i].chat = d
                                            /\ flow' = ConsentOk(flow, d)
  BY <1>1, <1>2, <1>3, <1>4, <1>5, <1>8, <1>9, <1>10, Zenon
<1> QED BY <1>11 DEF New, SameAddr, SameMark, SameChat

\* A call that begins notes who has ended.
LEMMA SinceBegun ==
  ASSUME Types, Begun, Holding, Next, NEW p \in Calls, call[p].pc = "new", call'[p].pc # "new"
  PROVE  call'[p].since = Ended
<1>1. ASSUME NEW m \in Calls, Callback(p, m)  PROVE call'[p].since = Ended BY <1>1, CallbackEffect DEF Begins
<1>2. ASSUME NEW c \in Chats, NEW a \in Addrs, NEW t \in Tables, RequestCode(p, t, c, a)
      PROVE  call'[p].since = Ended
  BY <1>2, RequestCodeEffect DEF Begins
<1>3. ASSUME NEW c \in Chats, NEW a \in Addrs, NEW t \in Tables, NEW typed \in {0} \cup Received(t),
             LookUp(p, t, c, a, typed) \/ LookUpBooking(p, t, c, a, typed)
      PROVE  call'[p].since = Ended
  BY <1>3, LookUpEffect, LookUpBookingEffect DEF Looks, Begins
<1>4. ASSUME NEW c \in Chats, NEW a \in Addrs, Submitted(p, c, a)  PROVE call'[p].since = Ended
 <2>1. SubmitMade(p, c, a) BY <1>4, SubmittedMade
 <2> QED BY <2>1 DEF SubmitMade, Begins
<1>5. ~(Issue(p) \/ Send(p) \/ NoteSent(p) \/ Claim(p) \/ Try(p) \/ MarkUsed(p))
  BY IssueEffect, SendEffect, NoteSentEffect, ClaimEffect, TryEffect, MarkUsedEffect DEF Proceeds
<1>6. ~(Grant(p) \/ RecordLead(p) \/ Die(p) \/ \E status \in Statuses : Deliver(p, status))
  BY GrantEffect, RecordLeadEffect, DieEffect, DeliverEffect, PcFacts DEF Proceeds
<1> QED BY <1>1, <1>2, <1>3, <1>4, <1>5, <1>6, OwnSteps

\* A call goes on with a consent of its own chat.
Linked(q) == call[q].consent # 0 /\ consents[call[q].consent].chat = call[q].chat
\* Who is noted to have ended has; who noted that a code was sent has ended; and
\* a lead's code is asked for on a consent, where the owner wants one.
Requests ==
  \A q \in Calls :
    /\ \A r \in call[q].since : call[r].pc \in Over
    /\ call[q].noted => call[q].pc \in Over
    /\ call[q].pc = "issue" /\ call[q].consent # 0 => call[q].table = "leadSms" /\ bot.kvkk
    /\ bot.kvkk /\ call[q].table = "leadSms" /\ (call[q].pc \in {"issue", "send", "flow"} \/ call[q].noted) =>
         Linked(q)
\* The request behind a code has passed Issue, where its consent got the phone.
Rows ==
  \A j \in 1 .. Len(codes["leadSms"]) :
    LET r == codes["leadSms"][j].by
    IN /\ call[r].pc \notin {"new", "claim", "issue"} /\ call[r].table = "leadSms"
       /\ bot.kvkk => Linked(r) /\ consents[call[r].consent].addr # None
\* A consent's phone was sent a code in the consent's chat.
Asks(c, a) == \E j \in 1 .. Len(codes["leadSms"]) :
                codes["leadSms"][j].addr = a /\ call[codes["leadSms"][j].by].chat = c
Phones ==
  \A i \in 1 .. Len(consents) :
    consents[i].addr # None => consents[i].chat # None /\ Asks(consents[i].chat, consents[i].addr)
Memory == Requests /\ Rows /\ Phones

\* Memory holds at the start.
LEMMA InitMemory == Init => Memory
<1> SUFFICES ASSUME Init  PROVE Memory OBVIOUS
<1>1. /\ \A q \in Calls : call[q].pc = "new" /\ call[q].since = {} /\ call[q].noted = FALSE
      /\ Len(consents) = 0 /\ \A t \in Tables : Len(codes[t]) = 0
  BY DEF Init, Idle
<1>2. "leadSms" \in Tables BY DEF Tables, Sms
<1>3. Requests BY <1>1 DEF Requests
<1> QED BY <1>1, <1>2, <1>3 DEF Memory, Rows, Phones

\* What a step keeps of codes, consents and calls, for the lemmas below.
LEMMA Kept1 ==
  ASSUME Types, Begun, Holding, Memory, Next
  PROVE  /\ Steady /\ bot' = bot /\ None \notin Chats /\ None \notin Addrs /\ "leadSms" \in Tables
         /\ Len(consents) \in Nat /\ Len(consents') \in Nat /\ Len(consents) <= Len(consents')
         /\ Len(codes["leadSms"]) \in Nat /\ Len(codes'["leadSms"]) \in Nat
         /\ Len(codes["leadSms"]) <= Len(codes'["leadSms"])
         /\ \A j \in 1 .. Len(codes["leadSms"]) :
              /\ codes'["leadSms"][j].by = codes["leadSms"][j].by
              /\ codes'["leadSms"][j].addr = codes["leadSms"][j].addr
              /\ codes["leadSms"][j].by \in Calls /\ codes["leadSms"][j].addr \in Addrs
         /\ \A q \in Calls : /\ call[q].chat \in Chats /\ call'[q].chat = call[q].chat
                             /\ call'[q].table = call[q].table
                             /\ call[q].consent \in Nat /\ call[q].consent <= Len(consents)
         /\ \A i \in 1 .. Len(consents) :
              /\ consents[i].chat # None => consents'[i].chat = consents[i].chat
              /\ consents[i].chat \in Chats \cup {None} /\ consents[i].addr \in Addrs \cup {None}
<1>1. Steady BY NextSteady
<1>2. bot' = bot BY <1>1 DEF Steady, bot
<1>3. "leadSms" \in Tables BY DEF Tables, Sms
<1>4. ASSUME NEW j \in 1 .. Len(codes["leadSms"])
      PROVE  codes["leadSms"][j].by \in Calls /\ codes["leadSms"][j].addr \in Addrs
 <2>1. codes["leadSms"][j] \in CodeRow BY <1>3 DEF Types
 <2> QED BY <2>1 DEF CodeRow
<1>5. ASSUME NEW i \in 1 .. Len(consents)
      PROVE  consents[i].chat \in Chats \cup {None} /\ consents[i].addr \in Addrs \cup {None}
 <2>1. consents[i] \in ConsentRecord BY DEF Types
 <2> QED BY <2>1 DEF ConsentRecord
<1>6. ASSUME NEW q \in Calls
      PROVE  call[q].chat \in Chats /\ call[q].consent \in Nat /\ call[q].consent <= Len(consents)
  BY DEF Types, Local, Holding
<1>7. Len(consents) \in Nat /\ Len(codes["leadSms"]) \in Nat BY <1>3 DEF Types
<1>8. /\ Len(codes'["leadSms"]) \in Nat /\ Len(codes["leadSms"]) <= Len(codes'["leadSms"])
      /\ \A j \in 1 .. Len(codes["leadSms"]) :
           /\ codes'["leadSms"][j].by = codes["leadSms"][j].by
           /\ codes'["leadSms"][j].addr = codes["leadSms"][j].addr
  BY <1>1, <1>3 DEF Steady, CodesGrow
<1>9. /\ Len(consents') \in Nat /\ Len(consents) <= Len(consents')
      /\ \A i \in 1 .. Len(consents) :
           consents[i].chat # None => consents'[i].chat = consents[i].chat
  BY <1>1 DEF Steady, ConsentsStay
<1>10. \A q \in Calls : call'[q].chat = call[q].chat /\ call'[q].table = call[q].table BY <1>1 DEF Steady, CallsGoOn
<1>11. None \notin Chats /\ None \notin Addrs BY SettingsAssumption
<1> QED BY <1>1, <1>2, <1>3, <1>4, <1>5, <1>6, <1>7, <1>8, <1>9, <1>10, <1>11

\* What a chat has asked for stays asked for.
LEMMA AsksStays ==
  ASSUME Types, Begun, Holding, Memory, Next, NEW c \in Chats, NEW a \in Addrs, Asks(c, a)
  PROVE  Asks(c, a)'
<1>1. PICK j \in 1 .. Len(codes["leadSms"]) :
        codes["leadSms"][j].addr = a /\ call[codes["leadSms"][j].by].chat = c
  BY DEF Asks
<1>2. j \in 1 .. Len(codes'["leadSms"]) BY Kept1
<1>3. codes'["leadSms"][j].addr = a /\ call'[codes'["leadSms"][j].by].chat = c BY <1>1, Kept1
<1> QED BY <1>2, <1>3 DEF Asks

\* A call past the gates keeps its link.
LEMMA LinkStays ==
  ASSUME Types, Begun, Holding, Memory, Next, NEW q \in Calls, Linked(q), call[q].pc \notin {"new", "claim"}
  PROVE  call'[q].consent = call[q].consent /\ Linked(q)'
<1>1. call'[q].consent = call[q].consent BY CallKeeps
<1>2. call[q].consent \in 1 .. Len(consents) BY Kept1 DEF Linked
<1>3. consents'[call[q].consent].chat = call[q].chat /\ call'[q].chat = call[q].chat BY <1>2, Kept1 DEF Linked
<1> QED BY <1>1, <1>3 DEF Linked

\* Requests is kept, call by call.
LEMMA RequestsStep ==
  ASSUME Types, Begun, Holding, Memory, Next, NEW q \in Calls
  PROVE  /\ \A r \in call'[q].since : call'[r].pc \in Over
         /\ call'[q].noted => call'[q].pc \in Over
         /\ call'[q].pc = "issue" /\ call'[q].consent # 0 => call'[q].table = "leadSms" /\ bot'.kvkk
         /\ bot'.kvkk /\ call'[q].table = "leadSms"
              /\ (call'[q].pc \in {"issue", "send", "flow"} \/ call'[q].noted) => Linked(q)'
<1>0. Steady /\ bot' = bot /\ Requests BY Kept1 DEF Memory
<1>1. ASSUME NEW r \in call'[q].since  PROVE call'[r].pc \in Over
 <2>1. r \in Calls BY <1>0 DEF Steady, CallsGoOn, Local
 <2>2. call[r].pc \in Over
  <3>1. CASE call'[q].pc = "new" BY <1>0, <1>1, <3>1 DEF Steady, CallsGoOn, Requests
  <3>2. CASE call[q].pc # "new" BY <1>0, <1>1, <3>2 DEF Steady, CallsGoOn, Kept, Requests
  <3>3. CASE call[q].pc = "new" /\ call'[q].pc # "new" BY <1>1, <3>3, SinceBegun DEF Ended
  <3> QED BY <3>1, <3>2, <3>3
 <2> QED BY <1>0, <2>1, <2>2 DEF Steady, CallsGoOn
<1>2. call'[q].noted => call'[q].pc \in Over
 <2>1. CASE call'[q].noted = call[q].noted BY <1>0, <2>1 DEF Steady, CallsGoOn, Requests
 <2>2. CASE call'[q].noted # call[q].noted
  <3>1. NoteSent(q) BY <2>2, CallKeeps
  <3> QED BY <3>1, NoteSentEffect DEF Over
 <2> QED BY <2>1, <2>2
<1>3. ASSUME call'[q].pc = "issue", call'[q].consent # 0
      PROVE  call'[q].table = "leadSms" /\ bot'.kvkk
 <2>1. CASE call'[q] = call[q] BY <1>0, <1>3, <2>1 DEF Requests
 <2>2. CASE call'[q] # call[q]
  <3>1. GateMade(q) BY <1>3, <2>2, Arrivals
  <3> QED BY <1>0, <1>3, <3>1 DEF GateMade, Asked
 <2> QED BY <2>1, <2>2
<1>4. ASSUME bot.kvkk, call[q].table = "leadSms", call'[q].pc \in {"issue", "send", "flow"} \/ call'[q].noted
      PROVE  Linked(q)'
 <2>1. CASE call[q].pc \in {"issue", "send", "flow"} \/ call[q].noted
  <3>1. Linked(q) BY <1>0, <1>4, <2>1 DEF Requests
  <3>2. call[q].pc \notin {"new", "claim"} BY <1>0, <2>1 DEF Requests, Over
  <3> QED BY <3>1, <3>2, LinkStays
 <2>2. CASE ~(call[q].pc \in {"issue", "send", "flow"} \/ call[q].noted)
  <3>1. call'[q].noted = call[q].noted
   <4>1. ASSUME call'[q].noted # call[q].noted  PROVE FALSE BY <2>2, <4>1, CallKeeps, NoteSentEffect
   <4> QED BY <4>1
  <3>2. call'[q] # call[q] /\ call'[q].pc \in {"issue", "send", "flow"} BY <1>4, <2>2, <3>1
  <3>3. call'[q].pc = "issue"
   <4>1. call'[q].pc = "send" => call[q].pc = "issue" BY <3>2, Arrivals, IssueEffect
   <4>2. call'[q].pc = "flow" => call[q].pc = "send" BY <3>2, Arrivals, SendEffect DEF Proceeds
   <4> QED BY <2>2, <3>2, <4>1, <4>2
  <3>4. GateMade(q) /\ call'[q].table = "leadSms" BY <1>4, <3>2, <3>3, Arrivals, Kept1
  <3> QED BY <1>0, <1>4, <3>3, <3>4 DEF GateMade, Asked, Linked
 <2> QED BY <2>1, <2>2
<1>5. call'[q].table = call[q].table BY Kept1
<1> QED BY <1>0, <1>1, <1>2, <1>3, <1>4, <1>5

\* Rows is kept: the request behind a code stays past Issue, with its consent.
LEMMA RowsStep ==
  ASSUME Types, Begun, Holding, Memory, Next, NEW j \in 1 .. Len(codes'["leadSms"]),
         NEW r, r = codes'["leadSms"][j].by
  PROVE  /\ r \in Calls /\ call'[r].pc \notin {"new", "claim", "issue"} /\ call'[r].table = "leadSms"
         /\ bot'.kvkk => Linked(r)' /\ consents'[call'[r].consent].addr # None
<1>0. Steady /\ bot' = bot /\ Requests /\ Rows /\ Len(codes["leadSms"]) \in Nat /\ "leadSms" \in Tables
  BY Kept1 DEF Memory
<1>1. CASE j > Len(codes["leadSms"])
 <2>1. PICK q \in Calls :
         /\ Issue(q) /\ call[q].table = "leadSms"
         /\ codes'["leadSms"][j] =
              [addr |-> call[q].addr, at |-> clock, tries |-> 0, used |-> FALSE, by |-> q]
   BY <1>0, <1>1, CodeChanges
 <2>2. r = q BY <2>1
 <2>3. /\ call[q].pc = "issue" /\ call'[q].pc = "send" /\ call'[q].consent = call[q].consent
       /\ consents' = IF call[q].consent = 0 THEN consents
                      ELSE [consents EXCEPT ![call[q].consent].addr = call[q].addr]
   BY <2>1, IssueEffect
 <2>4. ASSUME bot.kvkk  PROVE Linked(q)' /\ consents'[call'[q].consent].addr # None
  <3>1. Linked(q) BY <1>0, <2>1, <2>3, <2>4 DEF Requests
  <3>2. call[q].consent \in 1 .. Len(consents) /\ consents \in Seq(ConsentRecord) BY <3>1, Kept1 DEF Linked, Types
  <3>3. consents[call[q].consent] \in ConsentRecord /\ call[q].addr \in Addrs BY <2>3, <3>2 DEF Begun
  <3>4. consents'[call[q].consent].addr = call[q].addr
   <4>1. consents'[call[q].consent] = [consents[call[q].consent] EXCEPT !.addr = call[q].addr]
     BY <2>3, <3>1, <3>2 DEF Linked
   <4> QED BY <3>3, <4>1 DEF ConsentRecord
  <3> QED BY <2>3, <3>1, <3>3, <3>4, LinkStays, Kept1
 <2>5. call'[q].table = "leadSms" BY <2>1, Kept1
 <2> QED BY <1>0, <2>2, <2>3, <2>4, <2>5
<1>2. CASE j <= Len(codes["leadSms"])
 <2>1. j \in 1 .. Len(codes["leadSms"]) BY <1>0, <1>2
 <2>2. r = codes["leadSms"][j].by /\ r \in Calls BY <2>1, Kept1
 <2>3. call[r].pc \notin {"new", "claim", "issue"} /\ call[r].table = "leadSms" BY <1>0, <2>1, <2>2 DEF Rows
 <2>4. call'[r].pc \notin {"new", "claim", "issue"}
  <3>1. call'[r].pc # "new" BY <1>0, <2>2, <2>3 DEF Steady, CallsGoOn
  <3>2. call'[r].pc = "claim" => call[r].pc \in {"claim", "new"} BY <2>2, Arrivals, CallbackEffect DEF Begins
  <3>3. call'[r].pc = "issue" => call[r].pc \in {"issue", "new", "claim"} BY <2>2, Arrivals
  <3> QED BY <2>3, <3>1, <3>2, <3>3
 <2>5. ASSUME bot.kvkk  PROVE Linked(r)' /\ consents'[call'[r].consent].addr # None
  <3>1. Linked(r) /\ consents[call[r].consent].addr # None BY <1>0, <2>1, <2>2, <2>5 DEF Rows
  <3>2. call'[r].consent = call[r].consent /\ Linked(r)' BY <2>2, <2>3, <3>1, LinkStays
  <3>3. call[r].consent \in 1 .. Len(consents) /\ call[r].consent \in 1 .. Len(consents')
        /\ call[r].consent <= Len(consents)
    BY <2>2, <3>1, Kept1 DEF Linked
  <3>4. consents'[call[r].consent].addr # None
   <4>1. ASSUME NEW q \in Calls, Issue(q)  PROVE call[q].addr # None
    <5>1. call[q].pc = "issue" BY <4>1, IssueEffect
    <5>2. call[q].addr \in Addrs BY <5>1 DEF Begun
    <5> QED BY <5>2, SettingsAssumption
   <4> QED BY <3>1, <3>3, <4>1, ConsentFields
  <3> QED BY <3>2, <3>4
 <2> QED BY <1>0, <2>2, <2>3, <2>4, <2>5, Kept1
<1>3. j \in Nat OBVIOUS
<1> QED BY <1>0, <1>1, <1>2, <1>3

\* Phones is kept: a consent's phone changes only with a code for it.
LEMMA PhonesStep ==
  ASSUME Types, Begun, Holding, Memory, Next, NEW i \in 1 .. Len(consents'), NEW c, NEW a,
         c = consents'[i].chat, a = consents'[i].addr, a # None
  PROVE  c # None /\ Asks(c, a)'
<1>0. Requests /\ Phones /\ Len(consents) \in Nat BY Kept1 DEF Memory
<1>1. i <= Len(consents)
 <2>1. ASSUME i > Len(consents)  PROVE FALSE
  <3>1. PICK d \in Chats \cup {None} : consents'[i] = ConsentRow(d) BY <2>1, ConsentFields
  <3> QED BY <3>1 DEF ConsentRow
 <2> QED BY <1>0, <2>1
<1>2. i \in 1 .. Len(consents) BY <1>0, <1>1
<1>3. CASE consents'[i].addr = consents[i].addr
 <2>1. consents[i].chat # None /\ Asks(consents[i].chat, a) BY <1>0, <1>2, <1>3 DEF Phones
 <2>2. c = consents[i].chat /\ c \in Chats /\ a \in Addrs BY <1>2, <1>3, <2>1, Kept1
 <2>3. Asks(c, a) BY <2>1, <2>2
 <2>4. Asks(c, a)' BY <2>2, <2>3, AsksStays
 <2> QED BY <2>1, <2>2, <2>4
<1>4. ASSUME NEW q \in Calls, Issue(q), call[q].consent = i, consents'[i].addr = call[q].addr
      PROVE  c # None /\ Asks(c, a)'
 <2>0. Issue(q) /\ i # 0 BY <1>2, <1>4
 <2>1. call[q].pc = "issue" /\ i # 0 BY <2>0, IssueEffect
 <2>2. call[q].table = "leadSms" /\ bot.kvkk BY <1>0, <1>4, <2>1 DEF Requests
 <2>3. consents[i].chat = call[q].chat BY <1>0, <1>4, <2>1, <2>2 DEF Requests, Linked
 <2>4. c = call[q].chat /\ c \in Chats BY <1>2, <2>3, Kept1
 <2>5. /\ Len(codes'["leadSms"]) = Len(codes["leadSms"]) + 1
       /\ codes'["leadSms"][Len(codes["leadSms"]) + 1] =
            [addr |-> call[q].addr, at |-> clock, tries |-> 0, used |-> FALSE, by |-> q]
  <3>1. LET t == call[q].table
        IN /\ Len(codes'[t]) = Len(codes[t]) + 1
           /\ codes'[t][Len(codes[t]) + 1] =
                [addr |-> call[q].addr, at |-> clock, tries |-> 0, used |-> FALSE, by |-> q]
    BY <1>4, IssueEffect
  <3> QED BY <2>2, <3>1, Zenon
 <2>6. Len(codes["leadSms"]) + 1 \in 1 .. Len(codes'["leadSms"]) BY <2>5, Kept1
 <2>7. /\ codes'["leadSms"][Len(codes["leadSms"]) + 1].addr = a
       /\ call'[codes'["leadSms"][Len(codes["leadSms"]) + 1].by].chat = c
   BY <1>4, <2>4, <2>5, Kept1
 <2> QED BY <2>4, <2>6, <2>7, Kept1 DEF Asks
<1> QED BY <1>1, <1>3, <1>4, ConsentFields

\* Memory is kept by every step.
LEMMA MemoryStep ==
  ASSUME Types, Begun, Holding, Memory, [Next]_vars
  PROVE  Memory'
<1>1. CASE UNCHANGED vars BY <1>1 DEF vars, Memory, Requests, Rows, Phones, Linked, Asks, bot
<1>2. CASE Next
 <2>1. Requests' BY <1>2, RequestsStep DEF Requests
 <2>2. Rows' BY <1>2, RowsStep DEF Rows
 <2>3. Phones' BY <1>2, PhonesStep DEF Phones
 <2> QED BY <2>1, <2>2, <2>3 DEF Memory
<1> QED BY <1>1, <1>2

\* What the lead flow of a chat has come to, and why.
LeadFlows ==
  /\ \A i \in 1 .. Len(consents) :
       consents[i].chat # None => flow[consents[i].chat]["lead"].state # "none"
  /\ \A c \in Chats :
       /\ flow[c]["lead"].state = "OTP_VERIFIED" => flow[c]["lead"].proven # None
       /\ flow[c]["lead"].proven # None => Asks(c, flow[c]["lead"].proven)
       /\ flow[c]["lead"].state \in {"SUBMITTED", "FAILED"} => Sent(c)
       /\ flow[c]["lead"].state # "BOOKED"
  /\ \A q \in Calls :
       bot.kvkk /\ call[q].table = "leadSms" /\ call[q].noted =>
         \/ flow[call[q].chat]["lead"].state # "CONSENT_OK"
         \/ \E i \in 1 .. Len(consents) : i # call[q].consent /\ consents[i].chat = call[q].chat
\* A token's request did not begin after the token's call had ended.
Askers ==
  \A tk \in tokens :
    tk.table = "leadSms" /\ tk.n # 0 => tk.by \notin call[Asker(tk)].since /\ call[tk.by].pc # "new"

\* LeadFlows and Askers hold at the start.
LEMMA InitLeadFlows == Init => LeadFlows /\ Askers
<1> SUFFICES ASSUME Init  PROVE LeadFlows /\ Askers OBVIOUS
<1>1. /\ Len(consents) = 0 /\ tokens = {} /\ \A q \in Calls : call[q].noted = FALSE
      /\ \A c \in Chats : flow[c]["lead"] = NoFlow
  BY DEF Init, Idle, Kinds
<1> QED BY <1>1 DEF LeadFlows, Askers, NoFlow

\* A chat a lead has been sent from stays one.
LEMMA SentStaysSent ==
  ASSUME Types, Begun, Holding, Proofs, Memory, Next, NEW c \in Chats
  PROVE  /\ Sent(c) => Sent(c)'
         /\ \A q \in Calls : RecordLead(q) /\ call[q].chat = c => Sent(c)'
<1>1. ASSUME NEW p \in Calls, leads[p].status \in Statuses, leads[p].chat = c
      PROVE  Sent(c)'
 <2>1. leads[p] # NoLead BY <1>1, PcFacts DEF NoLead
 <2>2. call[p].pc \in Over BY <2>1 DEF Proofs, ProvenLeads
 <2>3. ~RecordLead(p) BY <2>2, RecordLeadEffect, PcFacts
 <2>4. ASSUME NEW d \in Chats, NEW a \in Addrs, Submitted(p, d, a)  PROVE FALSE
  <3>1. SubmitMade(p, d, a) BY <2>4, SubmittedMade
  <3> QED BY <2>2, <3>1 DEF SubmitMade, Begins, Over
 <2>5. leads'[p] = leads[p] BY <2>3, <2>4, LeadChanges
 <2> QED BY <1>1, <2>5 DEF Sent
<1>2. ASSUME NEW q \in Calls, RecordLead(q), call[q].chat = c  PROVE Sent(c)'
 <2>1. /\ call[q].pc \in Statuses
       /\ leads' = [leads EXCEPT ![q] = [status |-> call[q].pc, chat |-> call[q].chat, sms |-> call[q].smsOk,
                                         booked |-> call[q].booked, consent |-> call[q].consent]]
   BY <1>2, RecordLeadEffect
 <2>2. leads \in [Calls -> LeadRow] BY DEF Types
 <2>3. leads'[q].status \in Statuses /\ leads'[q].chat = c BY <1>2, <2>1, <2>2
 <2> QED BY <2>3 DEF Sent
<1> QED BY <1>1, <1>2 DEF Sent

\* A consent that chat c gains is none of those it had.
LEMMA GainsAnother ==
  ASSUME Types, Begun, Holding, Memory, Next, NEW c \in Chats, Gains(c),
         NEW k \in 1 .. Len(consents), consents[k].chat = c
  PROVE  \E i \in 1 .. Len(consents') : i # k /\ consents'[i].chat = c
<1>1. PICK i \in 1 .. Len(consents') : /\ consents'[i].chat = c
                                       /\ i <= Len(consents) => consents[i].chat = None
  BY DEF Gains
<1>2. i # k BY <1>1, Kept1
<1> QED BY <1>1, <1>2

\* A chat with a consent has a lead flow, which names a phone once it is verified.
LEMMA LeadFlowsStep1 ==
  ASSUME Types, Begun, Holding, Proofs, Memory, LeadFlows, Next
  PROVE  /\ \A i \in 1 .. Len(consents') :
              consents'[i].chat # None => flow'[consents'[i].chat]["lead"].state # "none"
         /\ \A c \in Chats :
              /\ flow'[c]["lead"].state = "OTP_VERIFIED" => flow'[c]["lead"].proven # None
              /\ flow'[c]["lead"].state # "BOOKED"
<1>0. "lead" \in Kinds /\ Steady /\ None \notin Addrs /\ "leadSms" \in Sms BY Kept1 DEF Kinds, Sms
<1>1. ASSUME NEW c \in Chats, flow[c]["lead"].state # "none"  PROVE flow'[c]["lead"].state # "none"
 <2>1. CASE flow'[c]["lead"] = flow[c]["lead"] BY <1>1, <2>1
 <2>2. CASE flow'[c]["lead"] # flow[c]["lead"] BY <1>0, <2>2, FlowChanges
 <2> QED BY <2>1, <2>2
<1>2. ASSUME NEW c \in Chats \cup {None}, flow' = ConsentOk(flow, c), c # None
      PROVE  flow'[c]["lead"].state # "none"
  BY <1>2, ConsentOkWrites
<1>3. ASSUME NEW i \in 1 .. Len(consents'), consents'[i].chat # None
      PROVE  flow'[consents'[i].chat]["lead"].state # "none"
 <2>1. CASE i > Len(consents)
  <3>1. PICK c \in Chats \cup {None} : consents'[i] = ConsentRow(c) /\ flow' = ConsentOk(flow, c)
    BY <2>1, ConsentFields
  <3>2. consents'[i].chat = c BY <3>1 DEF ConsentRow
  <3> QED BY <1>2, <1>3, <3>1, <3>2
 <2>2. CASE i <= Len(consents) /\ consents'[i].chat = consents[i].chat
  <3>1. i \in 1 .. Len(consents) BY <2>2, Kept1
  <3>2. consents[i].chat \in Chats /\ flow[consents[i].chat]["lead"].state # "none"
    BY <1>3, <2>2, <3>1, Kept1 DEF LeadFlows
  <3> QED BY <1>1, <2>2, <3>2
 <2>3. CASE i <= Len(consents) /\ consents'[i].chat # consents[i].chat
  <3>1. PICK c \in Chats : consents'[i].chat = c /\ flow' = ConsentOk(flow, c) BY <2>3, ConsentFields
  <3> QED BY <1>2, <1>3, <3>1
 <2>4. i \in Nat /\ Len(consents) \in Nat BY Kept1
 <2> QED BY <2>1, <2>2, <2>3, <2>4
<1>4. ASSUME NEW c \in Chats
      PROVE  /\ flow'[c]["lead"].state = "OTP_VERIFIED" => flow'[c]["lead"].proven # None
             /\ flow'[c]["lead"].state # "BOOKED"
 <2>1. CASE flow'[c]["lead"] = flow[c]["lead"] BY <2>1 DEF LeadFlows
 <2>2. CASE flow'[c]["lead"] # flow[c]["lead"]
  <3>1. ASSUME NEW q \in Calls, Grant(q)  PROVE call[q].addr # None BY <1>0, <3>1, GrantEffect
  <3> QED BY <1>0, <2>2, <3>1, FlowChanges
 <2> QED BY <2>1, <2>2
<1> QED BY <1>3, <1>4

\* A flow's proven phone was asked for in its chat; a flow past the lead has one.
LEMMA LeadFlowsStep2 ==
  ASSUME Types, Begun, Holding, Proofs, Memory, LeadFlows, Next, NEW c \in Chats
  PROVE  /\ \A a \in Addrs : flow'[c]["lead"].proven = a => Asks(c, a)'
         /\ flow'[c]["lead"].state \in {"SUBMITTED", "FAILED"} => Sent(c)'
<1>0. "lead" \in Kinds /\ Steady /\ None \notin Addrs /\ "leadSms" \in Sms BY Kept1 DEF Kinds, Sms
<1>1. ASSUME NEW a \in Addrs, flow'[c]["lead"].proven = a  PROVE Asks(c, a)'
 <2>1. CASE flow'[c]["lead"].proven = flow[c]["lead"].proven
  <3>1. flow[c]["lead"].proven = a /\ a # None BY <1>0, <1>1, <2>1
  <3>2. Asks(c, flow[c]["lead"].proven) BY <3>1 DEF LeadFlows
  <3>3. Asks(c, a) BY <3>1, <3>2
  <3> QED BY <3>3, AsksStays
 <2>2. ASSUME NEW q \in Calls, Grant(q), flow'[c]["lead"].proven = call[q].addr,
              Marks(q) # 0, consents[Marks(q)].chat = c
       PROVE  Asks(c, a)'
  <3>1. Marks(q) \in 1 .. Len(consents) /\ consents[Marks(q)].addr = a BY <1>1, <2>2, MarksFacts
  <3>2. Asks(consents[Marks(q)].chat, consents[Marks(q)].addr) BY <1>0, <3>1 DEF Memory, Phones
  <3>3. Asks(c, a) BY <2>2, <3>1, <3>2
  <3> QED BY <3>3, AsksStays
 <2>3. CASE flow'[c]["lead"].proven # flow[c]["lead"].proven
  <3>1. flow'[c]["lead"] # flow[c]["lead"] BY <2>3
  <3>2. PICK q \in Calls : /\ Grant(q) /\ call[q].table = "leadSms" /\ Marks(q) # 0
                           /\ consents[Marks(q)].chat = c
                           /\ IF call[q].table \in Sms THEN flow'[c]["lead"].proven = call[q].addr
                              ELSE flow'[c]["lead"].proven = flow[c]["lead"].proven
    BY <1>0, <2>3, <3>1, FlowChanges
  <3> QED BY <1>0, <2>2, <3>2
 <2> QED BY <2>1, <2>3
<1>2. ASSUME flow'[c]["lead"].state \in {"SUBMITTED", "FAILED"}  PROVE Sent(c)'
 <2>1. CASE flow'[c]["lead"] = flow[c]["lead"] BY <1>2, <2>1, SentStaysSent DEF LeadFlows
 <2>2. CASE flow'[c]["lead"] # flow[c]["lead"]
  <3>1. \E q \in Calls : RecordLead(q) /\ call[q].chat = c BY <1>0, <1>2, <2>2, FlowChanges
  <3> QED BY <3>1, SentStaysSent
 <2> QED BY <2>1, <2>2
<1> QED BY <1>1, <1>2

\* A flow whose code was noted is back at CONSENT_OK only by another consent.
LEMMA LeadFlowsStep3 ==
  ASSUME Types, Begun, Holding, Proofs, Memory, LeadFlows, Next, NEW q \in Calls,
         bot.kvkk, call'[q].table = "leadSms", call'[q].noted
  PROVE  \/ flow'[call'[q].chat]["lead"].state # "CONSENT_OK"
         \/ \E i \in 1 .. Len(consents') : i # call'[q].consent /\ consents'[i].chat = call'[q].chat
<1>0. "lead" \in Kinds /\ call[q].chat \in Chats /\ call'[q].chat = call[q].chat /\ call[q].table = "leadSms"
  BY Kept1 DEF Kinds
<1>1. CASE NoteSent(q)
 <2>1. flow'[call[q].chat]["lead"].state # "CONSENT_OK"
  <3>1. CASE flow[call[q].chat]["lead"].state = "CONSENT_OK" BY <1>0, <1>1, <3>1, NoteSentFlow
  <3>2. CASE flow[call[q].chat]["lead"].state # "CONSENT_OK"
   <4>1. flow'[call[q].chat]["lead"] # flow[call[q].chat]["lead"] =>
           flow'[call[q].chat]["lead"].state = "OTP_SENT"
     BY <1>0, <1>1, NoteSentFlow
   <4> QED BY <3>2, <4>1
  <3> QED BY <3>1, <3>2
 <2> QED BY <1>0, <2>1
<1>2. CASE ~NoteSent(q)
 <2>1. call[q].noted
  <3>1. call'[q].noted = call[q].noted BY <1>2, CallKeeps
  <3> QED BY <3>1
 <2>2. call[q].pc \notin {"new", "claim"} /\ Linked(q) BY <1>0, <2>1 DEF Memory, Requests, Over
 <2>3. call'[q].consent = call[q].consent /\ call[q].consent \in 1 .. Len(consents)
       /\ consents[call[q].consent].chat = call[q].chat
   BY <2>2, LinkStays, Kept1 DEF Linked
 <2>4. CASE \E i \in 1 .. Len(consents) : i # call[q].consent /\ consents[i].chat = call[q].chat
  <3>1. PICK i \in 1 .. Len(consents) : i # call[q].consent /\ consents[i].chat = call[q].chat BY <2>4
  <3>2. i \in 1 .. Len(consents') /\ consents'[i].chat = call[q].chat BY <1>0, <3>1, Kept1
  <3> QED BY <1>0, <2>3, <3>1, <3>2
 <2>5. CASE flow[call[q].chat]["lead"].state # "CONSENT_OK" /\ flow'[call[q].chat]["lead"].state = "CONSENT_OK"
  <3>1. flow'[call[q].chat]["lead"] # flow[call[q].chat]["lead"] BY <2>5
  <3>2. Gains(call[q].chat) BY <1>0, <2>5, <3>1, FlowChanges
  <3>3. \E i \in 1 .. Len(consents') : i # call[q].consent /\ consents'[i].chat = call[q].chat
    BY <1>0, <2>3, <3>2, GainsAnother
  <3> QED BY <1>0, <2>3, <3>3
 <2> QED BY <1>0, <2>1, <2>4, <2>5 DEF LeadFlows
<1> QED BY <1>1, <1>2

\* LeadFlows is kept by every step.
LEMMA LeadFlowsStep ==
  ASSUME Types, Begun, Holding, Proofs, Memory, LeadFlows, [Next]_vars
  PROVE  LeadFlows'
<1>1. CASE UNCHANGED vars BY <1>1 DEF vars, LeadFlows, Asks, Sent, bot
<1>2. CASE Next
 <2>1. \A i \in 1 .. Len(consents') :
         consents'[i].chat # None => flow'[consents'[i].chat]["lead"].state # "none"
   BY <1>2, LeadFlowsStep1
 <2>2. ASSUME NEW c \in Chats
       PROVE  /\ flow'[c]["lead"].state = "OTP_VERIFIED" => flow'[c]["lead"].proven # None
              /\ flow'[c]["lead"].proven # None =>
                   \E j \in 1 .. Len(codes'["leadSms"]) :
                     /\ codes'["leadSms"][j].addr = flow'[c]["lead"].proven
                     /\ call'[codes'["leadSms"][j].by].chat = c
              /\ flow'[c]["lead"].state \in {"SUBMITTED", "FAILED"} => Sent(c)'
              /\ flow'[c]["lead"].state # "BOOKED"
  <3>1. PICK a : a = flow'[c]["lead"].proven OBVIOUS
  <3>2. a \in Addrs \cup {None}
   <4>1. flow' \in FlowMap BY <1>2, Kept1 DEF Steady
   <4>2. flow'[c]["lead"] \in FlowRow BY <4>1 DEF FlowMap, Kinds
   <4> QED BY <3>1, <4>2 DEF FlowRow
  <3>3. a # None => Asks(c, a)' BY <1>2, <3>1, <3>2, LeadFlowsStep2
  <3> QED BY <1>2, <3>1, <3>3, LeadFlowsStep1, LeadFlowsStep2 DEF Asks
 <2>3. ASSUME NEW q \in Calls, bot'.kvkk, call'[q].table = "leadSms", call'[q].noted
       PROVE  \/ flow'[call'[q].chat]["lead"].state # "CONSENT_OK"
              \/ \E i \in 1 .. Len(consents') : i # call'[q].consent /\ consents'[i].chat = call'[q].chat
   BY <1>2, <2>3, Kept1, LeadFlowsStep3
 <2> QED BY <2>1, <2>2, <2>3 DEF LeadFlows, Asks
<1> QED BY <1>1, <1>2

\* Askers is kept by every step.
LEMMA AskersStep ==
  ASSUME Types, Begun, Holding, Ranges, Proofs, Memory, Askers, [Next]_vars
  PROVE  Askers'
<1>1. CASE UNCHANGED vars BY <1>1 DEF vars, Askers, Asker
<1>2. CASE Next
 <2>0. Steady BY <1>2, Kept1
 <2> SUFFICES ASSUME NEW tk \in tokens', tk.table = "leadSms", tk.n # 0
              PROVE  tk.by \notin call'[codes'[tk.table][tk.n].by].since /\ call'[tk.by].pc # "new"
   BY DEF Askers, Asker
 <2>1. CASE tk \in tokens
  <3>1. tk.n \in 1 .. Len(codes["leadSms"]) /\ tk.by \in Calls BY <2>1 DEF Ranges, Types, Token
  <3>2. PICK r \in Calls : r = codes["leadSms"][tk.n].by /\ codes'["leadSms"][tk.n].by = r BY <1>2, <3>1, Kept1
  <3>3. tk.by \notin call[r].since /\ call[tk.by].pc # "new" BY <2>1, <3>2 DEF Askers, Asker
  <3>4. call[r].pc # "new" BY <3>1, <3>2 DEF Memory, Rows
  <3>5. call'[r].since = call[r].since /\ call'[tk.by].pc # "new"
    BY <2>0, <3>1, <3>3, <3>4 DEF Steady, CallsGoOn, Kept
  <3> QED BY <3>2, <3>3, <3>5
 <2>2. CASE tk \notin tokens
  <3>1. PICK q \in Calls : Grant(q) /\ tk = [table |-> call[q].table, addr |-> call[q].addr,
                                             n |-> call[q].n, at |-> clock, by |-> q]
    BY <1>2, <2>2, TokenChanges
  <3>2. tk.by = q /\ call[q].table = "leadSms" /\ tk.n = call[q].n BY <3>1
  <3>3. call[q].pc = "grant" /\ codes' = codes BY <3>1, GrantEffect DEF Proceeds
  <3>4. tk.n \in 1 .. Len(codes["leadSms"]) BY <3>2, <3>3 DEF Holding, Verifying
  <3>5. PICK r \in Calls : r = codes["leadSms"][tk.n].by BY <1>2, <3>4, Kept1
  <3>6. q \notin call[r].since BY <3>3, <3>5 DEF Memory, Requests, Over
  <3>7. call[r].pc # "new" BY <3>4, <3>5 DEF Memory, Rows
  <3>8. call'[r].since = call[r].since /\ call'[q].pc # "new" BY <2>0, <3>3, <3>7 DEF Steady, CallsGoOn, Kept
  <3> QED BY <3>2, <3>3, <3>5, <3>6, <3>8
 <2> QED BY <2>1, <2>2
<1> QED BY <1>1, <1>2

\* A token stays early: the flow that was not told before the phone was proven
\* has a request that overlaps the verification.
LEMMA EarlyStays ==
  ASSUME Types, Begun, Holding, Ranges, Memory, Askers, Next, NEW tk \in tokens, Early(tk)
  PROVE  Early(tk)'
<1>0. Steady /\ tk.table = "leadSms" /\ tk.n # 0 BY Kept1 DEF Early
<1>1. tk.n \in 1 .. Len(codes["leadSms"]) /\ tk.by \in Calls BY <1>0 DEF Ranges, Types, Token
<1>2. PICK r \in Calls : r = codes["leadSms"][tk.n].by /\ codes'["leadSms"][tk.n].by = r BY <1>1, Kept1
<1>3. tk.by \notin call[r].since /\ call[tk.by].pc # "new" /\ call[r].pc # "new"
  BY <1>0, <1>1, <1>2 DEF Askers, Asker, Memory, Rows
<1>4. call'[r].since = call[r].since /\ call'[tk.by].since = call[tk.by].since
  BY <1>0, <1>1, <1>3 DEF Steady, CallsGoOn, Kept
<1>5. r \notin call[tk.by].since \/ ~call[r].noted BY <1>0, <1>2 DEF Early, Asker, Overlap
<1>6. r \notin call[tk.by].since \/ ~call'[r].noted
 <2>1. CASE call'[r].noted = call[r].noted BY <1>5, <2>1
 <2>2. CASE call'[r].noted # call[r].noted
  <3>1. call[r].pc = "flow" BY <2>2, CallKeeps, NoteSentEffect
  <3> QED BY <1>1, <3>1 DEF Memory, Requests, Over
 <2> QED BY <2>1, <2>2
<1> QED BY <1>0, <1>2, <1>3, <1>4, <1>6 DEF Early, Asker, Overlap

\* Why the phone a chat c asked for, on consent k, may not be remembered, and
\* that it is on its way to be.
Excused(c, a, k) ==
  \/ \E early \in tokens : early.addr = a /\ Early(early)
  \/ \E i \in 1 .. Len(consents) : i # k /\ consents[i].chat = c
  \/ Sent(c) \/ Mixed(c, a)
Settled(c, a, k) == flow[c]["lead"].state = "OTP_VERIFIED" \/ Excused(c, a, k)

\* A phone and a chat that are mixed stay so.
LEMMA MixedStays ==
  ASSUME Types, Begun, Holding, Memory, Next, NEW c \in Chats, NEW a \in Addrs, Mixed(c, a)
  PROVE  Mixed(c, a)'
<1>0. \A u \in Tables : Len(codes[u]) \in Nat /\ DOMAIN codes[u] = 1 .. Len(codes[u]) BY DEF Types
<1>1. \A u \in Tables : Len(codes'[u]) \in Nat /\ DOMAIN codes'[u] = 1 .. Len(codes'[u])
  BY Kept1 DEF Steady, CodesGrow
<1>2. PICK j \in 1 .. Len(codes["leadSms"]) :
        (codes["leadSms"][j].addr = a) # (call[codes["leadSms"][j].by].chat = c)
  BY <1>0, Kept1 DEF Mixed
<1>3. j \in 1 .. Len(codes'["leadSms"]) BY Kept1
<1>4. codes'["leadSms"][j].addr = codes["leadSms"][j].addr
      /\ call'[codes'["leadSms"][j].by].chat = call[codes["leadSms"][j].by].chat
  BY <1>2, Kept1
<1>5. (codes'["leadSms"][j].addr = a) # (call'[codes'["leadSms"][j].by].chat = c) BY <1>2, <1>4
<1> QED BY <1>1, <1>3, <1>5, Kept1 DEF Mixed

\* A reason why a phone may be forgotten stays one.
LEMMA ExcusedStays ==
  ASSUME Types, Begun, Holding, Ranges, Proofs, Memory, Askers, Next,
         NEW c \in Chats, NEW a \in Addrs, NEW k \in Nat, Excused(c, a, k)
  PROVE  Excused(c, a, k)'
<1>1. ASSUME NEW early \in tokens, early.addr = a, Early(early)  PROVE Excused(c, a, k)'
 <2>1. Early(early)' BY <1>1, EarlyStays
 <2>2. early \in tokens' BY Kept1 DEF Steady
 <2> QED BY <1>1, <2>1, <2>2 DEF Excused
<1>2. ASSUME NEW i \in 1 .. Len(consents), i # k, consents[i].chat = c  PROVE Excused(c, a, k)'
 <2>1. i \in 1 .. Len(consents') /\ consents'[i].chat = c BY <1>2, Kept1
 <2> QED BY <1>2, <2>1 DEF Excused
<1>3. Sent(c) => Sent(c)' BY SentStaysSent
<1>4. Mixed(c, a) => Mixed(c, a)' BY MixedStays
<1> QED BY <1>1, <1>2, <1>3, <1>4 DEF Excused

\* What is settled stays so: a flow leaves OTP_VERIFIED by a consent or a lead.
LEMMA SettledStays ==
  ASSUME Types, Begun, Holding, Ranges, Proofs, Memory, LeadFlows, Askers, Next,
         NEW c \in Chats, NEW a \in Addrs, NEW k \in 1 .. Len(consents), consents[k].chat = c,
         Settled(c, a, k)
  PROVE  Settled(c, a, k)'
<1>0. k \in Nat /\ "lead" \in Kinds BY Kept1 DEF Kinds
<1>1. CASE Excused(c, a, k) BY <1>0, <1>1, ExcusedStays DEF Settled
<1>2. CASE flow[c]["lead"].state = "OTP_VERIFIED"
 <2>1. CASE flow'[c]["lead"] = flow[c]["lead"] BY <1>2, <2>1 DEF Settled
 <2>2. CASE flow'[c]["lead"] # flow[c]["lead"]
  <3>1. \/ Gains(c)
        \/ \E q \in Calls : RecordLead(q) /\ call[q].chat = c
    BY <1>0, <1>2, <2>2, FlowChanges
  <3>2. ASSUME Gains(c)  PROVE Settled(c, a, k)'
   <4>1. \E i \in 1 .. Len(consents') : i # k /\ consents'[i].chat = c BY <3>2, GainsAnother
   <4> QED BY <4>1 DEF Settled, Excused
  <3>3. ASSUME NEW q \in Calls, RecordLead(q), call[q].chat = c  PROVE Settled(c, a, k)'
   <4>1. Sent(c)' BY <3>3, SentStaysSent
   <4> QED BY <4>1 DEF Settled, Excused
  <3> QED BY <3>1, <3>2, <3>3
 <2> QED BY <2>1, <2>2
<1> QED BY <1>1, <1>2 DEF Settled

\* A chat that asked for another phone, or a phone another chat asked for.
LEMMA AsksMixed ==
  ASSUME Types, NEW c \in Chats, NEW a \in Addrs, NEW d, NEW b, Asks(d, b), (b = a) # (d = c)
  PROVE  Mixed(c, a)
<1>1. PICK j \in 1 .. Len(codes["leadSms"]) :
        codes["leadSms"][j].addr = b /\ call[codes["leadSms"][j].by].chat = d
  BY DEF Asks
<1>2. DOMAIN codes["leadSms"] = 1 .. Len(codes["leadSms"]) BY DEF Types, Tables, Sms
<1>3. (codes["leadSms"][j].addr = a) # (call[codes["leadSms"][j].by].chat = c) BY <1>1
<1> QED BY <1>2, <1>3 DEF Mixed

\* What a verified consent, and a token, say of the flow of their chat.
Verifieds ==
  \A i \in 1 .. Len(consents) :
    consents[i].verified =>
      /\ consents[i].addr # None
      /\ \A c \in Chats, a \in Addrs :
           bot.kvkk /\ consents[i].chat = c /\ consents[i].addr = a => Settled(c, a, i)
Granted ==
  \A tk \in tokens, r \in Calls, c \in Chats, k \in Nat :
    /\ bot.kvkk /\ tk.table = "leadSms" /\ tk.n # 0
    /\ r = Asker(tk) /\ c = call[r].chat /\ k = call[r].consent
    => Settled(c, tk.addr, k)

\* Giving the right code back settles the flow: it was waiting for the code, unless
\* there is an excuse, and the consent that is marked is the request's.
LEMMA GrantSettles ==
  ASSUME Types, Begun, Holding, Ranges, Proofs, Memory, LeadFlows, Askers, Verifieds, Next, bot.kvkk,
         NEW q \in Calls, Grant(q), call[q].table = "leadSms",
         NEW i \in 1 .. Len(consents), NEW c \in Chats, NEW a \in Addrs,
         consents[i].addr = a, consents[i].chat = c, call[q].addr = a
  PROVE  Settled(c, a, i)'
<1> SUFFICES ASSUME ~Settled(c, a, i)'  PROVE FALSE OBVIOUS
<1>0. i \in Nat /\ "lead" \in Kinds /\ c # None BY Kept1 DEF Kinds
<1>1. ~Settled(c, a, i) /\ ~Excused(c, a, i) BY SettledStays DEF Settled
<1>2. ~Excused(c, a, i)' /\ flow'[c]["lead"].state # "OTP_VERIFIED" BY DEF Settled
<1> PICK n : n = call[q].n OBVIOUS
<1>3. /\ call[q].pc = "grant" /\ codes' = codes /\ \A p \in Calls : call'[p].noted = call[p].noted
      /\ tokens' = tokens \cup {[table |-> call[q].table, addr |-> call[q].addr,
                                 n |-> call[q].n, at |-> clock, by |-> q]}
  BY GrantEffect DEF Proceeds, Same, Others
<1>4. n \in 1 .. Len(codes["leadSms"]) /\ codes["leadSms"][n].addr = a BY <1>3 DEF Holding, Verifying
<1>5. PICK r \in Calls : r = codes["leadSms"][n].by BY <1>4, Kept1
<1>6. call[r].noted
 <2>1. PICK tk : tk = [table |-> "leadSms", addr |-> a, n |-> n, at |-> clock, by |-> q] OBVIOUS
 <2>2. tk \in tokens' /\ tk.table = "leadSms" /\ tk.addr = a /\ tk.n = n /\ n # 0 BY <1>3, <1>4, <2>1
 <2>3. ~Early(tk)' BY <1>2, <2>2 DEF Excused
 <2> QED BY <1>3, <1>5, <2>2, <2>3 DEF Early, Asker
<1>7. call[r].chat = c
 <2>1. DOMAIN codes["leadSms"] = 1 .. Len(codes["leadSms"]) BY DEF Types, Tables, Sms
 <2> QED BY <1>1, <1>4, <1>5, <2>1 DEF Excused, Mixed
<1>8. call[r].table = "leadSms" /\ call[r].consent \in 1 .. Len(consents)
      /\ consents[call[r].consent].chat = c
 <2>1. call[r].table = "leadSms" /\ Linked(r) BY <1>4, <1>5 DEF Memory, Rows
 <2>2. call[r].consent \in Nat /\ call[r].consent <= Len(consents) BY Kept1
 <2> QED BY <1>7, <2>1, <2>2 DEF Linked
<1>9. call[r].consent = i BY <1>1, <1>8 DEF Excused
<1>10. flow[c]["lead"].state = "OTP_SENT"
 <2>1. flow[c]["lead"].state # "CONSENT_OK" BY <1>1, <1>6, <1>7, <1>8, <1>9 DEF LeadFlows, Excused
 <2>2. flow[c]["lead"].state \notin {"none", "SUBMITTED", "FAILED", "BOOKED"} BY <1>0, <1>1 DEF LeadFlows, Excused
 <2>3. flow[c]["lead"].state # "OTP_VERIFIED" BY <1>1 DEF Settled
 <2>4. flow[c]["lead"] \in FlowRow BY DEF Types, FlowMap, Kinds
 <2>5. flow[c]["lead"].state \in FlowStates BY <2>4 DEF FlowRow
 <2> QED BY <2>1, <2>2, <2>3, <2>5 DEF FlowStates
<1>11. ~consents[i].verified BY <1>1 DEF Verifieds
<1>12. Marks(q) \in 1 .. Len(consents) /\ consents[Marks(q)].addr = a BY <1>11, MarksFacts
<1>13. consents[Marks(q)].chat = c
 <2>1. consents[Marks(q)].addr # None BY <1>12, Kept1
 <2>2. Asks(consents[Marks(q)].chat, a) BY <1>12, <2>1 DEF Memory, Phones
 <2>3. ~Mixed(c, a) BY <1>1 DEF Excused
 <2> QED BY <2>2, <2>3, AsksMixed
<1>14. flow'[c]["lead"].state = "OTP_VERIFIED" BY <1>10, <1>12, <1>13, GrantFlow
<1> QED BY <1>2, <1>14

\* Verifieds is kept, consent by consent.
LEMMA VerifiedsStep ==
  ASSUME Types, Begun, Holding, Ranges, Proofs, Memory, LeadFlows, Askers, Verifieds, Next,
         NEW i \in 1 .. Len(consents'), consents'[i].verified
  PROVE  /\ consents'[i].addr # None
         /\ bot.kvkk => \A c \in Chats, a \in Addrs :
              consents'[i].chat = c /\ consents'[i].addr = a => Settled(c, a, i)'
         /\ consents'[i].chat \in Chats
<1>1. i \in 1 .. Len(consents)
 <2>1. ASSUME i > Len(consents)  PROVE FALSE
  <3>1. PICK d \in Chats \cup {None} : consents'[i] = ConsentRow(d) BY <2>1, ConsentFields
  <3> QED BY <3>1 DEF ConsentRow
 <2> QED BY <2>1, Kept1
<1>2. ASSUME consents[i].addr # None
      PROVE  /\ consents[i].chat \in Chats /\ consents[i].addr \in Addrs
             /\ Asks(consents[i].chat, consents[i].addr) /\ consents'[i].chat = consents[i].chat
 <2>1. consents[i].chat # None /\ Asks(consents[i].chat, consents[i].addr) BY <1>1, <1>2 DEF Memory, Phones
 <2> QED BY <1>1, <1>2, <2>1, Kept1
<1>3. CASE consents[i].verified
 <2>1. PICK c \in Chats, b \in Addrs : /\ c = consents[i].chat /\ b = consents[i].addr /\ Asks(c, b)
                                       /\ consents'[i].chat = c
   BY <1>1, <1>2, <1>3 DEF Verifieds
 <2>2. bot.kvkk => Settled(c, b, i) BY <1>1, <1>3, <2>1 DEF Verifieds
 <2>3. CASE consents'[i].addr = b
  <3>1. bot.kvkk => Settled(c, b, i)' BY <1>1, <2>1, <2>2, SettledStays
  <3> QED BY <2>1, <2>3, <3>1, SettingsAssumption
 <2>4. ASSUME NEW q \in Calls, Issue(q), consents'[i].addr = call[q].addr, consents'[i].addr # b
       PROVE  consents'[i].addr # None /\ \A a \in Addrs : consents'[i].addr = a => Settled(c, a, i)'
  <3>1. call[q].addr \in Addrs BY <2>4, IssueEffect DEF Begun
  <3>2. ASSUME NEW a \in Addrs, consents'[i].addr = a  PROVE Settled(c, a, i)'
   <4>1. Mixed(c, a) BY <2>1, <2>4, <3>2, AsksMixed
   <4>2. Mixed(c, a)' BY <4>1, MixedStays
   <4> QED BY <4>2 DEF Settled, Excused
  <3> QED BY <2>4, <3>1, <3>2, SettingsAssumption
 <2>5. consents'[i].addr = b \/ \E q \in Calls : Issue(q) /\ consents'[i].addr = call[q].addr
   BY <1>1, <2>1, ConsentFields
 <2> QED BY <2>1, <2>3, <2>4, <2>5
<1>4. ASSUME NEW q \in Calls, Grant(q), Marks(q) = i
      PROVE  /\ consents'[i].addr # None /\ consents'[i].chat \in Chats
             /\ bot.kvkk => \A c \in Chats, a \in Addrs :
                  consents'[i].chat = c /\ consents'[i].addr = a => Settled(c, a, i)'
 <2>1. consents[i].addr = call[q].addr /\ call[q].table = "leadSms" /\ call[q].addr \in Addrs
  <3>1. call[q].addr \in Addrs BY <1>4, GrantEffect
  <3>2. Marks(q) # 0 /\ Marks(q) = i BY <1>1, <1>4
  <3>3. consents[Marks(q)].addr = call[q].addr /\ call[q].table = "leadSms" BY <3>2, MarksFacts
  <3> QED BY <3>1, <3>2, <3>3
 <2>2. consents[i].addr # None BY <2>1, SettingsAssumption
 <2>3. consents'[i].chat = consents[i].chat /\ consents[i].chat \in Chats BY <1>2, <2>2
 <2>4. consents'[i].addr = consents[i].addr
  <3>1. consents[i] \in ConsentRecord BY <1>1 DEF Types
  <3>2. consents'[i] = [consents[i] EXCEPT !.verified = TRUE]
   <4>1. Marks(q) # 0 /\ Marks(q) = i BY <1>1, <1>4
   <4>2. ConsentBecomes(Marks(q), [consents[Marks(q)] EXCEPT !.verified = TRUE]) BY <1>4, <4>1, GrantEffect
   <4> QED BY <4>1, <4>2 DEF ConsentBecomes
  <3> QED BY <3>1, <3>2 DEF ConsentRecord
 <2>5. ASSUME bot.kvkk, NEW c \in Chats, NEW a \in Addrs, consents'[i].chat = c, consents'[i].addr = a
       PROVE  Settled(c, a, i)'
   BY <1>1, <1>4, <2>1, <2>3, <2>4, <2>5, GrantSettles
 <2> QED BY <2>2, <2>3, <2>4, <2>5
<1>5. consents[i].verified \/ \E q \in Calls : Grant(q) /\ Marks(q) = i BY <1>1, ConsentFields
<1> QED BY <1>3, <1>4, <1>5

\* What a token says of its request's chat stays true.
LEMMA GrantedStays ==
  ASSUME Types, Begun, Holding, Ranges, Proofs, Memory, LeadFlows, Askers, Next,
         NEW n \in 1 .. Len(codes["leadSms"]), NEW r \in Calls, codes["leadSms"][n].by = r, bot.kvkk
  PROVE  /\ call'[r].chat = call[r].chat /\ call'[r].consent = call[r].consent
         /\ call[r].chat \in Chats /\ call[r].consent \in 1 .. Len(consents)
         /\ consents[call[r].consent].chat = call[r].chat /\ consents[call[r].consent].addr # None
         /\ \A c \in Chats, a \in Addrs, k \in 1 .. Len(consents) :
              call[r].chat = c /\ call[r].consent = k /\ Settled(c, a, k) => Settled(c, a, k)'
<1>1. call[r].pc \notin {"new", "claim"} /\ Linked(r) /\ consents[call[r].consent].addr # None BY DEF Memory, Rows
<1>2. call'[r].consent = call[r].consent BY <1>1, LinkStays
<1>3. call'[r].chat = call[r].chat /\ call[r].chat \in Chats BY Kept1
<1>4. call[r].consent # 0 /\ consents[call[r].consent].chat = call[r].chat BY <1>1 DEF Linked
<1>5. call[r].consent \in 1 .. Len(consents) BY <1>4, Kept1
<1>6. ASSUME NEW c \in Chats, NEW a \in Addrs, NEW k \in 1 .. Len(consents),
             call[r].chat = c, call[r].consent = k, Settled(c, a, k)
      PROVE  Settled(c, a, k)'
 <2>1. consents[k].chat = c BY <1>4, <1>6
 <2> QED BY <1>6, <2>1, SettledStays
<1> QED BY <1>1, <1>2, <1>3, <1>4, <1>5, <1>6

\* What a new token says of its request's chat is true.
LEMMA GrantedNow ==
  ASSUME Types, Begun, Holding, Ranges, Proofs, Memory, LeadFlows, Askers, Verifieds, Next, bot.kvkk,
         NEW q \in Calls, Grant(q), call[q].table = "leadSms", NEW a \in Addrs, call[q].addr = a,
         NEW n \in 1 .. Len(codes["leadSms"]), call[q].n = n,
         NEW r \in Calls, codes["leadSms"][n].by = r,
         NEW c \in Chats, call[r].chat = c, NEW k \in 1 .. Len(consents), call[r].consent = k
  PROVE  Settled(c, a, k)'
<1>1. consents[k].chat = c /\ consents[k].addr # None BY GrantedStays
<1>2. CASE consents[k].addr = a BY <1>1, <1>2, GrantSettles
<1>3. CASE consents[k].addr # a
 <2>1. Asks(consents[k].chat, consents[k].addr) BY <1>1 DEF Memory, Phones
 <2>2. Mixed(c, a) BY <1>1, <1>3, <2>1, AsksMixed
 <2>3. Mixed(c, a)' BY <2>2, MixedStays
 <2> QED BY <2>3 DEF Settled, Excused
<1> QED BY <1>2, <1>3

\* Granted is kept, token by token.
LEMMA GrantedStep ==
  ASSUME Types, Begun, Holding, Ranges, Proofs, Memory, LeadFlows, Askers, Verifieds, Granted, Next,
         bot.kvkk, NEW tk \in tokens', tk.table = "leadSms", tk.n # 0
  PROVE  \A r \in Calls, c \in Chats, k \in Nat :
           codes'["leadSms"][tk.n].by = r /\ call'[r].chat = c /\ call'[r].consent = k =>
             Settled(c, tk.addr, k)'
<1> SUFFICES ASSUME NEW r \in Calls, NEW c \in Chats, NEW k \in Nat,
                    codes'["leadSms"][tk.n].by = r, call'[r].chat = c, call'[r].consent = k
             PROVE  Settled(c, tk.addr, k)'
  OBVIOUS
<1>1. CASE tk \in tokens
 <2>1. tk.n \in 1 .. Len(codes["leadSms"]) /\ tk.addr \in Addrs BY <1>1 DEF Ranges, Types, Token
 <2>2. codes["leadSms"][tk.n].by = r BY <2>1, Kept1
 <2>3. call[r].chat = c /\ call[r].consent = k /\ k \in 1 .. Len(consents) BY <2>1, <2>2, GrantedStays
 <2>4. Settled(c, tk.addr, k) BY <1>1, <2>2, <2>3 DEF Granted, Asker
 <2> QED BY <2>1, <2>2, <2>3, <2>4, GrantedStays
<1>2. CASE tk \notin tokens
 <2>1. PICK q \in Calls : Grant(q) /\ tk = [table |-> call[q].table, addr |-> call[q].addr,
                                            n |-> call[q].n, at |-> clock, by |-> q]
   BY <1>2, TokenChanges
 <2>2. call[q].table = "leadSms" /\ tk.n = call[q].n /\ tk.addr = call[q].addr BY <2>1
 <2>3. call[q].pc = "grant" /\ codes' = codes /\ call[q].addr \in Addrs BY <2>1, GrantEffect DEF Proceeds
 <2>4. tk.n \in 1 .. Len(codes["leadSms"]) BY <2>2, <2>3 DEF Holding, Verifying
 <2>5. codes["leadSms"][tk.n].by = r BY <2>3
 <2>6. call[r].chat = c /\ call[r].consent = k /\ k \in 1 .. Len(consents) BY <2>4, <2>5, GrantedStays
 <2> QED BY <2>1, <2>2, <2>3, <2>4, <2>5, <2>6, GrantedNow
<1> QED BY <1>1, <1>2

\* Verifieds and Granted are kept by every step.
LEMMA SettledStep ==
  ASSUME Types, Begun, Holding, Ranges, Proofs, Memory, LeadFlows, Askers, Verifieds, Granted, [Next]_vars
  PROVE  Verifieds' /\ Granted'
<1>1. CASE UNCHANGED vars
  BY <1>1 DEF vars, Verifieds, Granted, Settled, Excused, Sent, Mixed, Early, Asker, Overlap, bot
<1>2. CASE Next
 <2>1. bot' = bot BY <1>2, Kept1
 <2>2. Verifieds' BY <1>2, <2>1, VerifiedsStep DEF Verifieds
 <2>3. ASSUME NEW tk \in tokens', NEW r \in Calls, NEW c \in Chats, NEW k \in Nat,
              bot'.kvkk, tk.table = "leadSms", tk.n # 0, r = codes'[tk.table][tk.n].by,
              c = call'[r].chat, k = call'[r].consent
       PROVE  Settled(c, tk.addr, k)'
   BY <1>2, <2>1, <2>3, GrantedStep
 <2> QED BY <2>2, <2>3 DEF Granted, Asker
<1> QED BY <1>1, <1>2

\* Nothing is verified at the start.
LEMMA InitSettled == Init => Verifieds /\ Granted
<1> SUFFICES ASSUME Init  PROVE Verifieds /\ Granted OBVIOUS
<1>1. Len(consents) = 0 /\ tokens = {} BY DEF Init
<1> QED BY <1>1 DEF Verifieds, Granted

\* A settled flow remembers the phone: its proven phone is one its chat asked
\* for, and the chat asked for no other.
LEMMA SettledRemembers ==
  ASSUME Types, Begun, Holding, Ranges, Memory, LeadFlows, Granted
  PROVE  Remembered
<1>1. SUFFICES ASSUME NEW tk \in tokens, bot.kvkk, tk.table = "leadSms", tk.n # 0,
                      NEW r, r = Asker(tk), NEW c, c = call[r].chat
               PROVE  \/ flow[c]["lead"].proven = tk.addr
                      \/ \E early \in tokens : early.addr = tk.addr /\ Early(early)
                      \/ \E i \in DOMAIN consents : i # call[r].consent /\ consents[i].chat = c
                      \/ Sent(c) \/ Mixed(c, tk.addr)
  BY DEF Remembered
<1>2. tk.n \in 1 .. Len(codes["leadSms"]) /\ tk.addr \in Addrs BY <1>1 DEF Types, Ranges, Token
<1>3. codes["leadSms"][tk.n] \in CodeRow BY <1>2 DEF Types, Tables, Sms
<1>4. r \in Calls BY <1>1, <1>3 DEF Asker, CodeRow
<1>5. c \in Chats /\ call[r].consent \in Nat BY <1>1, <1>4 DEF Types, Local
<1>6. Settled(c, tk.addr, call[r].consent) BY <1>1, <1>4, <1>5 DEF Granted
<1>7. CASE Excused(c, tk.addr, call[r].consent) BY <1>7 DEF Excused, Types
<1>8. CASE flow[c]["lead"].state = "OTP_VERIFIED" /\ ~Mixed(c, tk.addr)
 <2>1. Asks(c, flow[c]["lead"].proven) BY <1>5, <1>8 DEF LeadFlows
 <2> QED BY <1>2, <1>5, <1>8, <2>1, AsksMixed
<1> QED BY <1>6, <1>7, <1>8 DEF Settled

\* In every instance, whatever the service takes for a proof is one, and what a
\* visitor has proven counts as long as its flow (LeadService.verifySmsCode,
\* ChatFlowService, LeadService.submit).
THEOREM ProofsAlwaysHold == Spec => []ProofsHold
<1> DEFINE Base == Types /\ Begun /\ Holding /\ Ranges /\ Proofs /\ Carrying
           Past == Memory /\ LeadFlows /\ Askers /\ Verifieds /\ Granted
           Inv == Base /\ Past
<1>1. Init => Inv BY InitTypes, InitHolds, InitProofs, InitCarrying, InitMemory, InitLeadFlows, InitSettled
<1>2. Inv /\ [Next]_vars => Inv'
 <2> SUFFICES ASSUME Inv, [Next]_vars  PROVE Base' /\ Past' OBVIOUS
 <2>1. Base' BY SmallStep, RangesStep, ProofsStep, CarryingStep
 <2>2. Past' BY MemoryStep, LeadFlowsStep, AskersStep, SettledStep
 <2> QED BY <2>1, <2>2
<1>3. Inv => ProofsHold BY ProofsProve, CarryingCarries, SettledRemembers DEF ProofsHold
<1> QED BY <1>1, <1>2, <1>3, PTL DEF Spec

--------------------
(* The limits on codes. *)

\* What a step does to the fields of a call that the limits are about.
Quiet(p) ==
  /\ call'[p].n = call[p].n /\ call'[p].seen = call[p].seen /\ call'[p].tried = call[p].tried
  /\ call'[p].since = call[p].since /\ call'[p].picked = call[p].picked
Fresh(p) ==
  /\ call[p].pc = "new" /\ call'[p].pc # "new"
  /\ call'[p].seen = "none" /\ call'[p].picked = 0 /\ ~call'[p].tried

\* Only Issue, Try and the first step of a call change these fields.
LEMMA FieldSteps ==
  ASSUME Types, Begun, Holding, Next, NEW p \in Calls
  PROVE  Issue(p) \/ Try(p) \/ Fresh(p) \/ Quiet(p)
<1>1. ASSUME call'[p] = call[p]  PROVE Quiet(p) BY <1>1 DEF Quiet
<1>2. ASSUME NEW m \in Calls, Callback(p, m)  PROVE Fresh(p) BY <1>2, CallbackEffect DEF Begins, Fresh
<1>3. ASSUME NEW c \in Chats, NEW a \in Addrs, NEW t \in Tables, RequestCode(p, t, c, a)
      PROVE  Fresh(p)
  BY <1>3, RequestCodeEffect DEF Begins, GateMade, Fresh
<1>4. ASSUME NEW c \in Chats, NEW a \in Addrs, NEW t \in Tables, NEW typed \in {0} \cup Received(t),
             LookUp(p, t, c, a, typed) \/ LookUpBooking(p, t, c, a, typed)
      PROVE  Fresh(p)
 <2>1. CASE LookUp(p, t, c, a, typed) BY <2>1, LookUpEffect DEF Looks, Begins, Fresh
 <2>2. CASE LookUpBooking(p, t, c, a, typed) BY <2>2, LookUpBookingEffect DEF Looks, Begins, Fresh
 <2> QED BY <1>4, <2>1, <2>2
<1>5. ASSUME NEW c \in Chats, NEW a \in Addrs, Submitted(p, c, a)  PROVE Fresh(p)
  BY <1>5, SubmittedMade DEF SubmitMade, Begins, Fresh
<1>6. Send(p) => Quiet(p) BY SendEffect DEF Proceeds, Kept, Same, Quiet
<1>7. NoteSent(p) => Quiet(p) BY NoteSentEffect DEF Kept, Quiet
<1>8. Claim(p) => Quiet(p) BY ClaimEffect DEF Kept, Quiet
<1>9. MarkUsed(p) => Quiet(p) BY MarkUsedEffect DEF Proceeds, Kept, Same, Quiet
<1>10. Grant(p) => Quiet(p) BY GrantEffect DEF Proceeds, Kept, Same, Quiet
<1>11. ASSUME NEW status \in Statuses, Deliver(p, status)  PROVE Quiet(p)
  BY <1>11, DeliverEffect DEF Proceeds, Kept, Same, Quiet
<1>12. RecordLead(p) => Quiet(p) BY RecordLeadEffect DEF Proceeds, Kept, Same, Quiet
<1>13. Die(p) => Quiet(p) BY DieEffect DEF Proceeds, Kept, Same, Quiet
<1> QED BY OwnSteps, <1>1, <1>2, <1>3, <1>4, <1>5, <1>6, <1>7, <1>8, <1>9, <1>10, <1>11, <1>12, <1>13

\* A call of an earlier time, as a later one knows it, has ended: it adds no code
\* and keeps what it has done, and the later call keeps knowing it.
LEMMA EarlierCalls ==
  ASSUME Types, Begun, Holding, Memory, Next, NEW q \in Calls, call[q].pc # "new"
  PROVE  /\ call'[q].since = call[q].since /\ call[q].since \subseteq Calls
         /\ \A r \in call[q].since :
              /\ call[r].pc \in Over /\ Quiet(r) /\ ~Issue(r) /\ ~Try(r)
              /\ call'[r].op = call[r].op /\ call'[r].table = call[r].table
<1>1. Steady BY NextSteady
<1>2. call'[q].since = call[q].since /\ call[q].since \subseteq Calls
 <2>1. Kept(q) BY <1>1 DEF Steady, CallsGoOn
 <2> QED BY <2>1 DEF Kept, Types, Local
<1>3. ASSUME NEW r \in call[q].since
      PROVE  /\ call[r].pc \in Over /\ Quiet(r) /\ ~Issue(r) /\ ~Try(r)
             /\ call'[r].op = call[r].op /\ call'[r].table = call[r].table
 <2>1. r \in Calls /\ call[r].pc \in Over BY <1>2 DEF Memory, Requests
 <2>2. ~Issue(r) BY <2>1, IssueEffect DEF Over
 <2>3. ~Try(r) BY <2>1, TryEffect DEF Over
 <2>4. ~Fresh(r) BY <2>1 DEF Fresh, Over
 <2>5. Quiet(r) BY <2>1, <2>2, <2>3, <2>4, FieldSteps
 <2> QED BY <1>1, <2>1, <2>2, <2>3, <2>5 DEF Steady, CallsGoOn
<1> QED BY <1>2, <1>3

\* No verification goes on with a code that gave a token to a call that had
\* ended, and two tokens of one code went to calls that overlapped.
Once ==
  /\ \A tk \in tokens : tk.n # 0 => call[tk.by].pc # "new"
  /\ \A q \in Calls : call[q].pc \in InVerification =>
       \A tk \in tokens : tk.table = call[q].table /\ tk.n = call[q].n => tk.by \notin call[q].since
  /\ \A x, y \in tokens : x.table = y.table /\ x.n = y.n /\ x.n # 0 /\ x.by # y.by =>
       x.by \notin call[y.by].since

\* A token with a code is given by Grant.
LEMMA CodedTokens ==
  ASSUME Types, Begun, Holding, Next, NEW tk \in tokens', tk \notin tokens, tk.n # 0
  PROVE  \E g \in Calls : /\ Grant(g) /\ tk.by = g /\ tk.table = call[g].table /\ tk.n = call[g].n
                          /\ call[g].pc = "grant" /\ call'[g].pc = "done"
<1>1. PICK g \in Calls : Grant(g) /\ tk = [table |-> call[g].table, addr |-> call[g].addr,
                                           n |-> call[g].n, at |-> clock, by |-> g]
  BY TokenChanges
<1>2. call[g].pc = "grant" /\ call'[g].pc = "done" BY <1>1, GrantEffect DEF Proceeds
<1> QED BY <1>1, <1>2

\* Once is kept: a verification begins with an unused code, and a token's code is used.
LEMMA OnceStep ==
  ASSUME Types, Begun, Holding, Proofs, Memory, Once, [Next]_vars
  PROVE  Once'
<1>1. CASE UNCHANGED vars BY <1>1 DEF vars, Once
<1>2. CASE Next
 <2>0. Steady /\ tokens \subseteq Token /\ tokens' \subseteq Token BY <1>2, NextSteady DEF Steady, Types
 <2>1. ASSUME NEW tk \in tokens', tk.n # 0  PROVE tk.by \in Calls /\ call'[tk.by].pc # "new"
  <3>1. tk.by \in Calls BY <2>0 DEF Token
  <3>2. CASE tk \in tokens BY <2>0, <2>1, <3>1, <3>2 DEF Steady, CallsGoOn, Once
  <3>3. CASE tk \notin tokens BY <1>2, <2>1, <3>3, CodedTokens
  <3> QED BY <3>1, <3>2, <3>3
 <2>2. ASSUME NEW q \in Calls, call'[q].pc \in InVerification,
              NEW tk \in tokens', tk.table = call'[q].table, tk.n = call'[q].n, tk.by \in call'[q].since
       PROVE  FALSE
  <3>1. CASE call[q].pc \in InVerification /\ call'[q].n = call[q].n
   <4>0. call[q].pc # "new" BY <3>1 DEF InVerification
   <4>1. call'[q].since = call[q].since /\ call'[q].table = call[q].table
     BY <1>2, <2>0, <4>0, EarlierCalls DEF Steady, CallsGoOn
   <4>2. call[q].n # 0
    <5>1. call[q].n \in 1 .. Len(codes[call[q].table]) BY <3>1 DEF InVerification, Holding, Verifying
    <5> QED BY <5>1
   <4>3. CASE tk \in tokens BY <2>2, <3>1, <4>1, <4>3 DEF Once
   <4>4. CASE tk \notin tokens
    <5>1. call[tk.by].pc = "grant" BY <1>2, <2>2, <3>1, <4>2, <4>4, CodedTokens
    <5>2. call[tk.by].pc \in Over BY <2>2, <4>1 DEF Memory, Requests
    <5> QED BY <5>1, <5>2 DEF Over
   <4> QED BY <4>3, <4>4
  <3>2. CASE \E t \in Tables, c \in Chats, a \in Addrs : \E typed \in {0} \cup Received(t) :
               LookUp(q, t, c, a, typed) \/ LookUpBooking(q, t, c, a, typed)
   <4>1. PICK t \in Tables, c \in Chats, a \in Addrs : \E typed \in {0} \cup Received(t) :
              LookUp(q, t, c, a, typed) \/ LookUpBooking(q, t, c, a, typed)
     BY <3>2
   <4>2. PICK typed \in {0} \cup Received(t) : LookUp(q, t, c, a, typed) \/ LookUpBooking(q, t, c, a, typed) BY <4>1
   <4>3. /\ call'[q].table = t /\ call'[q].n \in 1 .. Len(codes[t]) /\ ~codes[t][call'[q].n].used
         /\ tokens' = tokens
    <5>1. CASE LookUp(q, t, c, a, typed)
     <6>1. /\ call'[q].pc \in {"try", "done"} /\ Looks(q, t, c, a, typed, LatestOf(Unused(t, a)), call'[q].pc)
           /\ call'[q].pc = "try" => LatestOf(Unused(t, a)) \in 1 .. Len(codes[t])
                                     /\ ~codes[t][LatestOf(Unused(t, a))].used
           /\ tokens' = tokens
       BY <5>1, LookUpEffect
     <6>2. call'[q].pc = "try" BY <2>2, <6>1 DEF InVerification
     <6>3. call'[q].table = t /\ call'[q].n = LatestOf(Unused(t, a)) BY <6>1 DEF Looks, Begins
     <6> QED BY <6>1, <6>2, <6>3
    <5>2. CASE LookUpBooking(q, t, c, a, typed)
     <6>1. /\ call'[q].pc \in {"use", "done"} /\ Looks(q, t, c, a, typed, typed, call'[q].pc)
           /\ call'[q].pc = "use" => typed \in 1 .. Len(codes[t]) /\ ~codes[t][typed].used
           /\ tokens' = tokens
       BY <5>2, LookUpBookingEffect
     <6>2. call'[q].pc = "use" BY <2>2, <6>1 DEF InVerification
     <6>3. call'[q].table = t /\ call'[q].n = typed BY <6>1 DEF Looks, Begins
     <6> QED BY <6>1, <6>2, <6>3
    <5> QED BY <4>2, <5>1, <5>2
   <4>4. tk \in tokens /\ tk.table = t /\ tk.n # 0 /\ ~codes[tk.table][tk.n].used BY <2>2, <4>3
   <4> QED BY <4>4 DEF Proofs, ProvenTokens
  <3> QED
   <4>1. \/ call'[q] = call[q]
         \/ call'[q].n = call[q].n /\ call[q].pc \in {"try", "use"}
         \/ \E t \in Tables, c \in Chats, a \in Addrs : \E typed \in {0} \cup Received(t) :
              LookUp(q, t, c, a, typed) \/ LookUpBooking(q, t, c, a, typed)
     BY <1>2, <2>2, VerificationSteps
   <4> QED BY <2>2, <3>1, <3>2, <4>1 DEF InVerification
 <2>3. ASSUME NEW x \in tokens', NEW y \in tokens', x.table = y.table, x.n = y.n, x.n # 0, x.by # y.by,
              x.by \in call'[y.by].since
       PROVE  FALSE
  <3>0. y \in tokens => call'[y.by].since = call[y.by].since BY <1>2, <2>1, <2>3, EarlierCalls DEF Once
  <3>1. CASE x \in tokens /\ y \in tokens BY <2>3, <3>0, <3>1 DEF Once
  <3>2. CASE x \notin tokens /\ y \in tokens
   <4>1. call[x.by].pc = "grant" BY <1>2, <2>3, <3>2, CodedTokens
   <4>2. call[x.by].pc \in Over BY <2>1, <2>3, <3>0, <3>2 DEF Memory, Requests
   <4> QED BY <4>1, <4>2 DEF Over
  <3>3. CASE x \in tokens /\ y \notin tokens
   <4>1. PICK g \in Calls : /\ y.by = g /\ y.table = call[g].table /\ y.n = call[g].n
                            /\ call[g].pc = "grant"
     BY <1>2, <2>3, <3>3, CodedTokens
   <4>2. call'[g].since = call[g].since BY <1>2, <4>1, EarlierCalls
   <4> QED BY <2>3, <3>3, <4>1, <4>2 DEF Once, InVerification
  <3>4. CASE x \notin tokens /\ y \notin tokens
   <4>1. /\ call[x.by].pc = "grant" /\ call[y.by].pc = "grant" /\ y.by \in Calls BY <1>2, <2>3, <3>4, CodedTokens
   <4>2. x.by \in call[y.by].since BY <1>2, <2>3, <4>1, EarlierCalls
   <4> QED BY <4>1, <4>2 DEF Memory, Requests, Over
  <3> QED BY <3>1, <3>2, <3>3, <3>4
 <2> QED BY <2>1, <2>2, <2>3 DEF Once
<1> QED BY <1>1, <1>2

\* Once implies the part of the invariant about tokens.
LEMMA OnceGivesOne ==
  ASSUME Once
  PROVE  TokenTwiceOnlyRacing
BY DEF Once, TokenTwiceOnlyRacing, Overlap

--------------------
\* Who has tried the code i of table t, and how often the row says.
Triers(t, i) ==
  {r \in Calls : call[r].op = "verify" /\ call[r].table = t /\ call[r].n = i /\ call[r].tried}
Earlier(q) ==
  {r \in call[q].since : /\ call[r].op = "verify" /\ call[r].table = call[q].table
                         /\ call[r].n = call[q].n /\ call[r].tried}
Counted ==
  /\ \A q \in Calls : call[q].op = "verify" /\ call[q].tried => call[q].n \in 1 .. Len(codes[call[q].table])
  /\ \A t \in Tables : \A i \in 1 .. Len(codes[t]) :
       IsFiniteSet(Triers(t, i)) /\ Cardinality(Triers(t, i)) <= codes[t][i].tries
  /\ \A q \in Calls :
       call[q].table \in Lead /\ call[q].pc \in InVerification => Cardinality(Earlier(q)) < MaxTries

\* A call comes to the gates before a code by a request or a callback.
LEMMA GateSteps ==
  ASSUME Types, Begun, Holding, Next, NEW p \in Calls, call'[p] # call[p], call'[p].pc \in {"claim", "issue"}
  PROVE  \/ \E m \in Calls : Callback(p, m)
         \/ \E c \in Chats, a \in Addrs, t \in Tables : RequestCode(p, t, c, a)
         \/ Claim(p)
<1>1. ASSUME NEW c \in Chats, NEW a \in Addrs, NEW t \in Tables, NEW typed \in {0} \cup Received(t),
             LookUp(p, t, c, a, typed) \/ LookUpBooking(p, t, c, a, typed)
      PROVE  FALSE
  BY <1>1, LookUpEffect, LookUpBookingEffect
<1>2. ASSUME NEW c \in Chats, NEW a \in Addrs, Submitted(p, c, a)  PROVE FALSE BY <1>2, SubmittedMade DEF SubmitMade
<1>3. ~Issue(p) /\ ~Send(p) /\ ~NoteSent(p) BY IssueEffect, SendEffect, NoteSentEffect
<1>4. ~Try(p) /\ ~MarkUsed(p) /\ ~Grant(p) BY TryEffect, MarkUsedEffect, GrantEffect DEF Proceeds
<1>5. ASSUME NEW status \in Statuses, Deliver(p, status)  PROVE FALSE BY <1>5, DeliverEffect DEF Proceeds, Statuses
<1>6. ~RecordLead(p) /\ ~Die(p) BY RecordLeadEffect, DieEffect DEF Proceeds
<1> QED BY OwnSteps, <1>1, <1>2, <1>3, <1>4, <1>5, <1>6

\* Who asks for a code does not verify one.
Requesting == \A q \in Calls : call[q].pc \in {"claim", "issue"} => call[q].op # "verify"

\* Requesting is kept by every step.
LEMMA RequestingStep ==
  ASSUME Types, Begun, Holding, Requesting, [Next]_vars
  PROVE  Requesting'
<1>1. CASE UNCHANGED vars BY <1>1 DEF vars, Requesting
<1>2. ASSUME Next, NEW q \in Calls, call'[q].pc \in {"claim", "issue"}  PROVE call'[q].op # "verify"
 <2>1. call'[q].op = call[q].op BY <1>2, NextSteady DEF Steady, CallsGoOn
 <2>2. CASE call'[q] = call[q] BY <1>2, <2>2 DEF Requesting
 <2>3. CASE \E m \in Calls : Callback(q, m) BY <2>1, <2>3, CallbackEffect
 <2>4. CASE \E c \in Chats, a \in Addrs, t \in Tables : RequestCode(q, t, c, a) BY <2>1, <2>4, RequestCodeEffect
 <2>5. CASE Claim(q) BY <2>1, <2>5, ClaimEffect DEF Requesting
 <2> QED BY <1>2, <2>2, <2>3, <2>4, <2>5, GateSteps
<1> QED BY <1>1, <1>2 DEF Requesting

\* A row's counter never goes back, and Try counts.
LEMMA TriesGrow ==
  ASSUME Types, Begun, Holding, Next, NEW t \in Tables, NEW i \in 1 .. Len(codes[t])
  PROVE  /\ codes[t][i].tries \in Nat /\ codes'[t][i].tries \in Nat /\ codes[t][i].tries <= codes'[t][i].tries
         /\ \A q \in Calls : Try(q) /\ call[q].table = t /\ call[q].n = i =>
              codes'[t][i].tries = codes[t][i].tries + 1
<1>1. codes[t][i] \in CodeRow BY DEF Types
<1>2. ASSUME NEW q \in Calls, Try(q)
      PROVE  /\ codes'[t][i] = codes[t][i] \/ codes'[t][i].tries = codes[t][i].tries + 1
             /\ call[q].table = t /\ call[q].n = i => codes'[t][i].tries = codes[t][i].tries + 1
 <2>1. CodeBecomes(call[q].table, call[q].n,
                   [codes[call[q].table][call[q].n] EXCEPT !.tries = codes[call[q].table][call[q].n].tries + 1])
   BY <1>2, TryEffect
 <2>2. CASE call[q].table = t /\ call[q].n = i
  <3>1. codes'[t][i] = [codes[t][i] EXCEPT !.tries = codes[t][i].tries + 1] BY <2>1, <2>2 DEF CodeBecomes
  <3> QED BY <1>1, <2>2, <3>1 DEF CodeRow
 <2>3. CASE ~(call[q].table = t /\ call[q].n = i) BY <2>1, <2>3 DEF CodeBecomes
 <2> QED BY <2>2, <2>3
<1>3. (~\E q \in Calls : Try(q)) => codes'[t][i].tries = codes[t][i].tries
 <2>1. ASSUME NEW q \in Calls, Issue(q)  PROVE codes'[t][i] = codes[t][i]
  <3>1. /\ \A u \in Tables : u # call[q].table => codes'[u] = codes[u]
        /\ \A k \in 1 .. Len(codes[call[q].table]) : codes'[call[q].table][k] = codes[call[q].table][k]
    BY <2>1, IssueEffect
  <3> QED BY <3>1
 <2>2. ASSUME NEW q \in Calls, MarkUsed(q)  PROVE codes'[t][i].tries = codes[t][i].tries
  <3>1. CodeBecomes(call[q].table, call[q].n, [codes[call[q].table][call[q].n] EXCEPT !.used = TRUE])
    BY <2>2, MarkUsedEffect
  <3>2. CASE call[q].table = t /\ call[q].n = i
   <4>1. codes'[t][i] = [codes[t][i] EXCEPT !.used = TRUE] BY <3>1, <3>2 DEF CodeBecomes
   <4> QED BY <1>1, <4>1 DEF CodeRow
  <3>3. CASE ~(call[q].table = t /\ call[q].n = i) BY <3>1, <3>3 DEF CodeBecomes
  <3> QED BY <3>2, <3>3
 <2>3. ASSUME NEW q \in Calls, NoteSent(q) \/ Grant(q) \/ RecordLead(q)  PROVE codes' = codes
   BY <2>3, NoteSentEffect, GrantEffect, RecordLeadEffect
 <2>4. ASSUME NEW c \in Chats \cup {None}, Consents(c)  PROVE codes' = codes BY <2>4, ConsentSteps DEF ConsentMade
 <2>5. ASSUME NEW c \in Chats, Book(c)  PROVE codes' = codes BY <2>5, BookEffect
 <2> QED BY <2>1, <2>2, <2>3, <2>4, <2>5, Writers DEF rows
<1> QED BY <1>1, <1>2, <1>3 DEF CodeRow

\* Who has tried a code after a step: those before it, and who tries it now.
LEMMA TriersGrow ==
  ASSUME Types, Begun, Holding, Requesting, Counted, Next, NEW t \in Tables, NEW i \in Nat
  PROVE  /\ Triers(t, i)' \subseteq Triers(t, i) \cup {q \in Calls : Try(q) /\ call[q].table = t /\ call[q].n = i}
         /\ i > Len(codes[t]) => Triers(t, i)' = {}
<1>1. Steady BY NextSteady
<1>2. Len(codes[t]) \in Nat BY DEF Types
<1>3. ASSUME NEW r \in Triers(t, i)'
      PROVE  /\ r \in Calls /\ i <= Len(codes[t])
             /\ r \in Triers(t, i) \/ (Try(r) /\ call[r].table = t /\ call[r].n = i)
 <2>1. /\ r \in Calls /\ call'[r].op = "verify" /\ call'[r].table = t /\ call'[r].n = i /\ call'[r].tried
       /\ call[r].op = "verify" /\ call[r].table = t
   BY <1>1, <1>3 DEF Triers, Steady, CallsGoOn
 <2>2. CASE Quiet(r) BY <2>1, <2>2 DEF Quiet, Triers, Counted
 <2>3. CASE Try(r)
  <3>1. call[r].n = i /\ call[r].pc = "try" BY <2>1, <2>3, TryEffect
  <3>2. i \in 1 .. Len(codes[t]) BY <2>1, <3>1 DEF Holding, Verifying
  <3> QED BY <2>1, <2>3, <3>1, <3>2
 <2>4. ~Fresh(r) /\ ~Issue(r)
  <3>1. ~Issue(r) BY <2>1, IssueEffect DEF Requesting
  <3> QED BY <2>1, <3>1 DEF Fresh
 <2> QED BY <2>1, <2>2, <2>3, <2>4, FieldSteps
<1>4. i > Len(codes[t]) => ~(i <= Len(codes[t])) BY <1>2
<1> QED BY <1>3, <1>4

\* The count of a row keeps up with who has tried it.
LEMMA TriersCounted ==
  ASSUME Types, Begun, Holding, Requesting, Counted, Next, NEW t \in Tables, NEW i \in 1 .. Len(codes'[t])
  PROVE  IsFiniteSet(Triers(t, i)') /\ Cardinality(Triers(t, i)') <= codes'[t][i].tries
<1>0. codes'[t][i].tries \in Nat /\ Len(codes[t]) \in Nat
 <2>1. codes' \in [Tables -> Seq(CodeRow)] BY NextSteady DEF Steady, CodesGrow
 <2>2. codes'[t][i] \in CodeRow BY <2>1
 <2> QED BY <2>2 DEF CodeRow, Types
<1>1. CASE i > Len(codes[t])
 <2>1. Triers(t, i)' = {} BY <1>1, TriersGrow
 <2> QED BY <1>0, <2>1, FS_EmptySet
<1>2. CASE i <= Len(codes[t])
 <2>0. i \in 1 .. Len(codes[t]) BY <1>0, <1>2
 <2>1. /\ IsFiniteSet(Triers(t, i)) /\ Cardinality(Triers(t, i)) <= codes[t][i].tries
       /\ Cardinality(Triers(t, i)) \in Nat
   BY <2>0, FS_CardinalityType DEF Counted
 <2>2. codes[t][i].tries \in Nat /\ codes[t][i].tries <= codes'[t][i].tries BY <2>0, TriesGrow
 <2>3. CASE \E q \in Calls : Try(q) /\ call[q].table = t /\ call[q].n = i
  <3>1. PICK q \in Calls : Try(q) /\ call[q].table = t /\ call[q].n = i BY <2>3
  <3>2. ASSUME NEW p \in Calls, Try(p)  PROVE p = q
   <4>1. call[p].pc = "try" /\ call'[p].pc # "try" BY <3>2, TryEffect
   <4>2. p # q => call'[p] = call[p] BY <3>1, TryEffect DEF Others
   <4> QED BY <4>1, <4>2
  <3>3. Triers(t, i)' \in SUBSET (Triers(t, i) \cup {q}) BY <2>0, <3>2, TriersGrow
  <3>4. codes'[t][i].tries = codes[t][i].tries + 1 BY <2>0, <3>1, TriesGrow
  <3>5. /\ IsFiniteSet(Triers(t, i) \cup {q})
        /\ Cardinality(Triers(t, i) \cup {q}) <= Cardinality(Triers(t, i)) + 1
        /\ Cardinality(Triers(t, i) \cup {q}) \in Nat
   <4>1. /\ IsFiniteSet(Triers(t, i) \cup {q})
         /\ Cardinality(Triers(t, i) \cup {q}) \in {Cardinality(Triers(t, i)), Cardinality(Triers(t, i)) + 1}
     BY <2>1, FS_AddElement
   <4> QED BY <2>1, <4>1
  <3>6. IsFiniteSet(Triers(t, i)') /\ Cardinality(Triers(t, i)') <= Cardinality(Triers(t, i) \cup {q})
    BY <3>3, <3>5, FS_Subset
  <3>7. Cardinality(Triers(t, i)') \in Nat BY <3>6, FS_CardinalityType
  <3> QED BY <2>1, <2>2, <3>4, <3>5, <3>6, <3>7
 <2>4. CASE ~\E q \in Calls : Try(q) /\ call[q].table = t /\ call[q].n = i
  <3>1. Triers(t, i)' \in SUBSET Triers(t, i) BY <2>0, <2>4, TriersGrow
  <3>2. IsFiniteSet(Triers(t, i)') /\ Cardinality(Triers(t, i)') <= Cardinality(Triers(t, i)) BY <2>1, <3>1, FS_Subset
  <3>3. Cardinality(Triers(t, i)') \in Nat BY <3>2, FS_CardinalityType
  <3> QED BY <1>0, <2>1, <2>2, <3>2, <3>3
 <2> QED BY <2>3, <2>4
<1> QED BY <1>0, <1>1, <1>2

\* What a verification knows of earlier guesses at its code stays below the limit.
LEMMA EarlierBounded ==
  ASSUME Types, Begun, Holding, Memory, Counted, Next, NEW q \in Calls, call'[q].table \in Lead,
         call'[q].pc \in InVerification
  PROVE  Cardinality(Earlier(q)') < MaxTries
<1>0. Steady BY NextSteady
<1>1. CASE call[q].pc \in InVerification /\ call'[q].n = call[q].n
 <2>1. call[q].pc # "new" BY <1>1 DEF InVerification
 <2>2. call'[q].table = call[q].table /\ call'[q].since = call[q].since /\ call[q].since \subseteq Calls
   BY <1>0, <2>1, EarlierCalls DEF Steady, CallsGoOn
 <2>3. ASSUME NEW r \in call[q].since
       PROVE  /\ call'[r].op = call[r].op /\ call'[r].table = call[r].table
              /\ call'[r].n = call[r].n /\ call'[r].tried = call[r].tried
   BY <2>1, EarlierCalls DEF Quiet
 <2>4. Earlier(q)' = Earlier(q) BY <1>1, <2>2, <2>3 DEF Earlier
 <2> QED BY <1>1, <2>2, <2>4 DEF Counted
<1>2. CASE \E t \in Tables, c \in Chats, a \in Addrs : \E typed \in {0} \cup Received(t) :
             LookUp(q, t, c, a, typed) \/ LookUpBooking(q, t, c, a, typed)
 <2>1. PICK t \in Tables, c \in Chats, a \in Addrs : \E typed \in {0} \cup Received(t) :
            LookUp(q, t, c, a, typed) \/ LookUpBooking(q, t, c, a, typed)
   BY <1>2
 <2>2. PICK typed \in {0} \cup Received(t) : LookUp(q, t, c, a, typed) \/ LookUpBooking(q, t, c, a, typed) BY <2>1
 <2>3. LookUp(q, t, c, a, typed)
  <3>1. ASSUME LookUpBooking(q, t, c, a, typed)  PROVE FALSE
   <4>1. t \notin Lead /\ call[q].table = t BY <3>1, LookUpBookingEffect DEF Looks
   <4> QED BY <1>0, <4>1 DEF Steady, CallsGoOn
  <3> QED BY <2>2, <3>1
 <2> DEFINE n == LatestOf(Unused(t, a))
 <2>4. /\ call'[q].pc \in {"try", "done"} /\ Looks(q, t, c, a, typed, n, call'[q].pc)
       /\ call'[q].pc = "try" => n \in 1 .. Len(codes[t]) /\ codes[t][n].tries < MaxTries
   BY <2>3, LookUpEffect
 <2>5. n \in 1 .. Len(codes[t]) /\ codes[t][n].tries < MaxTries BY <2>4 DEF InVerification
 <2>6. call'[q].table = t /\ call'[q].n = n /\ call[q].pc = "new" /\ call'[q].pc # "new" BY <2>4 DEF Looks, Begins
 <2> HIDE DEF n
 <2>7. call'[q].since = Ended BY <2>6, SinceBegun
 <2>8. Earlier(q)' \in SUBSET Triers(t, n)
  <3>1. ASSUME NEW r \in Earlier(q)'  PROVE r \in Triers(t, n)
   <4>1. /\ r \in Ended /\ call'[r].op = "verify" /\ call'[r].table = t /\ call'[r].n = n /\ call'[r].tried
     BY <2>6, <2>7, <3>1 DEF Earlier
   <4>2. r # q BY <2>6, <4>1 DEF Ended, Over
   <4>3. call'[r] = call[r] BY <2>4, <4>1, <4>2 DEF Looks, Begins, Others, Ended
   <4> QED BY <4>1, <4>3 DEF Triers, Ended
  <3> QED BY <3>1
 <2>9. IsFiniteSet(Triers(t, n)) /\ Cardinality(Triers(t, n)) <= codes[t][n].tries BY <2>5 DEF Counted
 <2>10. IsFiniteSet(Earlier(q)') /\ Cardinality(Earlier(q)') <= Cardinality(Triers(t, n)) BY <2>8, <2>9, FS_Subset
 <2>11. Cardinality(Earlier(q)') \in Nat /\ Cardinality(Triers(t, n)) \in Nat BY <2>9, <2>10, FS_CardinalityType
 <2>12. codes[t][n].tries \in Nat /\ MaxTries \in Nat BY <2>5, TriesGrow, SettingsAssumption
 <2> QED BY <2>5, <2>9, <2>10, <2>11, <2>12
<1> QED
 <2>1. \/ call'[q] = call[q]
       \/ call'[q].n = call[q].n /\ call[q].pc \in {"try", "use"}
       \/ \E t \in Tables, c \in Chats, a \in Addrs : \E typed \in {0} \cup Received(t) :
            LookUp(q, t, c, a, typed) \/ LookUpBooking(q, t, c, a, typed)
   BY VerificationSteps
 <2> QED BY <1>1, <1>2, <2>1 DEF InVerification

\* Counted is kept by every step.
LEMMA CountedStep ==
  ASSUME Types, Begun, Holding, Memory, Requesting, Counted, [Next]_vars
  PROVE  Counted'
<1>1. CASE UNCHANGED vars BY <1>1 DEF vars, Counted, Triers, Earlier
<1>2. CASE Next
 <2>1. ASSUME NEW q \in Calls, call'[q].op = "verify", call'[q].tried
       PROVE  call'[q].n \in 1 .. Len(codes'[call'[q].table])
  <3>5. Steady /\ call[q].table \in Tables BY <1>2, NextSteady DEF Types, Local
  <3>6. call[q].op = "verify" /\ call'[q].table = call[q].table BY <2>1, <3>5 DEF Steady, CallsGoOn
  <3>7. /\ Len(codes[call[q].table]) \in Nat /\ Len(codes'[call[q].table]) \in Nat
        /\ Len(codes[call[q].table]) <= Len(codes'[call[q].table])
    BY <3>5 DEF Steady, CodesGrow, Types
  <3>0. /\ call[q].op = "verify" /\ call'[q].table = call[q].table /\ call[q].table \in Tables
        /\ Len(codes[call[q].table]) \in Nat /\ Len(codes'[call[q].table]) \in Nat
        /\ Len(codes[call[q].table]) <= Len(codes'[call[q].table])
    BY <3>5, <3>6, <3>7
  <3>1. call'[q].n = call[q].n /\ call[q].n \in 1 .. Len(codes[call[q].table])
   <4>1. CASE Try(q) BY <4>1, TryEffect DEF Holding, Verifying
   <4>2. CASE Quiet(q) BY <2>1, <3>0, <4>2 DEF Quiet, Counted
   <4>3. ~Issue(q) /\ ~Fresh(q) BY <2>1, <3>0, IssueEffect DEF Requesting, Fresh
   <4> QED BY <1>2, <4>1, <4>2, <4>3, FieldSteps
  <3> QED BY <3>0, <3>1
 <2> QED BY <1>2, <2>1, TriersCounted, EarlierBounded DEF Counted
<1> QED BY <1>1, <1>2

\* Counted implies the part of the invariant about guesses.
LEMMA CountedBounds ==
  ASSUME Counted
  PROVE  TriesBounded
BY DEF Counted, TriesBounded, Earlier, InVerification

--------------------
\* A code comes with the Issue of its author, at the time of now.
LEMMA RowChanges ==
  ASSUME Types, Begun, Holding, Next, NEW t \in Tables
  PROVE  /\ Len(codes[t]) \in Nat /\ Len(codes'[t]) \in Nat /\ Len(codes[t]) <= Len(codes'[t])
         /\ \A i \in 1 .. Len(codes[t]) :
              /\ codes'[t][i].by = codes[t][i].by /\ codes'[t][i].addr = codes[t][i].addr
              /\ codes'[t][i].at = codes[t][i].at /\ codes[t][i].at \in Nat
         /\ \A i \in 1 .. Len(codes'[t]) : i > Len(codes[t]) =>
              \E p \in Calls : /\ Issue(p) /\ call[p].table = t /\ codes'[t][i].by = p
                              /\ codes'[t][i].addr = call[p].addr /\ codes'[t][i].at = clock
<1>1. Steady BY NextSteady
<1>2. Len(codes[t]) \in Nat /\ Len(codes'[t]) \in Nat /\ Len(codes[t]) <= Len(codes'[t])
  BY <1>1 DEF Steady, CodesGrow, Types
<1>3. ASSUME NEW i \in 1 .. Len(codes[t])
      PROVE  /\ codes'[t][i].by = codes[t][i].by /\ codes'[t][i].addr = codes[t][i].addr
             /\ codes'[t][i].at = codes[t][i].at /\ codes[t][i].at \in Nat
 <2>1. codes[t][i] \in CodeRow BY DEF Types
 <2> QED BY <1>1, <2>1 DEF Steady, CodesGrow, CodeRow
<1>4. ASSUME NEW i \in 1 .. Len(codes'[t]), i > Len(codes[t])
      PROVE  \E p \in Calls : /\ Issue(p) /\ call[p].table = t /\ codes'[t][i].by = p
                             /\ codes'[t][i].addr = call[p].addr /\ codes'[t][i].at = clock
 <2>1. PICK p \in Calls :
         /\ Issue(p) /\ call[p].table = t
         /\ codes'[t][i] = [addr |-> call[p].addr, at |-> clock, tries |-> 0, used |-> FALSE, by |-> p]
   BY <1>4, CodeChanges
 <2> QED BY <2>1
<1> QED BY <1>2, <1>3, <1>4

\* A call's codes stay what they are unless it issues one.
LEMMA RowsOfCall ==
  ASSUME Types, Begun, Holding, Next, NEW t \in Tables, NEW q \in Calls, ~(Issue(q) /\ call[q].table = t)
  PROVE  Row(t, q)' = Row(t, q)
<1>1. DOMAIN codes[t] = 1 .. Len(codes[t]) /\ DOMAIN codes'[t] = 1 .. Len(codes'[t])
  BY NextSteady DEF Types, Steady, CodesGrow
<1>2. ASSUME NEW i \in Row(t, q)'  PROVE i \in Row(t, q) BY <1>1, <1>2, RowChanges DEF Row
<1>3. ASSUME NEW i \in Row(t, q)  PROVE i \in Row(t, q)' BY <1>1, <1>3, RowChanges DEF Row
<1> QED BY <1>2, <1>3

\* A call that has not passed Issue has no code and has read no choice; the mark
\* of a used choice, and a code within the cooldown, go back to a choice of
\* WhatsApp; the codes a call knows of leave room for its own.
Chosen == \E p \in Calls : call[p].seen = "whatsapp"
Since(q, gap) ==
  {r \in call[q].since : \E j \in Row(call[q].table, r) :
     /\ codes[call[q].table][j].addr = call[q].addr
     /\ clock - codes[call[q].table][j].at <= gap}
Knows(t, q, gap) == {r \in call[q].since : Near(t, q, r, gap)}
Unissued ==
  \A q \in Calls : call[q].pc \in {"new", "claim", "issue"} =>
    call[q].seen = "none" /\ \A t \in Tables : Row(t, q) = {}
Spaced ==
  /\ \A c \in Chats : pref[c] = "whatsapp_used" => Chosen
  /\ \A q \in Calls : call[q].pc = "issue" /\ call[q].table \in Sms /\ Since(q, Cooldown - 1) # {} => Chosen
  /\ \A t \in Sms, q \in Calls : Knows(t, q, Cooldown - 1) # {} => Chosen
Room ==
  /\ \A q \in Calls : call[q].pc = "issue" =>
       /\ IsFiniteSet(Since(q, Span[call[q].table]))
       /\ Cardinality(Since(q, Span[call[q].table])) < Cap[call[q].table]
  /\ \A t \in Tables, q \in Calls :
       Row(t, q) # {} => Cardinality(Knows(t, q, Span[t])) < Cap[t]

\* Unissued is kept: a code and a choice come with Issue.
LEMMA UnissuedStep ==
  ASSUME Types, Begun, Holding, Unissued, Next, NEW q \in Calls, call'[q].pc \in {"new", "claim", "issue"}
  PROVE  call'[q].seen = "none" /\ \A t \in Tables : Row(t, q)' = {}
<1>1. ~Issue(q) /\ ~Try(q) BY IssueEffect, TryEffect
<1>2. call[q].pc \in {"new", "claim", "issue"} /\ (Fresh(q) \/ Quiet(q))
 <2>1. CASE call'[q] = call[q] BY <2>1 DEF Quiet
 <2>2. CASE call'[q] # call[q] /\ call'[q].pc # "new"
  <3>1. call[q].pc \in {"new", "claim"} BY <2>2, GateSteps, CallbackEffect, RequestCodeEffect, ClaimEffect DEF Begins
  <3> QED BY <1>1, <3>1, FieldSteps
 <2>3. CASE call'[q].pc = "new" BY <2>3, NextSteady DEF Steady, CallsGoOn, Quiet
 <2> QED BY <2>1, <2>2, <2>3
<1>3. call'[q].seen = "none" BY <1>2 DEF Fresh, Quiet, Unissued
<1>4. ASSUME NEW t \in Tables  PROVE Row(t, q)' = {} BY <1>1, <1>2, RowsOfCall DEF Unissued
<1> QED BY <1>3, <1>4

\* A choice that was read stays read.
LEMMA ChosenStays ==
  ASSUME Types, Begun, Holding, Unissued, Next, Chosen
  PROVE  Chosen'
<1>1. PICK p \in Calls : call[p].seen = "whatsapp" BY DEF Chosen
<1>2. call[p].pc \notin {"new", "claim", "issue"} BY <1>1 DEF Unissued
<1>3. call'[p].seen = "whatsapp"
 <2>1. ~Issue(p) /\ ~Fresh(p) BY <1>2, IssueEffect DEF Fresh
 <2>2. Try(p) => call'[p].seen = call[p].seen BY TryEffect
 <2> QED BY <1>1, <2>1, <2>2, FieldSteps DEF Quiet
<1> QED BY <1>3 DEF Chosen

\* Where a call does not issue, it knows of the same codes near its own.
LEMMA KnowsStays ==
  ASSUME Types, Begun, Holding, Memory, Unissued, Next, NEW t \in Tables, NEW q \in Calls, NEW gap \in Int,
         ~(Issue(q) /\ call[q].table = t), Row(t, q)' # {}
  PROVE  /\ Row(t, q) # {} /\ Knows(t, q, gap)' = Knows(t, q, gap)
<1>1. Row(t, q)' = Row(t, q) /\ Row(t, q) # {} BY RowsOfCall
<1>2. call[q].pc # "new" BY <1>1 DEF Unissued
<1>3. call'[q].since = call[q].since /\ call[q].since \subseteq Calls BY <1>2, EarlierCalls
<1>4. ASSUME NEW r \in call[q].since  PROVE Near(t, q, r, gap)' = Near(t, q, r, gap)
 <2>1. Row(t, r)' = Row(t, r) BY <1>2, <1>3, EarlierCalls, RowsOfCall
 <2>2. ASSUME NEW i \in Row(t, q) \cup Row(t, r)
       PROVE  codes'[t][i].addr = codes[t][i].addr /\ codes'[t][i].at = codes[t][i].at
   BY RowChanges DEF Row, Types
 <2> QED BY <1>1, <2>1, <2>2 DEF Near
<1> QED BY <1>1, <1>3, <1>4 DEF Knows

\* At Issue, who is near was known to be: the new code is of now.
LEMMA KnowsIssued ==
  ASSUME Types, Begun, Holding, Memory, Unissued, Next, NEW q \in Calls, Issue(q), NEW gap \in Int,
         NEW t \in Tables, call[q].table = t
  PROVE  Knows(t, q, gap)' \subseteq Since(q, gap)
<1>0. call[q].pc = "issue" /\ clock \in Nat BY IssueEffect DEF Types, Local
<1>1. call'[q].since = call[q].since /\ call[q].since \subseteq Calls BY <1>0, EarlierCalls
<1>2. SUFFICES ASSUME NEW r \in call[q].since, NEW i \in Row(t, q)', NEW j \in Row(t, r)',
                      codes'[t][i].addr = codes'[t][j].addr, codes'[t][i].at - codes'[t][j].at \in 0 .. gap
               PROVE  r \in Since(q, gap)
  BY <1>1 DEF Knows, Near
<1>3. Row(t, r)' = Row(t, r) BY <1>0, <1>1, EarlierCalls, RowsOfCall
<1>4. codes'[t][i].addr = call[q].addr /\ codes'[t][i].at = clock
 <2>1. i \in 1 .. Len(codes'[t]) /\ codes'[t][i].by = q BY <1>0, NextSteady DEF Row, Steady, CodesGrow
 <2>2. ~(i \in 1 .. Len(codes[t]))
  <3>1. Row(t, q) = {} BY <1>0 DEF Unissued
  <3>2. i \in 1 .. Len(codes[t]) => codes[t][i].by = q BY <1>0, <2>1, RowChanges
  <3> QED BY <1>0, <3>1, <3>2 DEF Row, Types
 <2> QED BY <1>0, <2>1, <2>2, RowChanges
<1>5. /\ j \in Row(t, r) /\ codes'[t][j].addr = codes[t][j].addr
      /\ codes'[t][j].at = codes[t][j].at /\ codes[t][j].at \in Nat
 <2>1. j \in Row(t, r) BY <1>3
 <2>2. j \in 1 .. Len(codes[t]) BY <1>0, <2>1 DEF Row, Types
 <2> QED BY <1>0, <2>1, <2>2, RowChanges
<1>6. codes[t][j].addr = call[q].addr /\ clock - codes[t][j].at <= gap
 <2>1. codes[t][j].addr = call[q].addr BY <1>2, <1>4, <1>5
 <2>2. clock - codes[t][j].at \in 0 .. gap BY <1>2, <1>4, <1>5
 <2> QED BY <1>0, <1>5, <2>1, <2>2
<1> QED BY <1>5, <1>6 DEF Since

\* As time goes on, a call that waits to issue knows of fewer codes.
LEMMA SinceShrinks ==
  ASSUME Types, Begun, Holding, Memory, Next, NEW q \in Calls, NEW gap \in Int,
         call'[q].pc = "issue", call'[q] = call[q]
  PROVE  Since(q, gap)' \subseteq Since(q, gap)
<1>0. PICK t \in Tables : t = call[q].table BY DEF Types, Local
<1>1. call'[q].since = call[q].since /\ call[q].since \subseteq Calls /\ clock \in Nat /\ clock' \in Nat /\ clock <= clock'
  BY NextSteady DEF Types, Local, Steady
<1>2. SUFFICES ASSUME NEW r \in call[q].since, NEW j \in Row(t, r)',
                      codes'[t][j].addr = call[q].addr, clock' - codes'[t][j].at <= gap
               PROVE  r \in Since(q, gap)
  BY <1>0, <1>1 DEF Since
<1>3. Row(t, r)' = Row(t, r) BY <1>1, EarlierCalls, RowsOfCall
<1>4. j \in Row(t, r) /\ j \in 1 .. Len(codes[t]) BY <1>3 DEF Row, Types
<1>5. /\ codes'[t][j].addr = codes[t][j].addr /\ codes'[t][j].at = codes[t][j].at /\ codes[t][j].at \in Nat
  BY <1>4, RowChanges
<1>6. codes[t][j].addr = call[q].addr /\ clock - codes[t][j].at <= gap BY <1>1, <1>2, <1>5
<1> QED BY <1>0, <1>4, <1>6 DEF Since

\* The gates count the rows, and a call that passes them knows of no more calls
\* than there are rows.
LEMMA GatesCount ==
  ASSUME Types, Begun, Holding, Memory, Next, NEW q \in Calls, call'[q].pc = "issue", call'[q] # call[q]
  PROVE  /\ IsFiniteSet(Since(q, Span[call[q].table])')
         /\ Cardinality(Since(q, Span[call[q].table])') < Cap[call[q].table]
         /\ call[q].table \in Sms /\ Since(q, Cooldown - 1)' # {} => pref[call[q].chat] = "whatsapp_used"
<1>0. PICK t \in Tables : t = call[q].table BY DEF Types, Local
<1>1. GateMade(q) /\ UNCHANGED codes BY Arrivals
<1>2. /\ call'[q].table = t /\ call'[q].chat = call[q].chat /\ call[q].chat \in Chats
      /\ call'[q].addr \in Addrs /\ call'[q].since \subseteq Calls
  BY <1>0, NextSteady DEF Steady, CallsGoOn, Types, Local
<1> DEFINE a == call'[q].addr
           D == 1 .. Len(codes[t])
<1>3. Verdict(t, call[q].chat, a) = "go" BY <1>1, <1>2 DEF GateMade
<1>4. ~(Cardinality(Recent(t, a)) >= Cap[t]) /\ (t \in Sms /\ Cooling(t, a) => pref[call[q].chat] = "whatsapp_used")
  BY <1>3 DEF Verdict
<1>5. clock' = clock /\ clock \in Nat
 <2>1. \A m \in Calls : Callback(q, m) => clock' = clock BY CallbackEffect
 <2>2. \A c \in Chats, u \in Addrs, k \in Tables : RequestCode(q, k, c, u) => clock' = clock BY RequestCodeEffect
 <2>3. Claim(q) => clock' = clock BY ClaimEffect
 <2> QED BY <2>1, <2>2, <2>3, GateSteps DEF Types
<1>6. codes[t] \in Seq(CodeRow) /\ DOMAIN codes[t] = D /\ Len(codes[t]) \in Nat BY DEF Types
<1>7. ASSUME NEW gap \in Int, NEW r \in Since(q, gap)'
      PROVE  \E j \in D : codes[t][j].by = r /\ codes[t][j].addr = a /\ clock - codes[t][j].at <= gap
  BY <1>1, <1>2, <1>5, <1>6, <1>7 DEF Since, Row
<1>8. ASSUME NEW gap \in Int, Since(q, gap)' # {}
      PROVE  \E j \in D : codes[t][j].addr = a /\ clock - codes[t][j].at <= gap
  BY <1>7, <1>8
<1>9. Span[t] \in Nat /\ Cap[t] \in Nat /\ Cooldown \in Nat BY SettingsAssumption
<1>10. t \in Sms /\ Since(q, Cooldown - 1)' # {} => pref[call[q].chat] = "whatsapp_used"
 <2>1. SUFFICES ASSUME t \in Sms, Since(q, Cooldown - 1)' # {}  PROVE Cooling(t, a) BY <1>4
 <2>2. PICK j \in D : codes[t][j].addr = a /\ clock - codes[t][j].at <= Cooldown - 1 BY <1>8, <1>9, <2>1
 <2>3. codes[t][j].at \in Nat
  <3>1. codes[t][j] \in CodeRow BY <1>6
  <3> QED BY <3>1 DEF CodeRow
 <2>4. clock - codes[t][j].at < Cooldown BY <1>5, <1>9, <2>2, <2>3
 <2> QED BY <1>6, <2>2, <2>4 DEF Cooling
<1>11. IsFiniteSet(Since(q, Span[t])') /\ Cardinality(Since(q, Span[t])') < Cap[t]
 <2> DEFINE R == Recent(t, a)
            T == {r \in Calls : \E j \in R : codes[t][j].by = r}
            f == [j \in R |-> codes[t][j].by]
 <2>1. R \in SUBSET D BY <1>6 DEF Recent
 <2>2. IsFiniteSet(D) BY <1>6, FS_Interval
 <2>3. IsFiniteSet(R) BY <2>1, <2>2, FS_Subset
 <2>4. \A j \in R : codes[t][j].by \in Calls
  <3>1. \A j \in R : codes[t][j] \in CodeRow BY <1>6, <2>1
  <3> QED BY <3>1 DEF CodeRow
 <2>5. Since(q, Span[t])' \in SUBSET T
  <3>1. ASSUME NEW r \in Since(q, Span[t])'  PROVE r \in T
   <4>1. PICK j \in D : codes[t][j].by = r /\ codes[t][j].addr = a /\ clock - codes[t][j].at <= Span[t]
     BY <1>7, <1>9, <3>1
   <4>2. j \in R BY <1>6, <4>1 DEF Recent
   <4> QED BY <2>4, <4>1, <4>2
  <3> QED BY <3>1
 <2> HIDE DEF R
 <2>6. f \in Surjection(R, T) BY <2>4 DEF Surjection
 <2>7. IsFiniteSet(T) /\ Cardinality(T) <= Cardinality(R) BY <2>3, <2>6, FS_Surjection
 <2> HIDE DEF T
 <2>8. IsFiniteSet(Since(q, Span[t])') /\ Cardinality(Since(q, Span[t])') <= Cardinality(T) BY <2>5, <2>7, FS_Subset
 <2>9. Cardinality(Since(q, Span[t])') \in Nat /\ Cardinality(T) \in Nat /\ Cardinality(R) \in Nat
   BY <2>3, <2>7, <2>8, FS_CardinalityType
 <2>10. Cardinality(R) < Cap[t] BY <1>4, <1>9, <2>9 DEF R
 <2> QED BY <1>9, <2>7, <2>8, <2>9, <2>10
<1> QED BY <1>0, <1>2, <1>10, <1>11

\* The Redis keys are written by the visitor, by a message and by a callback.
LEMMA KeyWriters ==
  ASSUME Types, Begun, Holding, Next
  PROVE  \/ UNCHANGED keys
         \/ \E c \in Chats, ch \in Channels : SetOtpChannel(c, ch)
         \/ \E q \in Calls : Send(q) \/ Claim(q)
<1>1. Tick => UNCHANGED keys BY TickEffect DEF keys
<1>2. ASSUME NEW d \in Chats \cup {None}, RecordConsent(d)  PROVE UNCHANGED keys BY <1>2, RecordConsentEffect DEF keys
<1>3. ASSUME NEW d \in Chats, NEW i \in DOMAIN consents, BindConsent(i, d)  PROVE UNCHANGED keys
  BY <1>3, BindConsentEffect DEF keys
<1>4. ASSUME NEW d \in Chats, Book(d)  PROVE UNCHANGED keys BY <1>4, BookEffect DEF keys
<1>5. ASSUME NEW q \in Calls, NEW m \in Calls, Callback(q, m)  PROVE UNCHANGED keys BY <1>5, CallbackEffect DEF keys
<1>6. ASSUME NEW q \in Calls, NEW d \in Chats, NEW a \in Addrs, NEW t \in Tables, RequestCode(q, t, d, a)
      PROVE  UNCHANGED keys
  BY <1>6, RequestCodeEffect DEF keys
<1>7. ASSUME NEW q \in Calls, NEW d \in Chats, NEW a \in Addrs, NEW t \in Tables,
             NEW typed \in {0} \cup Received(t), LookUp(q, t, d, a, typed) \/ LookUpBooking(q, t, d, a, typed)
      PROVE  UNCHANGED keys
  BY <1>7, LookUpEffect, LookUpBookingEffect DEF keys
<1>8. ASSUME NEW q \in Calls, NEW d \in Chats, NEW a \in Addrs, NEW booked \in BOOLEAN,
             NEW mailOk \in BOOLEAN, NEW smsOk \in BOOLEAN, Submit(q, d, a, booked, mailOk, smsOk)
      PROVE  UNCHANGED keys
  BY <1>8, SubmitEffect DEF SubmitMade, keys
<1>9. ASSUME NEW q \in Calls, Issue(q) \/ NoteSent(q)  PROVE UNCHANGED keys
  BY <1>9, IssueEffect, NoteSentEffect DEF keys
<1>10. ASSUME NEW q \in Calls, Try(q) \/ MarkUsed(q) \/ Grant(q)  PROVE UNCHANGED keys
  BY <1>10, TryEffect, MarkUsedEffect, GrantEffect DEF keys
<1>11. ASSUME NEW q \in Calls, NEW status \in Statuses, Deliver(q, status)  PROVE UNCHANGED keys
  BY <1>11, DeliverEffect DEF keys
<1>12. ASSUME NEW q \in Calls, RecordLead(q) \/ Die(q)  PROVE UNCHANGED keys
  BY <1>12, RecordLeadEffect, DieEffect DEF keys
<1> QED BY NextCases, <1>1, <1>2, <1>3, <1>4, <1>5, <1>6, <1>7, <1>8, <1>9, <1>10, <1>11, <1>12

\* A mark of a used choice comes with a message.
LEMMA PrefWriters ==
  ASSUME Types, Begun, Holding, Next, NEW c \in Chats, pref'[c] # pref[c], pref'[c] = "whatsapp_used"
  PROVE  \E q \in Calls : Send(q)
<1>1. ASSUME NEW d \in Chats, NEW ch \in Channels, SetOtpChannel(d, ch)  PROVE FALSE
 <2>1. ch \in {"sms", "whatsapp"} /\ pref' = [pref EXCEPT ![d] = ch] BY <1>1, SetOtpChannelEffect
 <2> QED BY <2>1 DEF Types
<1>2. ASSUME NEW q \in Calls, Claim(q)  PROVE pref' = pref BY <1>2, ClaimEffect
<1> QED BY KeyWriters, <1>1, <1>2 DEF keys

\* The mark of a used choice is left by a message sent by WhatsApp.
LEMMA MarksStep ==
  ASSUME Types, Begun, Holding, Unissued, Spaced, Next, NEW c \in Chats, pref'[c] = "whatsapp_used"
  PROVE  Chosen'
<1>1. CASE pref[c] = "whatsapp_used" BY <1>1, ChosenStays DEF Spaced
<1>2. CASE pref[c] # "whatsapp_used"
 <2>1. PICK q \in Calls : Send(q) BY <1>2, PrefWriters
 <2>2. /\ pref' \in {pref, [pref EXCEPT ![call[q].chat] = Marked(call[q].seen, pref[call[q].chat])]}
       /\ pref \in [Chats -> Channels]
   BY <2>1, SendEffect DEF Types
 <2>3. call[q].chat = c /\ Marked(call[q].seen, pref[c]) = "whatsapp_used" BY <1>2, <2>2
 <2>4. call[q].seen = "whatsapp" BY <1>2, <2>3 DEF Marked
 <2>5. Chosen BY <2>4 DEF Chosen
 <2> QED BY <2>5, ChosenStays
<1> QED BY <1>1, <1>2

\* Spaced is kept by every step.
LEMMA SpacedStep ==
  ASSUME Types, Begun, Holding, Memory, Unissued, Spaced, Next
  PROVE  Spaced'
<1>0. Cooldown - 1 \in Int /\ Sms \subseteq Tables BY SettingsAssumption DEF Tables
<1>1. ASSUME NEW c \in Chats, pref'[c] = "whatsapp_used"  PROVE Chosen' BY <1>1, MarksStep
<1>2. ASSUME NEW q \in Calls, call'[q].pc = "issue", call'[q].table \in Sms, Since(q, Cooldown - 1)' # {}
      PROVE  Chosen'
 <2>0. call'[q].table = call[q].table /\ call[q].chat \in Chats BY NextSteady DEF Steady, CallsGoOn, Types, Local
 <2>1. CASE call'[q] = call[q]
  <3>1. Since(q, Cooldown - 1) # {} BY <1>0, <1>2, <2>1, SinceShrinks
  <3> QED BY <1>2, <2>1, <3>1, ChosenStays DEF Spaced
 <2>2. CASE call'[q] # call[q]
  <3>1. pref[call[q].chat] = "whatsapp_used" BY <1>2, <2>0, <2>2, GatesCount
  <3> QED BY <2>0, <3>1, ChosenStays DEF Spaced
 <2> QED BY <2>1, <2>2
<1>3. ASSUME NEW t \in Sms, NEW q \in Calls, Knows(t, q, Cooldown - 1)' # {}  PROVE Chosen'
 <2>1. CASE Issue(q) /\ call[q].table = t
  <3>1. Since(q, Cooldown - 1) # {} /\ call[q].pc = "issue" BY <1>0, <1>3, <2>1, KnowsIssued, IssueEffect
  <3> QED BY <2>1, <3>1, ChosenStays DEF Spaced
 <2>2. CASE ~(Issue(q) /\ call[q].table = t)
  <3>1. Row(t, q)' # {} BY <1>3 DEF Knows, Near
  <3>2. Knows(t, q, Cooldown - 1) # {} BY <1>0, <1>3, <2>2, <3>1, KnowsStays
  <3> QED BY <3>2, ChosenStays DEF Spaced
 <2> QED BY <2>1, <2>2
<1> QED BY <1>1, <1>2, <1>3 DEF Spaced

\* Room is kept by every step.
LEMMA RoomStep ==
  ASSUME Types, Begun, Holding, Memory, Unissued, Room, Next
  PROVE  Room'
<1>0. \A t \in Tables : Span[t] \in Int /\ Cap[t] \in Nat BY SettingsAssumption
<1>1. ASSUME NEW q \in Calls, call'[q].pc = "issue"
      PROVE  /\ IsFiniteSet(Since(q, Span[call[q].table])')
             /\ Cardinality(Since(q, Span[call[q].table])') < Cap[call'[q].table]
 <2>0. PICK t \in Tables : call[q].table = t /\ call'[q].table = t BY NextSteady DEF Steady, CallsGoOn, Types, Local
 <2>1. CASE call'[q] = call[q]
  <3>1. IsFiniteSet(Since(q, Span[t])) /\ Cardinality(Since(q, Span[t])) < Cap[t] BY <1>1, <2>0, <2>1 DEF Room
  <3>2. Since(q, Span[t])' \in SUBSET Since(q, Span[t]) BY <1>0, <1>1, <2>1, SinceShrinks
  <3>3. IsFiniteSet(Since(q, Span[t])') /\ Cardinality(Since(q, Span[t])') <= Cardinality(Since(q, Span[t]))
    BY <3>1, <3>2, FS_Subset
  <3>4. Cardinality(Since(q, Span[t])') \in Nat /\ Cardinality(Since(q, Span[t])) \in Nat
    BY <3>1, <3>3, FS_CardinalityType
  <3>5. Cardinality(Since(q, Span[t])') < Cap[t] BY <1>0, <3>1, <3>3, <3>4
  <3> QED BY <2>0, <3>3, <3>5
 <2>2. CASE call'[q] # call[q] BY <1>1, <2>0, <2>2, GatesCount
 <2> QED BY <2>1, <2>2
<1>2. ASSUME NEW t \in Tables, NEW q \in Calls, Row(t, q)' # {}
      PROVE  Cardinality(Knows(t, q, Span[t])') < Cap[t]
 <2>1. CASE Issue(q) /\ call[q].table = t
  <3>1. call[q].pc = "issue" BY <2>1, IssueEffect
  <3>2. IsFiniteSet(Since(q, Span[t])) /\ Cardinality(Since(q, Span[t])) < Cap[t] BY <2>1, <3>1 DEF Room
  <3>3. Knows(t, q, Span[t])' \in SUBSET Since(q, Span[t]) BY <1>0, <2>1, KnowsIssued
  <3>4. /\ IsFiniteSet(Knows(t, q, Span[t])')
        /\ Cardinality(Knows(t, q, Span[t])') <= Cardinality(Since(q, Span[t]))
    BY <3>2, <3>3, FS_Subset
  <3>5. Cardinality(Knows(t, q, Span[t])') \in Nat /\ Cardinality(Since(q, Span[t])) \in Nat
    BY <3>2, <3>4, FS_CardinalityType
  <3> QED BY <1>0, <3>2, <3>4, <3>5
 <2>2. CASE ~(Issue(q) /\ call[q].table = t)
  <3>1. Row(t, q) # {} /\ Knows(t, q, Span[t])' = Knows(t, q, Span[t]) BY <1>0, <1>2, <2>2, KnowsStays
  <3> QED BY <3>1 DEF Room
 <2> QED BY <2>1, <2>2
<1> QED BY <1>1, <1>2 DEF Room

\* What the limits rest on.
Limits == Once /\ Requesting /\ Counted /\ Unissued /\ Spaced /\ Room

\* Nothing is sent, tried or signed at the start.
LEMMA InitLimits == Init => Limits
<1> SUFFICES ASSUME Init  PROVE Limits OBVIOUS
<1>1. /\ tokens = {} /\ \A t \in Tables : codes[t] = <<>>
      /\ \A q \in Calls : call[q].pc = "new" /\ call[q].seen = "none" /\ call[q].tried = FALSE
      /\ \A c \in Chats : pref[c] = "none"
  BY DEF Init, Idle
<1>2. \A t \in Tables, q \in Calls : Row(t, q) = {} BY <1>1 DEF Row
<1>3. Once /\ Requesting BY <1>1 DEF Once, Requesting, InVerification
<1>4. Counted BY <1>1 DEF Counted, InVerification
<1>5. Unissued BY <1>1, <1>2 DEF Unissued
<1>6. Spaced
 <2>1. \A t \in Sms, q \in Calls : Row(t, q) = {} BY <1>2 DEF Tables
 <2>2. \A t \in Sms, q \in Calls : Knows(t, q, Cooldown - 1) = {} BY <2>1 DEF Knows, Near
 <2> QED BY <1>1, <2>2 DEF Spaced
<1>7. Room BY <1>1, <1>2 DEF Room
<1> QED BY <1>3, <1>4, <1>5, <1>6, <1>7 DEF Limits

\* The limits are kept by every step.
LEMMA LimitsStep ==
  ASSUME Types, Begun, Holding, Proofs, Memory, Limits, [Next]_vars
  PROVE  Limits'
<1>1. Once' /\ Requesting' /\ Counted' BY OnceStep, RequestingStep, CountedStep DEF Limits
<1>2. CASE UNCHANGED vars
 <2>1. Unissued' BY <1>2 DEF vars, Limits, Unissued, Row
 <2>2. Spaced' BY <1>2 DEF vars, Limits, Spaced, Chosen, Since, Knows, Near, Row
 <2>3. Room' BY <1>2 DEF vars, Limits, Room, Since, Knows, Near, Row
 <2> QED BY <1>1, <2>1, <2>2, <2>3 DEF Limits
<1>3. CASE Next
 <2>1. Unissued' BY <1>3, UnissuedStep DEF Limits, Unissued
 <2> QED BY <1>1, <1>3, <2>1, SpacedStep, RoomStep DEF Limits
<1> QED BY <1>2, <1>3

\* The parts of Limits imply those of the invariant the run checks.
LEMMA LimitsAreHeld ==
  ASSUME Types, Limits
  PROVE  LimitsHoldUnraced
<1>1. RateBounded BY DEF Limits, Room, Knows, RateBounded
<1>2. SpacedUnlessSwitching
 <2>1. ASSUME NEW t \in Sms, NEW q \in Calls, NEW r \in call[q].since, Near(t, q, r, Cooldown - 1)
       PROVE  Chosen
  <3>1. Knows(t, q, Cooldown - 1) # {} BY <2>1 DEF Knows
  <3> QED BY <3>1 DEF Limits, Spaced
 <2> QED BY <2>1 DEF SpacedUnlessSwitching, Chosen
<1>3. TokenTwiceOnlyRacing /\ TriesBounded BY OnceGivesOne, CountedBounds DEF Limits
<1> QED BY <1>1, <1>2, <1>3 DEF LimitsHoldUnraced

\* In every instance, whatever requests interleave: a code gives one token, MaxTries
\* guesses and Cap codes a window, and a phone one SMS within the cooldown, unless
\* the requests raced or the visitor had chosen WhatsApp (verifyCode, verifySmsCode,
\* requestVerification, requestSmsVerification of LeadService and BookingService).
THEOREM LimitsAlwaysHold == Spec => []LimitsHoldUnraced
<1> DEFINE Base == Types /\ Begun /\ Holding /\ Ranges /\ Proofs /\ Memory
           Inv == Base /\ Limits
<1>1. Init => Inv BY InitTypes, InitHolds, InitProofs, InitMemory, InitLimits
<1>2. Inv /\ [Next]_vars => Inv' BY SmallStep, RangesStep, ProofsStep, MemoryStep, LimitsStep
<1>3. Inv => LimitsHoldUnraced BY LimitsAreHeld
<1> QED BY <1>1, <1>2, <1>3, PTL DEF Spec

--------------------
(* One code at a time. *)

\* A call that has not begun is as Init left it.
LEMMA NewIsIdle ==
  ASSUME Begun, NEW p \in Calls, call[p].pc = "new"
  PROVE  call[p].of = None /\ call[p].seen = "none" /\ call[p].since = {} /\ ~call[p].noted
<1>1. call[p] = Idle(call[p].op, call[p].table, call[p].chat) BY DEF Begun
<1>2. ASSUME NEW o, NEW t, NEW c
      PROVE  /\ Idle(o, t, c).of = None /\ Idle(o, t, c).seen = "none"
             /\ Idle(o, t, c).since = {} /\ ~Idle(o, t, c).noted
  BY DEF Idle
<1> QED BY <1>1, <1>2

\* A call leaves the note it has to make, or its claim, by making it or by dying.
LEMMA Departures ==
  ASSUME Types, Begun, Holding, Next, NEW p \in Calls, call'[p] # call[p]
  PROVE  /\ call[p].pc = "flow" => NoteSent(p) \/ Die(p)
         /\ call[p].pc = "claim" => Claim(p) \/ Die(p)
<1> DEFINE From(S) == call[p].pc \in S
<1>1. ASSUME NEW m \in Calls, Callback(p, m)  PROVE From({"new"}) BY <1>1, CallbackEffect DEF Begins
<1>2. ASSUME NEW c \in Chats, NEW a \in Addrs, NEW t \in Tables, RequestCode(p, t, c, a)  PROVE From({"new"})
  BY <1>2, RequestCodeEffect DEF Begins
<1>3. ASSUME NEW c \in Chats, NEW a \in Addrs, Submitted(p, c, a)  PROVE From({"new"})
  BY <1>3, SubmittedMade DEF SubmitMade, Begins
<1>4. ASSUME NEW c \in Chats, NEW a \in Addrs, NEW t \in Tables, NEW typed \in {0} \cup Received(t),
             LookUp(p, t, c, a, typed) \/ LookUpBooking(p, t, c, a, typed)
      PROVE  From({"new"})
  BY <1>4, LookUpEffect, LookUpBookingEffect DEF Looks, Begins
<1>5. (Issue(p) => From({"issue"})) /\ (Send(p) => From({"send"}))
      /\ (NoteSent(p) => From({"flow"})) /\ (Claim(p) => From({"claim"}))
  BY IssueEffect, SendEffect, NoteSentEffect, ClaimEffect DEF Proceeds
<1>6. (Try(p) => From({"try"})) /\ (MarkUsed(p) => From({"use"})) /\ (Grant(p) => From({"grant"}))
      /\ (RecordLead(p) => From(Statuses))
  BY TryEffect, MarkUsedEffect, GrantEffect, RecordLeadEffect DEF Proceeds
<1>7. ASSUME NEW status \in Statuses, Deliver(p, status)  PROVE From({"deliver"}) BY <1>7, DeliverEffect DEF Proceeds
<1> QED BY OwnSteps, PcFacts, <1>1, <1>2, <1>3, <1>4, <1>5, <1>6, <1>7

\* A call whose message has gone out.
PastSend(p) == call[p].pc \in {"flow"} \cup Over
\* Such a call stays one, with what it has read.
LEMMA PastSendStays ==
  ASSUME Types, Begun, Holding, Next, NEW p \in Calls, PastSend(p)
  PROVE  PastSend(p)' /\ Quiet(p)
<1>1. Quiet(p) BY FieldSteps, IssueEffect, TryEffect DEF Fresh, PastSend, Over
<1>2. CASE call[p].pc \in Over BY <1>1, <1>2, NextSteady DEF Steady, CallsGoOn, PastSend
<1>3. CASE call[p].pc = "flow"
 <2>1. CASE call'[p] = call[p] BY <1>1, <2>1 DEF PastSend
 <2>2. CASE call'[p] # call[p] BY <1>1, <1>3, <2>2, Departures, NoteSentEffect, DieEffect DEF Proceeds, PastSend, Over
 <2> QED BY <2>1, <2>2
<1> QED BY <1>2, <1>3 DEF PastSend

\* A key of a message is written by its Send and removed by a Claim.
LEMMA PendingSteps ==
  ASSUME Types, Begun, Holding, Next
  PROVE  \/ pending' \subseteq pending
         \/ \E q \in Calls : Send(q) /\ pending' = pending \cup {q} /\ call'[q].pc = "flow"
<1>1. ASSUME NEW c \in Chats, NEW ch \in Channels, SetOtpChannel(c, ch)  PROVE pending' = pending
  BY <1>1, SetOtpChannelEffect
<1>2. ASSUME NEW q \in Calls, Claim(q)  PROVE pending' \subseteq pending BY <1>2, ClaimEffect
<1>3. ASSUME NEW q \in Calls, Send(q)
      PROVE  pending' = pending \/ (pending' = pending \cup {q} /\ call'[q].pc = "flow")
  BY <1>3, SendEffect
<1> QED BY KeyWriters, <1>1, <1>2, <1>3 DEF keys

\* A call is about a message from the callback on.
LEMMA OfSteps ==
  ASSUME Types, Begun, Holding, Next, NEW p \in Calls
  PROVE  \/ call'[p].of = call[p].of /\ (call[p].pc = "new" => call[p].of = None)
         \/ \E m \in Calls : Callback(p, m)
<1>1. CASE call[p].pc # "new" BY <1>1, NextSteady DEF Steady, CallsGoOn, Kept
<1>2. CASE call[p].pc = "new"
 <2>1. call[p].of = None BY <1>2, NewIsIdle
 <2>2. ASSUME NEW c \in Chats, NEW a \in Addrs, NEW t \in Tables, RequestCode(p, t, c, a)
       PROVE  call'[p].of = None
   BY <2>2, RequestCodeEffect
 <2>3. ASSUME NEW c \in Chats, NEW a \in Addrs, Submitted(p, c, a)  PROVE call'[p].of = None
   BY <2>3, SubmittedMade DEF SubmitMade
 <2>4. ASSUME NEW c \in Chats, NEW a \in Addrs, NEW t \in Tables, NEW typed \in {0} \cup Received(t),
              LookUp(p, t, c, a, typed) \/ LookUpBooking(p, t, c, a, typed)
       PROVE  call'[p].of = None
  <3>1. LookUp(p, t, c, a, typed) => call'[p].of = None BY LookUpEffect DEF Looks
  <3>2. LookUpBooking(p, t, c, a, typed) => call'[p].of = None BY LookUpBookingEffect DEF Looks
  <3> QED BY <2>4, <3>1, <3>2
 <2>5. ~Issue(p) /\ ~Send(p) /\ ~NoteSent(p) /\ ~Claim(p)
   BY <1>2, IssueEffect, SendEffect, NoteSentEffect, ClaimEffect DEF Proceeds
 <2>6. ~Try(p) /\ ~MarkUsed(p) /\ ~Grant(p) /\ ~RecordLead(p) /\ ~Die(p)
   BY <1>2, PcFacts, TryEffect, MarkUsedEffect, GrantEffect, RecordLeadEffect, DieEffect DEF Proceeds
 <2>7. ASSUME NEW status \in Statuses, Deliver(p, status)  PROVE FALSE BY <1>2, <2>7, DeliverEffect DEF Proceeds
 <2> QED BY OwnSteps, <2>1, <2>2, <2>3, <2>4, <2>5, <2>6, <2>7
<1> QED BY <1>1, <1>2

\* A message with a key has gone out, and so has one that a callback was about;
\* unless something fails, a callback that has claimed a message has removed its
\* key, so that one that begins later finds none.
Rescued ==
  /\ \A m \in pending : PastSend(m)
  /\ \A r \in Calls : call[r].of # None => PastSend(call[r].of) /\ call[r].of \in Calls
  /\ ~plan.failures => \A r \in Calls : call[r].of # None /\ call[r].pc # "claim" => call[r].of \notin pending
  /\ ~plan.failures => \A q \in Calls : \A r \in call[q].since :
       call[q].of # None => call[q].of # call[r].of

\* Rescued is kept by every step.
LEMMA RescuedStep ==
  ASSUME Types, Begun, Holding, Memory, Rescued, [Next]_vars
  PROVE  Rescued'
<1>1. CASE UNCHANGED vars BY <1>1 DEF vars, Rescued, PastSend
<1>2. CASE Next
 <2>0. Steady /\ pending \subseteq Calls /\ pending' \subseteq Calls /\ None \notin Calls
   BY <1>2, NextSteady, SettingsAssumption DEF Types, Steady
 <2>1. ASSUME NEW m \in pending'  PROVE PastSend(m)'
  <3>1. CASE m \in pending BY <1>2, <2>0, <3>1, PastSendStays DEF Rescued
  <3>2. CASE m \notin pending
   <4>1. call'[m].pc = "flow" BY <1>2, <2>1, <3>2, PendingSteps
   <4> QED BY <4>1 DEF PastSend
  <3> QED BY <3>1, <3>2
 <2>2. ASSUME NEW r \in Calls, call'[r].of # None  PROVE PastSend(call[r].of)' /\ call'[r].of \in Calls
  <3>1. PICK m \in Calls : call'[r].of = m /\ PastSend(m)
   <4>1. CASE call'[r].of = call[r].of BY <2>2, <4>1 DEF Rescued
   <4>2. CASE \E m \in Calls : Callback(r, m) BY <4>2, CallbackEffect DEF Rescued
   <4> QED BY <1>2, <4>1, <4>2, OfSteps
  <3>2. PastSend(m)' BY <1>2, <3>1, PastSendStays
  <3> QED BY <3>1, <3>2 DEF PastSend
 <2>3. ASSUME ~plan.failures, NEW r \in Calls, call'[r].of # None, call'[r].pc # "claim"
       PROVE  call'[r].of \notin pending'
  <3>1. call'[r].of = call[r].of /\ call[r].pc # "new"
   <4>1. ASSUME NEW m \in Calls, Callback(r, m)  PROVE FALSE BY <2>3, <4>1, CallbackEffect DEF Begins
   <4> QED BY <1>2, <2>3, <4>1, OfSteps
  <3>2. PICK m \in Calls : m = call[r].of /\ PastSend(m) BY <2>3, <3>1 DEF Rescued
  <3>3. CASE call[r].pc = "claim"
   <4>1. Claim(r)
    <5>1. ~Die(r) BY <2>3 DEF Die
    <5> QED BY <1>2, <2>3, <3>3, <5>1, Departures
   <4>2. pending' = pending \ {m} BY <2>3, <3>2, <4>1, ClaimEffect
   <4> QED BY <3>1, <3>2, <4>2
  <3>4. CASE call[r].pc # "claim"
   <4>1. m \notin pending BY <2>3, <3>1, <3>2, <3>4 DEF Rescued
   <4>2. ~Send(m) BY <3>2, SendEffect DEF Proceeds, PastSend, Over
   <4> QED BY <1>2, <3>1, <3>2, <4>1, <4>2, PendingSteps
  <3> QED BY <3>3, <3>4
 <2>4. ASSUME ~plan.failures, NEW q \in Calls, NEW r \in call'[q].since, call'[q].of # None
       PROVE  call'[q].of # call'[r].of
  <3>1. CASE call'[q].of = call[q].of /\ call[q].pc # "new"
   <4>1. call'[q].since = call[q].since /\ call[q].since \subseteq Calls BY <1>2, <3>1, EarlierCalls
   <4>2. r \in Calls /\ call[r].pc \in Over BY <2>4, <4>1 DEF Memory, Requests
   <4>3. call'[r].of = call[r].of BY <2>0, <4>2 DEF Steady, CallsGoOn, Kept, Over
   <4> QED BY <2>4, <3>1, <4>1, <4>3 DEF Rescued
  <3>2. CASE \E m \in Calls : Callback(q, m)
   <4>1. PICK m \in Calls : Callback(q, m) BY <3>2
   <4>2. m \in pending /\ call'[q].of = m /\ Begins(q, call[m].addr, "claim") BY <4>1, CallbackEffect
   <4>3. r \in Calls /\ call[r].pc \in Over /\ call'[r] = call[r] BY <2>4, <4>2 DEF Begins, Others, Ended, Over
   <4>4. call[r].of # m BY <2>0, <2>4, <4>2, <4>3 DEF Rescued, Over
   <4> QED BY <4>2, <4>3, <4>4
  <3> QED BY <1>2, <2>4, <3>1, <3>2, OfSteps
 <2>5. plan' = plan BY <2>0 DEF Steady
 <2> QED BY <2>1, <2>2, <2>3, <2>4, <2>5 DEF Rescued
<1> QED BY <1>1, <1>2

\* Rescued implies that rescues of one message overlap.
LEMMA RescuedOnlyRace ==
  ASSUME Rescued
  PROVE  RescuesOnlyRace
BY DEF Rescued, RescuesOnlyRace, Overlap

\* A choice of WhatsApp that a code went out by, and what came of it: it is read
\* again only after another, or with a lost mark, either of which is counted.
Choices ==
  /\ \A q \in Calls : call[q].picked <= picks[call[q].chat]
  /\ \A q \in Calls : sent[q] = "whatsapp" =>
       /\ call[q].seen = "whatsapp" /\ PastSend(q)
       /\ pref[call[q].chat] = "whatsapp" => call[q].picked < picks[call[q].chat]
  /\ \A q \in Calls : \A r \in call[q].since :
       sent[r] = "whatsapp" /\ call[q].seen = "whatsapp" /\ call[q].chat = call[r].chat =>
         call[r].picked < call[q].picked

\* The count of a chat's choices grows with every choice, and never shrinks.
LEMMA PicksGrow ==
  ASSUME Types, Begun, Holding, Next, NEW c \in Chats
  PROVE  /\ picks[c] \in Nat /\ picks'[c] \in Nat /\ picks[c] <= picks'[c]
         /\ pref'[c] = "whatsapp" /\ pref[c] # "whatsapp" => picks[c] < picks'[c]
<1>0. picks \in [Chats -> Nat] /\ pref \in [Chats -> Channels] BY DEF Types
<1>1. ASSUME NEW d \in Chats, NEW ch \in Channels, SetOtpChannel(d, ch)
      PROVE  /\ picks'[c] \in {picks[c], picks[c] + 1}
             /\ pref'[c] = "whatsapp" /\ pref[c] # "whatsapp" => picks'[c] = picks[c] + 1
  BY <1>0, <1>1, SetOtpChannelEffect
<1>2. ASSUME NEW q \in Calls, Send(q)
      PROVE  /\ picks'[c] \in {picks[c], picks[c] + 1}
             /\ pref'[c] = "whatsapp" => pref[c] = "whatsapp"
 <2> DEFINE d == call[q].chat
            mark == [pref EXCEPT ![d] = Marked(call[q].seen, pref[d])]
            more == [picks EXCEPT ![d] = picks[d] + 1]
 <2>1. picks' \in {picks, more} /\ pref' \in {pref, mark} BY <1>2, SendEffect
 <2>2. Marked(call[q].seen, pref[d]) \in {"none", "whatsapp_used", pref[d]} BY DEF Marked
 <2> HIDE DEF d
 <2> QED BY <1>0, <2>1, <2>2
<1>3. ASSUME NEW q \in Calls, Claim(q)  PROVE picks' = picks /\ pref' = pref BY <1>3, ClaimEffect
<1>4. UNCHANGED keys => picks' = picks /\ pref' = pref BY DEF keys
<1> QED BY <1>0, <1>1, <1>2, <1>3, <1>4, KeyWriters

\* Who reads WhatsApp at Issue found the choice in its chat.
LEMMA IssueReads ==
  ASSUME Types, NEW q \in Calls, Issue(q), call'[q].seen = "whatsapp"
  PROVE  pref[call[q].chat] = "whatsapp"
<1> DEFINE t == call[q].table
           c == call[q].chat
           seens == IF t \in Mail THEN {"none"} ELSE {pref[c]} \cup (IF plan.failures THEN {"sms"} ELSE {})
           r(seen) == [call[q] EXCEPT !.pc = "send", !.n = Len(codes[t]) + 1, !.seen = seen, !.picked = picks[c]]
<1>1. PICK seen \in seens : Moves(q, "issue", r(seen)) BY DEF Issue
<1>2. call \in [Calls -> Local] /\ call[q] \in Local BY DEF Types
<1>3. call'[q] = r(seen) BY <1>1, <1>2 DEF Moves
<1>4. r(seen).seen = seen BY <1>2 DEF Local
<1> QED BY <1>1, <1>3, <1>4

\* A message goes out once, from its own call.
LEMMA SentSteps ==
  ASSUME Types, Begun, Holding, Next, NEW q \in Calls, sent'[q] # sent[q]
  PROVE  Send(q) /\ sent'[q] = SentBy(q)
<1>1. PICK p \in Calls : Send(p)
 <2>1. ASSUME NEW d \in Chats, NEW ch \in Channels, SetOtpChannel(d, ch)  PROVE sent' = sent
   BY <2>1, SetOtpChannelEffect
 <2>2. ASSUME NEW p \in Calls, Claim(p)  PROVE sent' = sent BY <2>2, ClaimEffect
 <2> QED BY <2>1, <2>2, KeyWriters DEF keys
<1>2. sent' = [sent EXCEPT ![p] = SentBy(p)] BY <1>1, SendEffect
<1> QED BY <1>1, <1>2 DEF Types

\* The first part of Choices: what a call has counted is not more than there is.
LEMMA PickedStep ==
  ASSUME Types, Begun, Holding, Choices, Next, NEW q \in Calls
  PROVE  call'[q].picked <= picks'[call[q].chat] /\ call'[q].picked \in Nat /\ call[q].picked \in Nat
<1>1. call[q].chat \in Chats /\ call[q].picked \in Nat /\ call'[q].picked \in Nat
  BY NextSteady DEF Types, Local, Steady, CallsGoOn
<1>2. call[q].picked <= picks[call[q].chat] BY DEF Choices
<1>3. /\ picks[call[q].chat] \in Nat /\ picks'[call[q].chat] \in Nat
      /\ picks[call[q].chat] <= picks'[call[q].chat]
  BY <1>1, PicksGrow
<1>4. call'[q].picked \in {0, call[q].picked, picks[call[q].chat]}
  BY FieldSteps, IssueEffect, TryEffect DEF Fresh, Quiet
<1> QED BY <1>1, <1>2, <1>3, <1>4

\* The second part: a code that went out by WhatsApp used its choice up.
LEMMA UsedUpStep ==
  ASSUME Types, Begun, Holding, Choices, Next, NEW q \in Calls, sent'[q] = "whatsapp",
         NEW c \in Chats, call[q].chat = c
  PROVE  /\ call'[q].seen = "whatsapp" /\ PastSend(q)'
         /\ pref'[c] = "whatsapp" => call'[q].picked < picks'[c]
<1>1. /\ picks[c] \in Nat /\ picks'[c] \in Nat /\ picks[c] <= picks'[c]
      /\ pref'[c] = "whatsapp" /\ pref[c] # "whatsapp" => picks[c] < picks'[c]
  BY PicksGrow
<1>2. call[q].picked \in Nat /\ call[q].picked <= picks[c] BY PickedStep DEF Choices
<1>3. CASE sent[q] = "whatsapp"
 <2>1. call[q].seen = "whatsapp" /\ PastSend(q) /\ (pref[c] = "whatsapp" => call[q].picked < picks[c])
   BY <1>3 DEF Choices
 <2>2. PastSend(q)' /\ call'[q].seen = call[q].seen /\ call'[q].picked = call[q].picked
   BY <2>1, PastSendStays DEF Quiet
 <2> QED BY <1>1, <1>2, <2>1, <2>2
<1>4. CASE sent[q] # "whatsapp"
 <2>1. Send(q) /\ SentBy(q) = "whatsapp" BY <1>4, SentSteps
 <2>2. call[q].seen = "whatsapp" BY <2>1 DEF SentBy
 <2>3. /\ call'[q].pc \in {"flow", "done"} /\ call'[q].seen = call[q].seen /\ call'[q].picked = call[q].picked
   BY <2>1, SendEffect DEF Proceeds, Same
 <2>4. \/ pref' = [pref EXCEPT ![c] = Marked("whatsapp", pref[c])]
       \/ picks' = [picks EXCEPT ![c] = picks[c] + 1]
   BY <2>1, <2>2, SendEffect
 <2>5. pref'[c] = "whatsapp" => picks'[c] = picks[c] + 1 BY <2>4 DEF Types, Marked
 <2> QED BY <1>1, <1>2, <2>2, <2>3, <2>5 DEF PastSend, Over
<1> QED BY <1>3, <1>4

\* The third part: a later reader of WhatsApp read another choice.
LEMMA LaterStep ==
  ASSUME Types, Begun, Holding, Memory, Choices, Next, NEW q \in Calls, NEW r \in call'[q].since,
         sent'[r] = "whatsapp", call'[q].seen = "whatsapp", call[q].chat = call[r].chat
  PROVE  call'[r].picked < call'[q].picked
<1>1. call[q].pc # "new"
 <2>1. ASSUME call[q].pc = "new"  PROVE FALSE
  <3>1. call'[q].seen = "none"
   <4>1. CASE call'[q].pc = "new" BY <2>1, <4>1, NextSteady, NewIsIdle DEF Steady, CallsGoOn
   <4>2. CASE call'[q].pc # "new"
    <5>1. call'[q] # call[q] /\ ~Issue(q) /\ ~Try(q) BY <2>1, <4>2, IssueEffect, TryEffect
    <5>2. ~Quiet(q) \/ call[q].seen = "none" BY <2>1, NewIsIdle
    <5> QED BY <5>1, <5>2, FieldSteps DEF Fresh, Quiet
   <4> QED BY <4>1, <4>2
  <3> QED BY <3>1
 <2> QED BY <2>1
<1>2. /\ r \in call[q].since /\ r \in Calls /\ call[r].pc \in Over /\ Quiet(r) BY <1>1, EarlierCalls
<1>3. sent[r] = "whatsapp" /\ call'[r].picked = call[r].picked
 <2>1. ~Send(r) BY <1>2, SendEffect DEF Proceeds, Over
 <2> QED BY <1>2, <2>1, SentSteps DEF Quiet
<1>4. CASE call[q].seen = "whatsapp" /\ call'[q].picked = call[q].picked BY <1>2, <1>3, <1>4 DEF Choices
<1>5. CASE Issue(q)
 <2>0. pref[call[q].chat] = "whatsapp" BY <1>5, IssueReads
 <2>1. call'[q].picked = picks[call[q].chat] BY <1>5, IssueEffect
 <2>2. call[r].picked < picks[call[r].chat] BY <1>2, <1>3, <2>0 DEF Choices
 <2> QED BY <1>3, <2>1, <2>2
<1>6. Issue(q) \/ (call'[q].seen = call[q].seen /\ call'[q].picked = call[q].picked)
  BY <1>1, FieldSteps, TryEffect DEF Fresh, Quiet
<1> QED BY <1>4, <1>5, <1>6

\* Choices is kept by every step.
LEMMA ChoicesStep ==
  ASSUME Types, Begun, Holding, Memory, Choices, [Next]_vars
  PROVE  Choices'
<1>1. CASE UNCHANGED vars BY <1>1 DEF vars, Choices, PastSend
<1>2. CASE Next
 <2>1. ASSUME NEW q \in Calls  PROVE call'[q].chat = call[q].chat /\ call[q].chat \in Chats
   BY <1>2, NextSteady DEF Steady, CallsGoOn, Types, Local
 <2>2. ASSUME NEW q \in Calls  PROVE call'[q].since \subseteq Calls BY <1>2, NextSteady DEF Steady, CallsGoOn, Local
 <2>3. ASSUME NEW q \in Calls  PROVE call'[q].picked <= picks'[call'[q].chat] BY <1>2, <2>1, PickedStep
 <2>4. ASSUME NEW q \in Calls, sent'[q] = "whatsapp"
       PROVE  /\ call'[q].seen = "whatsapp" /\ PastSend(q)'
              /\ pref'[call'[q].chat] = "whatsapp" => call'[q].picked < picks'[call'[q].chat]
   BY <1>2, <2>1, <2>4, UsedUpStep
 <2>5. ASSUME NEW q \in Calls, NEW r \in call'[q].since, sent'[r] = "whatsapp",
              call'[q].seen = "whatsapp", call'[q].chat = call'[r].chat
       PROVE  call'[r].picked < call'[q].picked
  <3>1. call[q].chat = call[r].chat BY <2>1, <2>2, <2>5
  <3> QED BY <1>2, <2>5, <3>1, LaterStep
 <2> QED BY <2>3, <2>4, <2>5 DEF Choices
<1> QED BY <1>1, <1>2

\* Choices implies that one choice sends one code.
LEMMA ChoicesAreUsedOnce ==
  ASSUME Types, Choices
  PROVE  ChoiceUsedOnce
<1>1. ASSUME NEW q \in Calls, NEW r \in call[q].since, sent[q] = "whatsapp", sent[r] = "whatsapp",
             call[q].chat = call[r].chat
      PROVE  call[q].picked # call[r].picked
 <2>1. call[r].picked < call[q].picked /\ r \in Calls BY <1>1 DEF Choices, Types, Local
 <2>2. call[r].picked \in Nat /\ call[q].picked \in Nat BY <2>1 DEF Types, Local
 <2> QED BY <2>1, <2>2
<1> QED BY <1>1 DEF ChoiceUsedOnce, Overlap

\* The author of a code has begun, with the table and the address of the code.
Authors ==
  \A t \in Tables : \A i \in 1 .. Len(codes[t]) :
    /\ call[codes[t][i].by].pc # "new" /\ call[codes[t][i].by].table = t
    /\ call[codes[t][i].by].addr = codes[t][i].addr

\* A booking whose code was noted has its flow wait for the code, since the code
\* or later, unless a code was given back or another booking noted one meanwhile.
Superseded(r) ==
  \/ \E tk \in tokens : tk.table \notin Lead
  \/ \E p \in Calls \ call[r].since : p # r /\ call[p].noted /\ call[p].table \notin Lead
Waiting(r) ==
  /\ flow[call[r].chat]["booking"].state = "OTP_SENT" /\ flow[call[r].chat]["booking"].addr = call[r].addr
  /\ \A j \in Row("bookSms", r) : codes["bookSms"][j].at <= flow[call[r].chat]["booking"].at
Bookings ==
  \A r \in Calls : call[r].noted /\ call[r].table = "bookSms" => Superseded(r) \/ Waiting(r)

\* Authors is kept by every step.
LEMMA AuthorsStep ==
  ASSUME Types, Begun, Holding, Authors, [Next]_vars
  PROVE  Authors'
<1>1. CASE UNCHANGED vars BY <1>1 DEF vars, Authors
<1>2. CASE Next
 <2> SUFFICES ASSUME NEW t \in Tables, NEW i \in 1 .. Len(codes'[t]), NEW r, r = codes'[t][i].by
              PROVE  call'[r].pc # "new" /\ call'[r].table = t /\ call'[r].addr = codes'[t][i].addr
   BY DEF Authors
 <2>1. CASE i \in 1 .. Len(codes[t])
  <3>1. codes[t][i].by = r /\ codes'[t][i].addr = codes[t][i].addr BY <1>2, <2>1, RowChanges
  <3>2. r \in Calls
   <4>1. codes[t] \in Seq(CodeRow) BY DEF Types
   <4>2. codes[t][i] \in CodeRow BY <2>1, <4>1, ElementOfSeq
   <4> QED BY <3>1, <4>2 DEF CodeRow
  <3>3. call[r].pc # "new" /\ call[r].table = t /\ call[r].addr = codes[t][i].addr BY <2>1, <3>1 DEF Authors
  <3> QED BY <1>2, <3>1, <3>2, <3>3, NextSteady DEF Steady, CallsGoOn, Kept
 <2>2. CASE i \notin 1 .. Len(codes[t])
  <3>1. i > Len(codes[t]) BY <1>2, <2>2, RowChanges
  <3>2. PICK p \in Calls : Issue(p) /\ call[p].table = t /\ r = p /\ codes'[t][i].addr = call[p].addr
    BY <1>2, <3>1, RowChanges
  <3>3. Kept(p) /\ call'[p].pc = "send" BY <3>2, IssueEffect
  <3> QED BY <3>2, <3>3 DEF Kept
 <2> QED BY <2>1, <2>2
<1> QED BY <1>1, <1>2

\* A booking's flow is moved by a booking that notes its code, or once a code of
\* a booking was given back.
LEMMA BookingSteps ==
  ASSUME Types, Begun, Holding, Next, NEW c \in Chats, flow'[c]["booking"] # flow[c]["booking"]
  PROVE  \/ \E p \in Calls : NoteSent(p) /\ call[p].table \notin Lead
         \/ \E tk \in tokens' : tk.table \notin Lead
<1>0. "booking" \in Kinds /\ "booking" # "lead" BY DEF Kinds
<1>1. ~UNCHANGED rows BY DEF rows
<1>2. ASSUME NEW d \in Chats \cup {None}, Consents(d)  PROVE FALSE
 <2>1. flow' = flow \/ flow' = ConsentOk(flow, d) BY <1>2, ConsentSteps DEF ConsentMade
 <2>2. ConsentOk(flow, d)[c]["booking"] = flow[c]["booking"] BY <1>0, ConsentOkWrites
 <2> QED BY <2>1, <2>2
<1>3. ASSUME NEW q \in Calls, Issue(q) \/ Try(q) \/ MarkUsed(q)  PROVE FALSE
  BY <1>3, IssueEffect, TryEffect, MarkUsedEffect
<1>4. ASSUME NEW q \in Calls, NoteSent(q)  PROVE call[q].table \notin Lead
 <2>1. /\ call[q].table # "leadMail" /\ "booking" = (IF call[q].table = "leadSms" THEN "lead" ELSE "booking")
   BY <1>0, <1>4, NoteSentFlow
 <2> QED BY <2>1 DEF Lead
<1>5. ASSUME NEW q \in Calls, Grant(q)  PROVE \E tk \in tokens' : tk.table \notin Lead
 <2>1. call[q].table \notin Lead BY <1>0, <1>5, GrantFlow
 <2> DEFINE tk == [table |-> call[q].table, addr |-> call[q].addr, n |-> call[q].n, at |-> clock, by |-> q]
 <2>2. tk \in tokens' BY <1>5, GrantEffect
 <2>3. tk.table = call[q].table OBVIOUS
 <2> HIDE DEF tk
 <2> QED BY <2>1, <2>2, <2>3
<1>6. ASSUME NEW q \in Calls, RecordLead(q)  PROVE FALSE BY <1>0, <1>6, RecordLeadFlow
<1>7. ASSUME NEW d \in Chats, Book(d)  PROVE \E tk \in tokens' : tk.table \notin Lead BY <1>7, BookEffect
<1> QED BY Writers, <1>1, <1>2, <1>3, <1>4, <1>5, <1>6, <1>7

\* What has superseded a booking's code goes on doing so.
LEMMA SupersededStays ==
  ASSUME Types, Begun, Holding, Memory, Next, NEW r \in Calls, call[r].noted
  PROVE  /\ Superseded(r) => Superseded(r)'
         /\ \A p \in Calls : NoteSent(p) /\ call[p].table \notin Lead /\ p # r => Superseded(r)'
         /\ (\E tk \in tokens' : tk.table \notin Lead) => Superseded(r)'
<1>1. /\ call'[r].since = call[r].since /\ tokens \subseteq tokens'
      /\ \A p \in Calls : call'[p].table = call[p].table
 <2>1. call[r].pc # "new" BY NewIsIdle
 <2> QED BY <2>1, EarlierCalls, NextSteady DEF Steady, CallsGoOn
<1>2. ASSUME NEW p \in Calls, call[p].noted  PROVE call'[p].noted
 <2>1. call'[p].noted # call[p].noted => call'[p].noted BY CallKeeps
 <2> QED BY <1>2, <2>1
<1>3. (\E tk \in tokens' : tk.table \notin Lead) => Superseded(r)' BY DEF Superseded
<1>4. ASSUME NEW p \in Calls \ call[r].since, p # r, call'[p].noted, call[p].table \notin Lead
      PROVE  Superseded(r)'
  BY <1>1, <1>4 DEF Superseded
<1>5. Superseded(r) => Superseded(r)' BY <1>1, <1>2, <1>3, <1>4 DEF Superseded
<1>6. ASSUME NEW p \in Calls, NoteSent(p), call[p].table \notin Lead, p # r  PROVE Superseded(r)'
 <2>1. call[p].pc = "flow" /\ call'[p].noted BY <1>6, NoteSentEffect
 <2>2. p \notin call[r].since BY <2>1 DEF Memory, Requests, Over
 <2> QED BY <1>4, <1>6, <2>1, <2>2
<1> QED BY <1>3, <1>5, <1>6

\* Bookings is kept, call by call.
LEMMA BookingStep ==
  ASSUME Types, Begun, Holding, Ranges, Memory, Bookings, Next,
         NEW r \in Calls, call'[r].noted, call'[r].table = "bookSms"
  PROVE  Superseded(r)' \/ Waiting(r)'
<1>0. /\ call[r].table = "bookSms" /\ call'[r].chat = call[r].chat /\ call[r].chat \in Chats
      /\ "bookSms" \in Tables /\ "bookSms" \notin Lead /\ "bookSms" # "leadSms"
  BY NextSteady DEF Types, Local, Steady, CallsGoOn, Tables, Sms, Lead
<1>1. CASE call[r].noted
 <2>1. CASE Superseded(r) BY <1>1, <2>1, SupersededStays
 <2>2. CASE Waiting(r) /\ flow'[call[r].chat]["booking"] # flow[call[r].chat]["booking"]
  <3>1. call[r].pc \in Over BY <1>1 DEF Memory, Requests
  <3>2. ~NoteSent(r) BY <3>1, NoteSentEffect DEF Over
  <3> QED BY <1>0, <1>1, <2>2, <3>2, BookingSteps, SupersededStays
 <2>3. CASE Waiting(r) /\ flow'[call[r].chat]["booking"] = flow[call[r].chat]["booking"]
  <3>1. call[r].pc \in Over BY <1>1 DEF Memory, Requests
  <3>2. ~Issue(r) BY <3>1, IssueEffect DEF Over
  <3>3. Row("bookSms", r)' = Row("bookSms", r) BY <1>0, <3>2, RowsOfCall
  <3>4. call'[r].addr = call[r].addr BY <3>1, NextSteady DEF Steady, CallsGoOn, Kept, Over
  <3>5. \A j \in Row("bookSms", r) : codes'["bookSms"][j].at = codes["bookSms"][j].at
   <4>1. Row("bookSms", r) \subseteq 1 .. Len(codes["bookSms"]) BY <1>0 DEF Types, Row
   <4> QED BY <1>0, <4>1, RowChanges
  <3> QED BY <1>0, <2>3, <3>3, <3>4, <3>5 DEF Waiting
 <2> QED BY <1>0, <1>1, <2>1, <2>2, <2>3 DEF Bookings
<1>2. CASE ~call[r].noted
 <2>1. NoteSent(r) BY <1>2, CallKeeps
 <2>2. /\ flow'[call[r].chat]["booking"].state = "OTP_SENT"
       /\ flow'[call[r].chat]["booking"].addr = call[r].addr /\ flow'[call[r].chat]["booking"].at = clock
   BY <1>0, <2>1, NoteSentFlow
 <2>3. call'[r].addr = call[r].addr /\ codes' = codes BY <2>1, NoteSentEffect DEF Kept
 <2>4. \A j \in Row("bookSms", r) : codes["bookSms"][j].at <= clock BY <1>0 DEF Types, Row, Ranges
 <2>5. Row("bookSms", r)' = Row("bookSms", r) BY <2>3 DEF Row
 <2> QED BY <1>0, <2>2, <2>3, <2>4, <2>5 DEF Waiting
<1> QED BY <1>1, <1>2

\* Bookings is kept by every step.
LEMMA BookingsStep ==
  ASSUME Types, Begun, Holding, Ranges, Memory, Bookings, [Next]_vars
  PROVE  Bookings'
<1>1. CASE UNCHANGED vars BY <1>1 DEF vars, Bookings, Superseded, Waiting, Row
<1>2. CASE Next
 <2>1. ASSUME NEW r \in Calls, call'[r].noted, call'[r].table = "bookSms"
       PROVE  Superseded(r)' \/ Waiting(r)'
   BY <1>2, <2>1, BookingStep
 <2> QED BY <2>1 DEF Bookings
<1> QED BY <1>1, <1>2

\* The lead flow passes its gates only where it does not have to stand down.
LeadGoesOn ==
  \A q \in Calls :
    call[q].pc \in {"new", "claim"} /\ call'[q].pc = "issue" /\ call[q].table = "leadSms" =>
      \A r \in Calls : \A j \in Row("bookSms", r) :
        /\ codes["bookSms"][j].addr = call'[q].addr /\ call[r].chat = call'[q].chat
        /\ call[r].noted /\ clock - codes["bookSms"][j].at <= InFlight
        => \/ codes["bookSms"][j].used
           \/ \E tk \in tokens : tk.table \notin Lead
           \/ \E p \in Calls \ call[r].since : p # r /\ call[p].noted /\ call[p].table \notin Lead
\* The gates of the lead flow ask for the booking flow that waits for a code.
LEMMA GatesStandDown ==
  ASSUME Types, Begun, Holding, Ranges, Authors, Bookings, Next
  PROVE  LeadGoesOn
<1> SUFFICES ASSUME NEW q \in Calls, call[q].pc \in {"new", "claim"}, call'[q].pc = "issue",
                    call[q].table = "leadSms",
                    NEW r \in Calls, NEW j \in Row("bookSms", r),
                    codes["bookSms"][j].addr = call'[q].addr, call[r].chat = call'[q].chat,
                    call[r].noted, clock - codes["bookSms"][j].at <= InFlight
             PROVE  Superseded(r)
  BY DEF LeadGoesOn, Superseded
<1>0. "bookSms" \in Tables /\ "leadSms" \in Sms /\ "booking" \in Kinds BY DEF Tables, Sms, Kinds
<1>1. /\ j \in 1 .. Len(codes["bookSms"]) /\ codes["bookSms"][j].by = r
      /\ codes["bookSms"][j].at \in Nat /\ clock \in Nat
 <2>1. j \in 1 .. Len(codes["bookSms"]) /\ codes["bookSms"][j].by = r BY <1>0 DEF Types, Row
 <2>2. codes["bookSms"][j].at \in Nat BY <1>0, <2>1, RowChanges
 <2> QED BY <2>1, <2>2 DEF Types
<1>2. call[r].table = "bookSms" /\ call[r].addr = codes["bookSms"][j].addr BY <1>0, <1>1 DEF Authors
<1>3. Superseded(r) \/ Waiting(r) BY <1>2 DEF Bookings
<1>4. ~BookingPending(call'[q].chat, call'[q].addr)
 <2>1. GateMade(q) /\ call'[q].table = "leadSms" BY Arrivals, NextSteady DEF Steady, CallsGoOn
 <2>2. Verdict(call'[q].table, call'[q].chat, call'[q].addr) = "go" BY <2>1 DEF GateMade
 <2> QED BY <2>1, <2>2 DEF Verdict
<1>5. Waiting(r) => BookingPending(call'[q].chat, call'[q].addr)
 <2> SUFFICES ASSUME Waiting(r) PROVE BookingPending(call'[q].chat, call'[q].addr) OBVIOUS
 <2> DEFINE row == flow[call'[q].chat]["booking"]
 <2>1. row.state = "OTP_SENT" /\ row.addr = call'[q].addr /\ codes["bookSms"][j].at <= row.at BY <1>2 DEF Waiting
 <2>2. row.at \in Nat
  <3>1. call'[q].chat \in Chats BY NextSteady DEF Steady, CallsGoOn, Local
  <3>2. row \in FlowRow BY <1>0, <3>1 DEF Types, FlowMap
  <3> QED BY <3>2 DEF FlowRow
 <2>3. InFlight \in Nat BY SettingsAssumption
 <2>4. clock - row.at <= InFlight
  <3> HIDE DEF row
  <3> QED BY <1>1, <2>1, <2>2, <2>3
 <2> QED BY <2>1, <2>4 DEF BookingPending
<1> QED BY <1>3, <1>4, <1>5

\* Nothing is claimed, chosen or noted at the start.
LEMMA InitOneCode == Init => Rescued /\ Choices /\ Authors /\ Bookings
<1> SUFFICES ASSUME Init PROVE Rescued /\ Choices /\ Authors /\ Bookings OBVIOUS
<1>1. /\ pending = {} /\ picks = [c \in Chats |-> 0] /\ codes = [t \in Tables |-> <<>>]
      /\ sent = [q \in Calls |-> "none"]
  BY DEF Init
<1>2. Types /\ Begun BY InitTypes
<1>3. \A q \in Calls : /\ call[q].pc = "new" /\ call[q].of = None /\ call[q].since = {} /\ ~call[q].noted
                       /\ call[q].picked = 0 /\ call[q].chat \in Chats
 <2> SUFFICES ASSUME NEW q \in Calls
              PROVE  /\ call[q].pc = "new" /\ call[q].of = None /\ call[q].since = {} /\ ~call[q].noted
                     /\ call[q].picked = 0 /\ call[q].chat \in Chats
   OBVIOUS
 <2>1. call[q] = Idle(plan.asks[q].op, plan.asks[q].table, plan.asks[q].chat) BY DEF Init
 <2>2. call[q].chat \in Chats BY <1>2 DEF Types, Local
 <2> QED BY <2>1, <2>2 DEF Idle
<1>4. Rescued BY <1>1, <1>3 DEF Rescued
<1>5. Choices BY <1>1, <1>3 DEF Choices
<1>6. Authors BY <1>1 DEF Authors
<1>7. Bookings BY <1>3 DEF Bookings
<1> QED BY <1>4, <1>5, <1>6, <1>7

\* In every instance, whatever requests and callbacks interleave and whatever
\* fails: a message is rescued once, a choice of WhatsApp sends one code and the
\* lead flow stands down for a booking's code, unless requests raced or a mark
\* was lost (OtpDeliveryFallbackService.take, OtpChannelPreferenceService.consumeForOtp,
\* getPendingOtpFlowForChat).
THEOREM OneCodeAlways == Spec => OneCodeAtATime
<1> DEFINE Base == Types /\ Begun /\ Holding /\ Ranges /\ Proofs /\ Memory
           Inv == Base /\ Rescued /\ Choices /\ Authors /\ Bookings
<1>1. Init => Inv BY InitTypes, InitHolds, InitProofs, InitMemory, InitOneCode
<1>2. Inv /\ [Next]_vars => Inv'
  BY SmallStep, RangesStep, ProofsStep, MemoryStep, RescuedStep, ChoicesStep, AuthorsStep, BookingsStep
<1>3. Inv => RescuesOnlyRace /\ ChoiceUsedOnce BY RescuedOnlyRace, ChoicesAreUsedOnce
<1>4. Inv /\ [Next]_vars => [LeadGoesOn]_vars BY GatesStandDown
<1>5. Spec => [][LeadGoesOn]_vars /\ []RescuesOnlyRace /\ []ChoiceUsedOnce BY <1>1, <1>2, <1>3, <1>4, PTL DEF Spec
<1>6. [][LeadGoesOn]_vars => StandDown BY PTL DEF StandDown, LeadGoesOn
<1> QED BY <1>5, <1>6, PTL DEF OneCodeAtATime
=============================================================================
