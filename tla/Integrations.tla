---------------------------- MODULE Integrations ----------------------------
(***************************************************************************)
(* What a team connects its bots to: pages and phones that bring messages, *)
(* Google calendars, and the databases and numbers the MCP gateway is told *)
(* about, and a shop.  All of them are rows of one table, looked for       *)
(* before they are written; what is outside is the page's subscription,    *)
(* the gateway's copy of the team's configuration, and Google's client,    *)
(* which a pod has once.  A shop's server redeems a code for its token.    *)
(* One team, one person at Facebook.  A row names its bot twice, in a      *)
(* column and in its configuration: who connects writes both, who creates  *)
(* a row by hand sends a configuration of its own, and who updates one     *)
(* sends all of it.  A calendar's tokens are named after the call that     *)
(* connected it.                                                           *)
(***************************************************************************)
EXTENDS Requests

CONSTANTS Bots, Pages2

Connects == {"connectPage", "connectPhone", "connectCalendar", "linkShop"}
Upserts == Connects \cup {"create"}
Leaves == {"leavePage", "leavePhone", "leaveCalendar"}
ByRow == {"update", "delete", "schedule"}
ByHand == {"create", "update"}
IntegrationOps == Upserts \cup Leaves \cup ByRow \cup {"deauthorize", "token", "consent", "redeem", "unlinkShop"}
PageTypes == {"messenger", "instagram"}
\* Kept from before, by hand: metabusiness, instagram, and whatsapp with whatsapp_manual.
OldTypes == {"oldPage", "oldInstagram", "legacy"}
RowTypes == PageTypes \cup OldTypes \cup {"whatsapp", "calendar", "database", "shopify"}
\* Rows of a type no connection writes.
HandMade == OldTypes \cup {"database"}

\* What a client may send: a bot, a page (or number), who granted it, whether it
\* is connected and has what it takes, and a calendar's tokens.
Config == [bot : Bots \cup {None}, page : Pages2 \cup {None}, fb : BOOLEAN, fit : BOOLEAN,
           refresh : Bots \cup {None}, invalid : BOOLEAN, due : BOOLEAN, by : {None}]
Empty == [bot |-> None, page |-> None, fb |-> FALSE, fit |-> FALSE, refresh |-> None,
          invalid |-> FALSE, due |-> TRUE, by |-> None]

ASSUME NoneIsNoConnection ==
  None \notin Pages2 \cup Bots \cup {"connected", "left", "synced", "token", "fresh", "used", "expired"}

\* What is connected before has the grant of its bot; a bot has one connection of
\* a type, the team one shop, and a channel one bot.
ASSUME RowsAreTold == \A p \in Plans :
  LET type == [i \in DOMAIN p.rows |-> p.rows[i].type]
      cfg == [i \in DOMAIN p.rows |-> p.rows[i].cfg]
  IN /\ p.rows \in Seq([type : RowTypes, bot : Bots, off : BOOLEAN, live : {TRUE}, cfg : Config])
     /\ \A i \in DOMAIN p.rows : /\ cfg[i].bot = p.rows[i].bot /\ cfg[i].refresh = cfg[i].bot
                                 /\ type[i] \in PageTypes => cfg[i].page # None
     /\ \A i, k \in DOMAIN p.rows :
          /\ type[i] = type[k] /\ (cfg[i].bot = cfg[k].bot \/ type[i] \notin {"calendar", "database"})
          => i = k
ASSUME ConnectionsAreTold == \A p \in Plans, q \in Calls :
  LET c == p.ops[q]
      types == {c.types[k] : k \in DOMAIN c.types}
  IN /\ c.op \in Upserts \cup Leaves \cup ByRow =>
          /\ c.bot \in Bots /\ c.page \in Pages2 \cup {None} /\ c.types \in Seq(RowTypes) /\ c.types # <<>>
     /\ c.op \in {"connectPage", "leavePage"} => types \subseteq PageTypes
     /\ c.op \in {"connectPhone", "leavePhone"} => types = {"whatsapp"}
     /\ c.op \in {"connectCalendar", "leaveCalendar"} => types = {"calendar"}
     /\ c.op = "linkShop" => types = {"shopify"}
     /\ c.op = "connectPage" => c.page \in Pages2 /\ c.fb \in BOOLEAN
     /\ c.op \in ByRow \cup {"create"} => Len(c.types) = 1
     /\ c.op \in ByHand => c.config \in Config \cup {None}
     /\ c.op = "schedule" => c.off \in BOOLEAN
     /\ c.op = "token" => c.bot \in Bots
     /\ c.op = "redeem" => c.of \in Calls

VARIABLES
  row,         \* Seq(row of Integrations); a deleted one is not live
  subscribed,  \* pages whose messages Meta sends here
  client,      \* refresh token the pod's OAuth client holds
  gateway,     \* what the MCP gateway has of the team: rows, as they were sent
  code         \* [Calls -> state of the shop's code the call made]

integrationVars == <<row, subscribed, client, gateway, code>>
\* isMcpRelevantType, of the types here
McpRelevant(type) == type \in {"database", "legacy"}

Live == {i \in DOMAIN row : row[i].live}
RowsOn(type, bot) == {i \in Live : row[i].type = type /\ row[i].cfg.bot = bot}
Bot(q) == Does(q).bot
\* A client that sends no configuration leaves what is there.
Sends(q, cfg) == IF Does(q).config = None THEN cfg ELSE [Does(q).config EXCEPT !.by = q]
\* A connection is whole; who granted it is known unless Facebook did not say; a
\* shop's row holds the shop's name only.
NewConfig(q) ==
  IF Does(q).op = "create" THEN [Sends(q, Empty) EXCEPT !.by = q]
  ELSE IF Does(q).op = "linkShop" THEN [Empty EXCEPT !.by = q]
  ELSE [bot |-> Bot(q), page |-> Does(q).page, fb |-> Does(q).op = "connectPage" /\ Does(q).fb, fit |-> TRUE,
        refresh |-> q, invalid |-> FALSE, due |-> FALSE, by |-> q]
NewRow(type, bot, cfg) == [type |-> type, bot |-> bot, cfg |-> cfg, off |-> FALSE, live |-> TRUE]
Standing(type, bot, page) ==
  NewRow(type, bot, [Empty EXCEPT !.bot = bot, !.page = page, !.fb = TRUE, !.fit = TRUE, !.refresh = bot])

IntegrationsInit ==
  /\ row = plan.rows /\ client = None /\ gateway = {} /\ code = [q \in Calls |-> None]
  /\ subscribed = {row[i].cfg.page : i \in {k \in DOMAIN row : row[k].type \in PageTypes}}

-----------------------------------------------------------------------------
(* Connecting: look for the bot's row of the type, then write or create it *)

Types(q) == Does(q).types
TypesOf(q) == {Types(q)[k] : k \in DOMAIN Types(q)}
Subscribed(page) == subscribed \cup {page}
\* The page is subscribed first; a failure is not fatal.
SubscribePage(q) ==
  /\ Starts(q, {"connectPage"}, "find", [left |-> Types(q), row |-> 0])
  /\ \/ subscribed' = Subscribed(Does(q).page)
     \/ plan.failures /\ UNCHANGED subscribed
  /\ UNCHANGED <<row, client, gateway>>
\* The code is exchanged with Meta or Google, or the form is sent.
ExchangeCode(q) ==
  /\ \/ Starts(q, Upserts \ {"connectPage"}, "find", [left |-> Types(q), row |-> 0])
     \/ plan.failures /\ Answers(q, {"connectPhone", "connectCalendar"}, "failed")
  /\ UNCHANGED integrationVars

\* Mutation: the row is looked for whatever its type.
FoundAnyType(type, q) == {i \in Live : row[i].bot = Bot(q)}
ShopRows == {i \in Live : row[i].type = "shopify"}
\* Who connects looks for its bot in the configuration, who creates by hand in
\* the column; a team has one shop, whatever bot answers in it.
Found(type, q) ==
  CASE Does(q).op = "create" -> {i \in Live : row[i].type = type /\ row[i].bot = Bot(q)}
    [] Does(q).op = "linkShop" -> ShopRows
    [] OTHER -> RowsOn(type, Bot(q))
FindRow(q) ==
  /\ At(q, Upserts, "find")
  /\ LET found == Found(Head(Loc(q).left), q)
     IN \/ found = {} /\ Goes(q, "write", [Loc(q) EXCEPT !.row = 0])
        \/ \E i \in found : Goes(q, "write", [Loc(q) EXCEPT !.row = i])
  /\ UNCHANGED integrationVars

After(q) ==
  LET rest == Tail(Loc(q).left)
  IN IF Len(rest) > 0 THEN Goes(q, "find", [Loc(q) EXCEPT !.left = rest])
     ELSE IF McpRelevant(Head(Loc(q).left)) THEN Goes(q, "readAll", Loc(q))
     ELSE Ends(q, "connected")
\* Mutation: the tokens of a calendar that is connected again stay.
RewrittenOver(cfg, q) == [NewConfig(q) EXCEPT !.refresh = cfg.refresh, !.invalid = cfg.invalid]
Rewritten(cfg, q) == IF Does(q).op = "create" THEN Sends(q, cfg) ELSE NewConfig(q)
\* A connection takes the row's column too.  A row that is gone cannot be written.
WriteRow(q) ==
  /\ At(q, Upserts, "write")
  /\ LET i == Loc(q).row
     IN IF i = 0 THEN After(q) /\ row' = Append(row, NewRow(Head(Loc(q).left), Bot(q), NewConfig(q)))
        ELSE IF row[i].live
        THEN After(q) /\ row' = [row EXCEPT ![i].cfg = Rewritten(@, q),
                                            ![i].bot = IF Does(q).op = "create" THEN @ ELSE Bot(q)]
        ELSE Ends(q, "failed") /\ UNCHANGED row
  /\ UNCHANGED <<subscribed, client, gateway>>

-----------------------------------------------------------------------------
(* Disconnecting                                                           *)

Left(rows) == {row[i].cfg.page : i \in {k \in rows : row[k].type \in PageTypes}} \ {None}
FindLeaving(q) ==
  /\ LET found == UNION {RowsOn(t, Bot(q)) : t \in TypesOf(q)}
     IN \/ found = {} /\ Answers(q, Leaves, "unknown")
        \/ \E i \in found : Starts(q, Leaves, "release", [rows |-> {i}, pages |-> Left({i})])
  /\ UNCHANGED integrationVars
\* The rows that name the person; one that does not, because Facebook did not say
\* or the client did not send it, stays.
CreatedBy == {i \in Live : row[i].type \in PageTypes /\ row[i].cfg.fb}
FindDeauthorized(q) ==
  /\ Starts(q, {"deauthorize"}, "release", [rows |-> CreatedBy, pages |-> Left(CreatedBy)])
  /\ UNCHANGED integrationVars
\* The page is unsubscribed, whatever else uses it; the token is revoked.
Release(q) ==
  /\ At(q, Leaves \cup {"deauthorize"}, "release") /\ Goes(q, "delete", Loc(q))
  /\ \/ subscribed' = subscribed \ Loc(q).pages
     \/ plan.failures /\ UNCHANGED subscribed
  /\ UNCHANGED <<row, client, gateway>>
Deleted(rows) == row' = [i \in DOMAIN row |-> IF i \in rows THEN [row[i] EXCEPT !.live = FALSE] ELSE row[i]]
\* delete fails where the row is gone; deleteMany does not.
DeleteRows(q) ==
  /\ At(q, Leaves \cup {"deauthorize"}, "delete") /\ Deleted(Loc(q).rows)
  /\ Ends(q, IF Does(q).op = "deauthorize" \/ Loc(q).rows \subseteq Live THEN "left" ELSE "failed")
  /\ UNCHANGED <<subscribed, client, gateway>>

-----------------------------------------------------------------------------
(* Rows by their id, and the gateway                                       *)

FindById(q) ==
  /\ \E i \in DOMAIN row :
       /\ row[i].type = Head(Types(q))
       /\ IF row[i].live THEN Starts(q, ByRow, "apply", [left |-> Types(q), row |-> i])
          ELSE Answers(q, ByRow, "unknown")
  /\ UNCHANGED integrationVars
\* Mutation: a row that is deleted leaves the gateway alone.
SyncsUnlessDeleted(q) == McpRelevant(row[Loc(q).row].type) /\ Does(q).op = "update"
Syncs(q) == McpRelevant(row[Loc(q).row].type) /\ Does(q).op # "schedule"
ApplyById(q) ==
  LET i == Loc(q).row
  IN /\ At(q, ByRow, "apply")
     /\ IF ~row[i].live THEN Ends(q, "failed") ELSE IF Syncs(q) THEN Goes(q, "readAll", Loc(q)) ELSE Ends(q, "applied")
     /\ row' = IF ~row[i].live THEN row
               ELSE CASE Does(q).op = "update" -> [row EXCEPT ![i].cfg = Sends(q, @)]
                      [] Does(q).op = "schedule" -> [row EXCEPT ![i].off = Does(q).off]
                      [] Does(q).op = "delete" -> [row EXCEPT ![i].live = FALSE]
     /\ UNCHANGED <<subscribed, client, gateway>>

\* buildMcpPayload: a row that lacks what it takes is passed over, and of two rows
\* of a type the later one is kept.
Told == {i \in Live : McpRelevant(row[i].type) /\ row[i].cfg.fit}
Payload == {[type |-> row[i].type, by |-> row[i].cfg.by] :
              i \in {i \in Told : \A k \in Told : row[k].type = row[i].type => k <= i}}
\* syncMcpConfig reads every row ...
ReadPayload(q) ==
  /\ At(q, {"create", "update", "delete"}, "readAll")
  /\ Goes(q, "push", [payload |-> Payload, row |-> Loc(q).row]) /\ UNCHANGED integrationVars
\* ... and sends what it read: created, replaced or deleted.  A gateway that
\* cannot be reached is passed over; one that refuses is an error.
PushPayload(q) ==
  /\ At(q, {"create", "update", "delete"}, "push")
  /\ \/ Ends(q, "synced") /\ gateway' = Loc(q).payload
     \/ plan.failures /\ (\E end \in {"synced", "failed"} : Ends(q, end)) /\ UNCHANGED gateway
  /\ UNCHANGED <<row, subscribed, client>>

-----------------------------------------------------------------------------
(* getTokenForBot                                                          *)

\* setCredentials
Hands(refresh) == refresh
ReadToken(q) ==
  /\ LET found == RowsOn("calendar", Bot(q))
     IN \/ found = {} /\ Answers(q, {"token"}, "notConfigured") /\ UNCHANGED client
        \/ \E i \in found :
             LET cfg == row[i].cfg
             IN IF cfg.invalid THEN Answers(q, {"token"}, "revoked") /\ UNCHANGED client
                ELSE IF ~cfg.due THEN Answers(q, {"token"}, "token") /\ UNCHANGED client
                ELSE IF cfg.refresh = None
                THEN Starts(q, {"token"}, "invalidate", [row |-> i, cfg |-> cfg]) /\ UNCHANGED client
                ELSE /\ Starts(q, {"token"}, "refresh", [row |-> i, cfg |-> cfg])
                     /\ client' = Hands(cfg.refresh)
  /\ UNCHANGED <<row, subscribed, gateway>>
\* Google answers for the token that was sent; the client's library returns
\* with it the refresh token the client holds by then.
refreshAccessToken(q) ==
  /\ At(q, {"token"}, "refresh")
  /\ \/ Goes(q, "store", [Loc(q) EXCEPT !.cfg = [@ EXCEPT !.refresh = client, !.due = FALSE]])
     \/ plan.failures /\ Goes(q, "invalidate", Loc(q))
  /\ UNCHANGED integrationVars
\* The whole configuration that was read is written, with the new tokens.
StoreToken(q) ==
  /\ At(q, {"token"}, "store")
  /\ IF row[Loc(q).row].live THEN Ends(q, "token") /\ row' = [row EXCEPT ![Loc(q).row].cfg = Loc(q).cfg]
     ELSE Goes(q, "invalidate", Loc(q)) /\ UNCHANGED row
  /\ UNCHANGED <<subscribed, client, gateway>>
MarkInvalid(q) ==
  /\ At(q, {"token"}, "invalidate")
  /\ IF row[Loc(q).row].live
     THEN Ends(q, "revoked") /\ row' = [row EXCEPT ![Loc(q).row].cfg = [Loc(q).cfg EXCEPT !.invalid = TRUE]]
     ELSE Ends(q, "failed") /\ UNCHANGED row
  /\ UNCHANGED <<subscribed, client, gateway>>

-----------------------------------------------------------------------------
(* A shop: a code for a consent, a token for the code, the link            *)

createAuthorizationCode(q) ==
  \/ Answers(q, {"consent"}, "code") /\ code' = [code EXCEPT ![q] = "fresh"]
  \/ plan.failures /\ Answers(q, {"consent"}, "refused") /\ UNCHANGED code
FindCode(q) ==
  /\ Does(q).op = "redeem"
  /\ IF code[Does(q).of] = "fresh" THEN Starts(q, {"redeem"}, "use", None) ELSE Answers(q, {"redeem"}, "refused")
  /\ UNCHANGED code
Spent(state) == "used"
UseCode(q) ==
  /\ At(q, {"redeem"}, "use") /\ Ends(q, "token") /\ code' = [code EXCEPT ![Does(q).of] = Spent(@)]
exchangeCodeForToken(q) == FindCode(q) \/ UseCode(q)
\* A code is good for five minutes.
CodeExpires == \E q \in Calls : code[q] = "fresh" /\ code' = [code EXCEPT ![q] = "expired"]

Cleared == ShopRows
disconnectShop(q) ==
  /\ Answers(q, {"unlinkShop"}, "left")
  /\ row' = [i \in DOMAIN row |-> IF i \in Cleared THEN [row[i] EXCEPT !.live = FALSE] ELSE row[i]]

-----------------------------------------------------------------------------
(* The services                                                            *)

Upsert(q) == FindRow(q) \/ WriteRow(q)
Sync(q) == ReadPayload(q) \/ PushPayload(q)
Leave(q) == FindLeaving(q) \/ Release(q) \/ DeleteRows(q)
completeConnection(q) == Does(q).op = "connectPage" /\ (SubscribePage(q) \/ Upsert(q))
completeSignup(q) == Does(q).op = "connectPhone" /\ (ExchangeCode(q) \/ Upsert(q))
handleCallback(q) == Does(q).op = "connectCalendar" /\ (ExchangeCode(q) \/ Upsert(q))
createIntegration(q) == Does(q).op = "create" /\ (ExchangeCode(q) \/ Upsert(q) \/ Sync(q))
completeShop(q) == Does(q).op = "linkShop" /\ (ExchangeCode(q) \/ Upsert(q))
changeIntegration(q) == Does(q).op \in ByRow /\ (FindById(q) \/ ApplyById(q) \/ Sync(q))
disconnectChannel(q) == Does(q).op = "leavePage" /\ Leave(q)
disconnectPhone(q) == Does(q).op = "leavePhone" /\ Leave(q)
disconnectCalendar(q) == Does(q).op = "leaveCalendar" /\ Leave(q)
deleteByFbUserId(q) == Does(q).op = "deauthorize" /\ (FindDeauthorized(q) \/ Release(q) \/ DeleteRows(q))
getTokenForBot(q) == ReadToken(q) \/ refreshAccessToken(q) \/ StoreToken(q) \/ MarkInvalid(q)

IntegrationStep(q) ==
  /\ \/ /\ \/ completeConnection(q) \/ completeSignup(q) \/ handleCallback(q) \/ createIntegration(q)
           \/ changeIntegration(q) \/ disconnectChannel(q) \/ disconnectPhone(q) \/ disconnectCalendar(q)
           \/ deleteByFbUserId(q) \/ getTokenForBot(q) \/ completeShop(q)
        /\ UNCHANGED code
     \/ (createAuthorizationCode(q) \/ exchangeCodeForToken(q)) /\ UNCHANGED <<row, subscribed, client, gateway>>
     \/ disconnectShop(q) /\ UNCHANGED <<subscribed, client, gateway, code>>
     \/ Does(q).op \in IntegrationOps /\ Dies(q) /\ UNCHANGED integrationVars
  /\ UNCHANGED plan
\* An access token runs out within an hour.
TokenExpires ==
  /\ \E i \in Live : row[i].type = "calendar" /\ ~row[i].cfg.due /\ row' = [row EXCEPT ![i].cfg.due = TRUE]
  /\ UNCHANGED <<plan, call, subscribed, client, gateway, code>>
IntegrationsNext ==
  \/ TokenExpires
  \/ CodeExpires /\ UNCHANGED <<plan, call, row, subscribed, client, gateway>>
  \/ \E q \in Calls : IntegrationStep(q)

-----------------------------------------------------------------------------
(* Properties                                                              *)

\* The rows of this module have the shape of the schema, and the type that was
\* asked for by the call whose configuration they hold.
IntegrationsTypeOK ==
  /\ \A i \in DOMAIN row :
       /\ row[i].live \in BOOLEAN /\ row[i].off \in BOOLEAN /\ row[i].bot \in Bots
       /\ [row[i].cfg EXCEPT !.by = None, !.refresh = None] \in Config
       /\ row[i].cfg.by # None => row[i].type \in TypesOf(row[i].cfg.by)
  /\ \A q \in Calls : code[q] \in {None, "fresh", "used", "expired"}
  /\ subscribed \subseteq Pages2 /\ client \in Bots \cup Calls \cup {None}

\* A bot has one connection of a type, and a team one shop, unless two calls that
\* connect it were made at the same time (every connect looks for the row and
\* then creates one; the table has no unique key), or a row of that type was
\* created or updated by hand: that looks in the column for what the others look
\* for in the configuration, and may write another bot there.  A row that is
\* always made by hand is the only one of its column.
Key(i) == IF row[i].type \in HandMade THEN row[i].bot ELSE IF row[i].type = "shopify" THEN None ELSE row[i].cfg.bot
Handled(type) == \E q \in Calls : Does(q).op \in ByHand /\ Begun(q) /\ type \in TypesOf(q)
Rivals(q, r, type, bot) ==
  /\ Does(q).op \in Upserts /\ Does(r).op \in Upserts /\ Overlap(q, r) /\ type \in TypesOf(q) \cap TypesOf(r)
  /\ type = "shopify" \/ (Bot(q) = bot /\ Bot(r) = bot)
OneRowUnlessRacing ==
  \A i, k \in Live :
    i # k /\ row[i].type = row[k].type /\ Key(i) = Key(k) =>
      \/ \E q, r \in Calls : Rivals(q, r, row[i].type, Key(i))
      \/ row[i].type \notin HandMade /\ Handled(row[i].type)

\* A page that was connected to a channel is subscribed, unless the page was
\* left, by the other channel too, after the channel was connected
\* (disconnectChannel unsubscribes the page without a look at its sibling).
SubscribedUnlessLeft ==
  ~plan.failures => \A i \in Live :
    /\ row[i].type \in PageTypes
    /\ row[i].cfg.by = None \/ Does(row[i].cfg.by).op = "connectPage"
    => \/ row[i].cfg.page \in subscribed
       \/ \E x \in Calls : /\ Does(x).op \in {"leavePage", "deauthorize"} /\ Begun(x)
                           /\ row[i].cfg.by = None \/ x \notin call[row[i].cfg.by].since

\* When Meta has told that a person left, no connection that named the person
\* before is still there (one that named nobody is: deleteByFbUserId cannot find
\* it).
DeauthorizedGone ==
  \A x \in Calls : Does(x).op = "deauthorize" /\ call[x].pc = "done" =>
    \A i \in Live : row[i].type \in PageTypes /\ row[i].cfg.fb
      => row[i].cfg.by # None /\ row[i].cfg.by \notin call[x].since

\* Once everything is through, the gateway has the team's configuration as it
\* stands, unless two changes overlapped (syncMcpConfig sends what it read).
GatewayCurrent ==
  LET changes == {q \in Calls : Does(q).op \in {"create", "update", "delete"} /\ Begun(q)}
  IN ~plan.failures /\ (\A q \in changes : call[q].pc = "done" /\ ~Racing(q, {"create", "update", "delete"}))
     /\ (\E q \in changes : call[q].end = "synced")
     => gateway = Payload

\* A calendar is refreshed with a grant its own bot was given, or a client sent
\* for it, unless the tokens of two bots were refreshed on the pod at the same
\* time (the client is shared, and what it holds after the call is stored).
Grants(bot) ==
  {None, bot} \cup {q \in Calls : Does(q).op \in Connects /\ Bot(q) = bot}
  \cup {Does(q).config.refresh : q \in {q \in Calls : /\ Does(q).op \in ByHand /\ Does(q).config # None
                                                      /\ Does(q).config.bot = bot}}
ForeignTokenOnlyRacing ==
  \A i \in Live : row[i].type = "calendar" =>
    \/ row[i].cfg.refresh \in Grants(row[i].cfg.bot)
    \/ \E q, r \in Calls : Does(q).op = "token" /\ Does(r).op = "token" /\ Overlap(q, r) /\ Bot(q) # Bot(r)

\* A calendar that is connected again keeps the tokens it then got, unless it is
\* connected or taken away once more, a row of a calendar is written by hand (which
\* can make it another bot's: then whoever connects any calendar counts), or a
\* refresh was on its way (getTokenForBot writes the configuration it read, or
\* marks it as revoked).
Reconnects(x, bot) == /\ Does(x).op \in Upserts \cup Leaves \cup {"update", "delete"} /\ "calendar" \in TypesOf(x)
                      /\ Does(x).op \in ByHand \cup {"delete"} \/ Bot(x) = bot \/ Handled("calendar")
ReconnectKept ==
  ~plan.failures => \A q \in Calls :
    /\ Does(q).op = "connectCalendar" /\ call[q].end = "connected" /\ ~Racing(q, {"token"})
    /\ \A x \in Calls \ {q} : Reconnects(x, Bot(q)) /\ Begun(x) => x \in call[q].since
    /\ ~\E x, y \in Calls : Does(x).op = "token" /\ Does(y).op = "token" /\ Overlap(x, y)
    => \E i \in RowsOn("calendar", Bot(q)) : row[i].cfg.refresh = q /\ ~row[i].cfg.invalid

\* A code of a shop is good for one token, unless it is redeemed twice at the
\* same time (exchangeCodeForToken looks for an unused code, then marks it).
CodeOnceUnlessRacing ==
  \A q, r \in Calls :
    /\ q # r /\ Does(q).op = "redeem" /\ Does(r).op = "redeem" /\ Does(q).of = Does(r).of
    /\ call[q].end = "token" /\ call[r].end = "token"
    => Overlap(q, r)

\* When a shop is disconnected, by its owner or by the uninstalled app, no link
\* made before is left, two that were made at the same time included.
ShopGone ==
  \A x \in Calls : Does(x).op = "unlinkShop" /\ call[x].pc = "done" =>
    \A i \in ShopRows : row[i].cfg.by # None /\ row[i].cfg.by \notin call[x].since

\* A connection is one row with its own grant, and a shop's code one token: only
\* calls that overlap, and rows written by hand, make two or another's.
OneConnection == OneRowUnlessRacing /\ CodeOnceUnlessRacing /\ ForeignTokenOnlyRacing /\ ReconnectKept

\* What is outside agrees with the rows: the page's subscription, the gateway's
\* copy, and what Meta or a shop took back.
OutsideAgrees == SubscribedUnlessLeft /\ DeauthorizedGone /\ ShopGone /\ GatewayCurrent
=============================================================================
