------------------------------ MODULE Services ------------------------------
(***************************************************************************)
(* The services around the bot in one system: the channels' webhooks, what *)
(* the team has connected, the widget's visitors, the legal documents and  *)
(* what a pod makes sure of when it starts.                                *)
(* They share the calls and the pods; a webhook finds its bot through the  *)
(* rows of the integrations.                                               *)
(***************************************************************************)
EXTENDS MetaInbound, Visitors, Integrations, LegalDocuments, StripeBootstrap

servicesVars == <<plan, call, inboundVars, visitorVars, integrationVars, legalVars, bootstrapVars>>

ServicesInit == CallsInit /\ InboundInit /\ VisitorsInit /\ IntegrationsInit /\ LegalInit /\ BootstrapInit

\* What answers a channel, or its manual predecessor; the connection says that it
\* is connected, either has its bot and its token.
Answering == [messenger |-> {"messenger", "oldPage"}, instagram |-> {"instagram", "oldInstagram"},
              whatsapp |-> {"whatsapp", "legacy"}, legacy |-> {"legacy"}]
\* findByPageId, findByInstagramAccountId, findByPhoneNumberId, and the old webhook
Routes(q) == {i \in Live : /\ row[i].type \in Answering[Does(q).op] /\ row[i].cfg.page = Does(q).page
                           /\ row[i].cfg.fit /\ row[i].cfg.bot # None}
\* A message comes in where its channel is connected and not switched off.
Routed(q) ==
  Starting(q, Listens) /\ call'[q].pc \in {"cursor", "done"}
    => call'[q].end = "unusable" \/ \E i \in Routes(q) : (row[i].off => call'[q].end = "closed")

ServicesNext ==
  \/ /\ InboundNext /\ \A q \in Calls : Routed(q)
     /\ UNCHANGED <<visitorVars, integrationVars, legalVars, bootstrapVars>>
  \/ VisitorsNext /\ UNCHANGED <<inboundVars, integrationVars, legalVars, bootstrapVars>>
  \/ IntegrationsNext /\ UNCHANGED <<inboundVars, visitorVars, legalVars, bootstrapVars>>
  \/ LegalNext /\ UNCHANGED <<inboundVars, visitorVars, integrationVars, bootstrapVars>>
  \/ BootstrapNext /\ UNCHANGED <<inboundVars, visitorVars, integrationVars, legalVars>>

ServicesSpec == ServicesInit /\ [][ServicesNext]_servicesVars

\* A channel whose connections are all taken away does not answer: whoever gets a
\* reply wrote while there was a row of the channel, or of its manual predecessor
\* (which goes on answering when the channel is disconnected), that no call had
\* taken away by then.
TakenBy(x) ==
  IF Does(x).op \in Leaves \cup {"deauthorize"} /\ call[x].end = "left" THEN Loc(x).rows
  ELSE IF Does(x).op = "delete" /\ call[x].end \in {"applied", "synced"} THEN {Loc(x).row} ELSE {}
AnswersOnlyConnected ==
  \A i \in BotSends : LET q == sent[i].by IN
    \E k \in DOMAIN row : /\ row[k].type \in Answering[Does(q).op]
                          /\ \A x \in call[q].since : k \notin TakenBy(x)

\* Each part's variables have their type.
ServicesTypeOK ==
  InboundTypeOK /\ VisitorsTypeOK /\ IntegrationsTypeOK /\ LegalTypeOK /\ BootstrapTypeOK

\* The connections agree with what is outside, and with the answers that go out.
ConnectionsAgree == OutsideAgrees /\ AnswersOnlyConnected
=============================================================================
