--------------------------- MODULE LegalDocuments ---------------------------
(***************************************************************************)
(* The legal documents: drafts, their source text and a translation that   *)
(* is approved, the one version that is published, and who accepted it.    *)
(* Administrators work on them at the same time; what is published is      *)
(* served and accepted meanwhile.  Consent notices are documents whose     *)
(* text must parse, for the widget shows them field by field.              *)
(***************************************************************************)
EXTENDS Requests

CONSTANTS
  Docs,      \* slugs
  Notices,   \* those that are consent notices
  Signups,   \* those a new account accepts
  Texts, Broken

VARIABLES
  doc,       \* slugs that exist
  version,   \* Seq(row of LegalDocumentVersion with its contents); GONE with its document
  accepted   \* rows of LegalDocumentAcceptance

legalVars == <<doc, version, accepted>>
Admins == {"createDoc", "deleteDoc", "draft", "edit", "translate", "approve", "publish"}
LegalOps == Admins \cup {"accept", "signUp"}

NoTranslation == [text |-> None, status |-> "NEEDS_TRANSLATION", by |-> None]
Draft(d, n, text) == [doc |-> d, number |-> n, status |-> "DRAFT", source |-> text, reaccept |-> FALSE,
                      translation |-> NoTranslation, by |-> None]

\* A document has each number once and one published version, which parses where it
\* is a notice; nothing is translated or accepted before.
ASSUME DocumentsAreTold == \A p \in Plans :
  /\ p.docs \subseteq Docs
  /\ p.versions \in Seq([doc : Docs, number : Nat, status : {"DRAFT", "PUBLISHED"}, source : Texts,
                         reaccept : {FALSE}, translation : {NoTranslation}, by : {None}])
  /\ \A i, k \in DOMAIN p.versions :
       LET v == p.versions[i]
           w == p.versions[k]
       IN v.doc = w.doc /\ (v.number = w.number \/ (v.status = "PUBLISHED" /\ w.status = "PUBLISHED")) => i = k
  /\ \A i \in DOMAIN p.versions :
       p.versions[i].status = "PUBLISHED" /\ p.versions[i].doc \in Notices => p.versions[i].source # Broken
ASSUME EditsAreTold == \A p \in Plans, q \in Calls :
  LET c == p.ops[q] IN c.op \in LegalOps => c.doc \in Docs /\ c.text \in Texts /\ c.reaccept \in BOOLEAN
ASSUME NoneIsNoText == None \notin Texts \cup {"signedUp"}

LegalInit == doc = plan.docs /\ version = plan.versions /\ accepted = {}

Slug(q) == Does(q).doc
VersionsOf(d) == {i \in DOMAIN version : version[i].doc = d /\ version[i].status # "GONE"}
Published(d) == {i \in VersionsOf(d) : version[i].status = "PUBLISHED"}
\* The version of a call, where the document has it.
Named(q) == {i \in VersionsOf(Slug(q)) : i = Does(q).version}
Parses(text) == text # Broken

-----------------------------------------------------------------------------
(* Documents and drafts                                                    *)

createDocument(q) ==
  /\ IF Slug(q) \in doc THEN Answers(q, {"createDoc"}, "failed") /\ UNCHANGED doc
     ELSE Answers(q, {"createDoc"}, "created") /\ doc' = doc \cup {Slug(q)}
  /\ UNCHANGED <<version, accepted>>

CountPublished(q) ==
  /\ IF Slug(q) \notin doc \/ \E i \in VersionsOf(Slug(q)) : version[i].status \in {"PUBLISHED", "ARCHIVED"}
     THEN Answers(q, {"deleteDoc"}, "refused") ELSE Starts(q, {"deleteDoc"}, "delete", None)
  /\ UNCHANGED legalVars
\* Mutation: the acceptances of a version do not keep it.
NothingRestricts(d) == TRUE
\* The database deletes no version somebody accepted, and takes the others along.
Unaccepted(d) == \A a \in accepted : a.version \notin VersionsOf(d)
DeleteDocument(q) ==
  /\ At(q, {"deleteDoc"}, "delete")
  /\ IF Slug(q) \in doc /\ Unaccepted(Slug(q))
     THEN /\ Ends(q, "deleted") /\ doc' = doc \ {Slug(q)}
          /\ version' = [i \in DOMAIN version |->
               IF version[i].doc = Slug(q) THEN [version[i] EXCEPT !.status = "GONE"] ELSE version[i]]
     ELSE Ends(q, "failed") /\ UNCHANGED <<doc, version>>
  /\ UNCHANGED accepted

Number(d) == Cardinality({version[i].number : i \in VersionsOf(d)})
FindLatest(q) ==
  /\ IF Slug(q) \in doc THEN Starts(q, {"draft"}, "create", [number |-> Number(Slug(q)) + 1])
     ELSE Answers(q, {"draft"}, "unknown")
  /\ UNCHANGED legalVars
NumberFree(d, n) == d \in doc /\ \A i \in VersionsOf(d) : version[i].number # n
CreateDraft(q) ==
  /\ At(q, {"draft"}, "create")
  /\ IF NumberFree(Slug(q), Loc(q).number)
     THEN Ends(q, "drafted") /\ version' = Append(version, Draft(Slug(q), Loc(q).number, Does(q).text))
     ELSE Ends(q, "failed") /\ UNCHANGED version
  /\ UNCHANGED <<doc, accepted>>

-----------------------------------------------------------------------------
(* Texts                                                                   *)

Acceptable(q) == Slug(q) \in Notices => Parses(Does(q).text)
\* The source is locked with the publication, a translation with the next one.
Editable(q, i) == IF Does(q).op = "edit" THEN version[i].status = "DRAFT" ELSE version[i].status # "ARCHIVED"
CheckEdit(q) ==
  /\ \/ Named(q) = {} /\ Answers(q, {"edit", "translate"}, "unknown")
     \/ \E i \in Named(q) :
          IF Editable(q, i) /\ Acceptable(q) THEN Starts(q, {"edit", "translate"}, "write", None)
          ELSE Answers(q, {"edit", "translate"}, "refused")
  /\ UNCHANGED legalVars
Translated(t, text) == [t EXCEPT !.text = text, !.status = "TRANSLATED"]
WriteContent(q) ==
  /\ At(q, {"edit", "translate"}, "write")
  /\ IF Named(q) = {} THEN Ends(q, "failed") /\ UNCHANGED version
     ELSE /\ Ends(q, "written")
          /\ version' = IF Does(q).op = "edit" THEN [version EXCEPT ![Does(q).version].source = Does(q).text]
                        ELSE [version EXCEPT ![Does(q).version].translation = Translated(@, Does(q).text)]
  /\ UNCHANGED <<doc, accepted>>

ReadTranslation(q) ==
  /\ \/ (\A i \in Named(q) : version[i].translation.text = None) /\ Answers(q, {"approve"}, "unknown")
     \/ \E i \in Named(q) :
          /\ version[i].translation.text # None
          /\ IF version[i].status = "ARCHIVED" THEN Answers(q, {"approve"}, "refused")
             ELSE Starts(q, {"approve"}, "write", [text |-> version[i].translation.text])
  /\ UNCHANGED legalVars
Approved(t, q) == [t EXCEPT !.status = "APPROVED", !.by = q]
\* The row is approved as it is by then.
ApproveTranslation(q) ==
  /\ At(q, {"approve"}, "write")
  /\ IF Named(q) = {} THEN Ends(q, "failed") /\ UNCHANGED version
     ELSE /\ Ends(q, "approved")
          /\ version' = [version EXCEPT ![Does(q).version].translation = Approved(@, q)]
  /\ UNCHANGED <<doc, accepted>>

-----------------------------------------------------------------------------
(* publishVersion: checks, then a transaction of two statements            *)

Servable(v) == {v.source} \cup (IF v.translation.status = "APPROVED" THEN {v.translation.text} ELSE {})
CheckPublish(q) ==
  /\ \/ Named(q) = {} /\ Answers(q, {"publish"}, "unknown")
     \/ \E i \in Named(q) :
          IF version[i].status = "DRAFT" /\ (Slug(q) \in Notices => \A t \in Servable(version[i]) : Parses(t))
          THEN Starts(q, {"publish"}, "archive", None) ELSE Answers(q, {"publish"}, "refused")
  /\ UNCHANGED legalVars
\* The first statement sees what is published when it starts.
ArchivePublished(q) ==
  /\ At(q, {"publish"}, "archive") /\ Goes(q, "commit", [archived |-> Published(Slug(q))])
  /\ UNCHANGED legalVars
Archived(q) == Loc(q).archived
PublishVersion(q) ==
  /\ At(q, {"publish"}, "commit")
  /\ IF Named(q) = {} THEN Ends(q, "failed") /\ UNCHANGED version
     ELSE /\ Ends(q, "published")
          /\ version' = [i \in DOMAIN version |->
               IF i = Does(q).version
               THEN [version[i] EXCEPT !.status = "PUBLISHED", !.reaccept = Does(q).reaccept, !.by = q]
               ELSE IF i \in Archived(q) THEN [version[i] EXCEPT !.status = "ARCHIVED"] ELSE version[i]]
  /\ UNCHANGED <<doc, accepted>>

-----------------------------------------------------------------------------
(* Reading and accepting                                                   *)

\* resolveContent: the translation once it is approved, the source before.
resolveContent(v, translated) == IF translated /\ v.translation.status = "APPROVED" THEN v.translation.text ELSE v.source
Acceptance(q, i) == [version |-> i, user |-> Does(q).who, by |-> q]
ReadAccepted(q) ==
  /\ \/ (\A i \in Named(q) : version[i].status = "DRAFT") /\ Answers(q, {"accept"}, "refused")
     \/ \E i \in Named(q) :
          /\ version[i].status # "DRAFT"
          \* a processing agreement binds the team: its owner accepts it
          /\ IF Does(q).dpa /\ ~Does(q).owner THEN Answers(q, {"accept"}, "forbidden")
             ELSE Starts(q, {"accept"}, "create", None)
  /\ UNCHANGED legalVars
CreateAcceptance(q) ==
  /\ At(q, {"accept"}, "create")
  /\ IF Named(q) = {} THEN Ends(q, "failed") /\ UNCHANGED accepted
     ELSE Ends(q, "accepted") /\ accepted' = accepted \cup {Acceptance(q, Does(q).version)}
  /\ UNCHANGED <<doc, version>>

Current(d) == Published(d)
BeginSignUp(q) == Starts(q, {"signUp"}, "find", [left |-> Signups, row |-> 0]) /\ UNCHANGED legalVars
\* recordSignupAcceptances: a slug that fails does not stop the next.
FindSignUp(q) ==
  /\ At(q, {"signUp"}, "find")
  /\ IF Loc(q).left = {} THEN Ends(q, "signedUp")
     ELSE LET d == CHOOSE d \in Loc(q).left : TRUE
              next == [left |-> Loc(q).left \ {d}, row |-> 0]
          IN \/ Current(d) = {} /\ Goes(q, "find", next)
             \/ \E i \in Current(d) : Goes(q, "create", [next EXCEPT !.row = i])
             \/ plan.failures /\ Goes(q, "find", next)
  /\ UNCHANGED legalVars
CreateSignUp(q) ==
  /\ At(q, {"signUp"}, "create") /\ Goes(q, "find", Loc(q))
  /\ \/ version[Loc(q).row].status # "GONE" /\ accepted' = accepted \cup {Acceptance(q, Loc(q).row)}
     \/ (plan.failures \/ version[Loc(q).row].status = "GONE") /\ UNCHANGED accepted
  /\ UNCHANGED <<doc, version>>

\* getPendingReacceptances
Pending(u) == {i \in DOMAIN version : /\ version[i].status = "PUBLISHED" /\ version[i].reaccept
                                      /\ ~\E a \in accepted : a.version = i /\ a.user = u}

LegalStep(q) ==
  /\ \/ createDocument(q) \/ CountPublished(q) \/ DeleteDocument(q) \/ FindLatest(q) \/ CreateDraft(q)
     \/ CheckEdit(q) \/ WriteContent(q) \/ ReadTranslation(q) \/ ApproveTranslation(q)
     \/ CheckPublish(q) \/ ArchivePublished(q) \/ PublishVersion(q)
     \/ ReadAccepted(q) \/ CreateAcceptance(q) \/ BeginSignUp(q) \/ FindSignUp(q) \/ CreateSignUp(q)
     \/ Does(q).op \in LegalOps /\ Dies(q) /\ UNCHANGED legalVars
  /\ UNCHANGED plan
LegalNext == \E q \in Calls : LegalStep(q)

-----------------------------------------------------------------------------
(* Properties                                                              *)

\* The rows of this module have the shape of the schema, its unique key too.
LegalTypeOK ==
  /\ doc \subseteq Docs
  /\ \A i \in DOMAIN version :
       /\ version[i].doc \in Docs /\ version[i].status \in {"DRAFT", "PUBLISHED", "ARCHIVED", "GONE"}
       /\ version[i].source \in Texts /\ version[i].translation.text \in Texts \cup {None}
       /\ \A k \in VersionsOf(version[i].doc) :
            i \in VersionsOf(version[i].doc) /\ version[i].number = version[k].number => i = k
  /\ \A a \in accepted : a.version \in DOMAIN version

\* A document has one published version, unless two were published at the same
\* time (each transaction archives what was published when it began).
OnePublishedUnlessRacing ==
  \A i, k \in DOMAIN version :
    /\ i # k /\ version[i].doc = version[k].doc
    /\ version[i].status = "PUBLISHED" /\ version[k].status = "PUBLISHED"
    => \E q, r \in Calls : Does(q).op = "publish" /\ Does(r).op = "publish" /\ Overlap(q, r)

\* What was published once does not change in its source, and a version that
\* was archived is not published again, but by a call that was let through
\* before (updateContent and publishVersion check the status they read first).
PublishedSourceFrozen ==
  [][\A i \in DOMAIN version :
       \/ version[i].status \in {"DRAFT", "GONE"} \/ version'[i].status = "GONE"
       \/ /\ version'[i].source = version[i].source
          /\ version[i].status = "ARCHIVED" => version'[i].status = "ARCHIVED"
       \/ \E q \in Calls : call'[q] # call[q] /\ Racing(q, {"publish"})]_<<plan, call, legalVars>>

\* Whatever text of a published consent notice is served parses: a draft is
\* looked at when it is published, a later translation when it is written.
ServedNoticeParses ==
  \A d \in Docs \cap Notices : \A i \in Published(d), t \in BOOLEAN : Parses(resolveContent(version[i], t))

\* An approved translation is the one the approving call read (approveTranslation
\* knows of no page it was shown on), unless it was written while the approval was
\* on its way.
ApprovedWasSeen ==
  \A i \in DOMAIN version :
    LET t == version[i].translation
    IN t.status = "APPROVED" => t.text = Loc(t.by).text \/ Racing(t.by, {"translate"})

\* An acceptance is evidence of a text that still exists and was published.
AcceptanceKept ==
  \A a \in accepted : version[a.version].status \in {"PUBLISHED", "ARCHIVED"}

\* Who signs up is not asked to accept again what was published by then, unless the
\* row could not be written or two versions were published.
AskedForNewerOnly ==
  ~plan.failures => \A q \in Calls :
    Does(q).op = "signUp" /\ call[q].end = "signedUp" =>
      \A i \in Pending(Does(q).who) :
        \/ version[i].doc \notin Signups
        \/ version[i].by \notin call[q].since
        \/ Cardinality(Published(version[i].doc)) > 1

\* A document is evidence: of one published version, in words that somebody saw
\* and that do not change, which parses where it is read and stays while
\* somebody has accepted it.
DocumentsAreEvidence ==
  /\ [](/\ OnePublishedUnlessRacing /\ ServedNoticeParses /\ ApprovedWasSeen
        /\ AcceptanceKept /\ AskedForNewerOnly)
  /\ PublishedSourceFrozen
=============================================================================
