---------------------------- MODULE StripeBootstrap ----------------------------
(***************************************************************************)
(* What a pod makes sure of at Stripe when it starts: the product of each  *)
(* price, looked for among the active ones and created, and the meter that *)
(* usage is reported to.  A rollout starts several pods; each first looks  *)
(* in the database, then at Stripe, and writes at the end.  A call is one  *)
(* product, the meter, or somebody's hand in Stripe's dashboard.           *)
(***************************************************************************)
EXTENDS Requests

\* No answer is none of the answers; and what Stripe and the rows hold before: one active product at most, that the
\* search has seen if it sees everything at once, and rows that name what is there.
ASSUME NoneIsNoStart == None \notin {"stored", "kept"}
ASSUME StripeIsTold == \A p \in Plans :
  /\ p.products \in Seq([active : BOOLEAN, indexed : BOOLEAN, by : {None}]) /\ p.stored \in 0..Len(p.products)
  /\ p.meters \in Seq({"active", "stopped", "gone"}) /\ p.setting \in 0..Len(p.meters)
  /\ \A i, k \in DOMAIN p.products : p.products[i].active /\ p.products[k].active => i = k
  /\ p.windows = 0 => \A i \in DOMAIN p.products : p.products[i].indexed

VARIABLES
  product,   \* Seq(product at Stripe)
  stored,    \* product of the row in StripeProduct, 0 without a row
  meter,     \* Seq(state of a meter at Stripe)
  setting    \* meter of the row in SystemSettings, 0 without a row

bootstrapVars == <<product, stored, meter, setting>>
Boots == {"ensureProduct", "ensureMeter"}

BootstrapInit ==
  /\ product = plan.products /\ stored = plan.stored
  /\ meter = plan.meters /\ setting = plan.setting

-----------------------------------------------------------------------------
(* ensureProduct                                                           *)

FindProductRow(q) ==
  /\ Starts(q, {"ensureProduct"}, IF stored = 0 THEN "search" ELSE "retrieve", [id |-> stored, found |-> 0])
  /\ UNCHANGED bootstrapVars
\* A product that cannot be retrieved counts as missing.
RetrieveProduct(q) ==
  /\ At(q, {"ensureProduct"}, "retrieve")
  /\ \/ product[Loc(q).id].active /\ Ends(q, "kept")
     \/ ~product[Loc(q).id].active /\ Goes(q, "search", Loc(q))
     \/ plan.failures /\ Goes(q, "search", Loc(q))
  /\ UNCHANGED bootstrapVars

Searched == {i \in DOMAIN product : product[i].active /\ product[i].indexed}
SearchProduct(q) ==
  /\ At(q, {"ensureProduct"}, "search")
  /\ \/ Searched = {} /\ Goes(q, "create", Loc(q))
     \/ \E i \in Searched : Goes(q, "store", [Loc(q) EXCEPT !.found = i])
     \/ plan.failures /\ Ends(q, "failed")
  /\ UNCHANGED bootstrapVars

Created == Len(product) + 1
CreateProduct(q) ==
  /\ At(q, {"ensureProduct"}, "create")
  /\ \/ /\ Goes(q, "store", [Loc(q) EXCEPT !.found = Created])
        /\ product' = Append(product, [active |-> TRUE, indexed |-> plan.windows = 0, by |-> q])
     \/ plan.failures /\ Ends(q, "failed") /\ UNCHANGED product
  /\ UNCHANGED <<stored, meter, setting>>
\* A row that was there is written over; one that came meanwhile refuses the other.
StoreProduct(q) ==
  /\ At(q, {"ensureProduct"}, "store")
  /\ IF Loc(q).id # 0 \/ stored = 0 THEN Ends(q, "stored") /\ stored' = Loc(q).found
     ELSE Ends(q, "failed") /\ UNCHANGED stored
  /\ UNCHANGED <<product, meter, setting>>
ensureProduct(q) ==
  FindProductRow(q) \/ RetrieveProduct(q) \/ SearchProduct(q) \/ CreateProduct(q) \/ StoreProduct(q)

-----------------------------------------------------------------------------
(* ensureMeter                                                             *)

FindSetting(q) ==
  /\ Starts(q, {"ensureMeter"}, IF setting = 0 THEN "list" ELSE "retrieve", [id |-> setting])
  /\ UNCHANGED bootstrapVars
\* A meter that was stopped is still retrieved, and kept.
RetrieveMeter(q) ==
  /\ At(q, {"ensureMeter"}, "retrieve")
  /\ \/ meter[Loc(q).id] # "gone" /\ Ends(q, "kept")
     \/ (meter[Loc(q).id] = "gone" \/ plan.failures) /\ Goes(q, "forget", Loc(q))
  /\ UNCHANGED bootstrapVars
\* Another pod may have done so before, which is an error here.
ForgetMeter(q) ==
  /\ At(q, {"ensureMeter"}, "forget")
  /\ IF setting = 0 THEN Ends(q, "failed") ELSE Goes(q, "list", Loc(q))
  /\ setting' = 0 /\ UNCHANGED <<product, stored, meter>>
\* Mutation: stopped meters are found.
ListedAll == {i \in DOMAIN meter : meter[i] # "gone"}
Listed == {i \in DOMAIN meter : meter[i] = "active"}
ListMeters(q) ==
  /\ At(q, {"ensureMeter"}, "list")
  /\ \/ Listed = {} /\ Goes(q, "create", Loc(q))
     \/ \E i \in Listed : Goes(q, "store", [id |-> i])
     \/ plan.failures /\ Ends(q, "failed")
  /\ UNCHANGED bootstrapVars
CreateMeter(q) ==
  /\ At(q, {"ensureMeter"}, "create")
  /\ \/ Goes(q, "store", [id |-> Len(meter) + 1]) /\ meter' = Append(meter, "active")
     \/ plan.failures /\ Ends(q, "failed") /\ UNCHANGED meter
  /\ UNCHANGED <<product, stored, setting>>
StoreMeter(q) ==
  /\ At(q, {"ensureMeter"}, "store") /\ Ends(q, "stored") /\ setting' = Loc(q).id
  /\ UNCHANGED <<product, stored, meter>>
ensureMeter(q) == FindSetting(q) \/ RetrieveMeter(q) \/ ForgetMeter(q) \/ ListMeters(q) \/ CreateMeter(q) \/ StoreMeter(q)

-----------------------------------------------------------------------------
(* Stripe                                                                  *)

ArchiveProduct(q) ==
  /\ Answers(q, {"archiveProduct"}, "archived")
  /\ \E i \in DOMAIN product : product[i].active /\ product' = [product EXCEPT ![i].active = FALSE]
  /\ UNCHANGED <<stored, meter, setting>>
StopMeter(q) ==
  /\ Answers(q, {"stopMeter"}, "stopped")
  /\ \E i \in DOMAIN meter : meter[i] = "active" /\ meter' = [meter EXCEPT ![i] = "stopped"]
  /\ UNCHANGED <<product, stored, setting>>
\* Its search sees a product some time after it was created.
IndexProduct ==
  /\ \E i \in DOMAIN product : ~product[i].indexed /\ product' = [product EXCEPT ![i].indexed = TRUE]
  /\ UNCHANGED <<plan, call, stored, meter, setting>>

BootstrapStep(q) ==
  /\ \/ ensureProduct(q) \/ ensureMeter(q) \/ ArchiveProduct(q) \/ StopMeter(q)
     \/ Does(q).op \in Boots /\ Dies(q) /\ UNCHANGED bootstrapVars
  /\ UNCHANGED plan
BootstrapNext == IndexProduct \/ \E q \in Calls : BootstrapStep(q)

-----------------------------------------------------------------------------
(* Properties                                                              *)

\* The rows name what Stripe has or had, and what a start is about to write does.
BootstrapTypeOK ==
  /\ \A i \in DOMAIN product : product[i].active \in BOOLEAN /\ product[i].by \in Calls \cup {None}
  /\ \A i \in DOMAIN meter : meter[i] \in {"active", "stopped", "gone"}
  /\ stored \in 0..Len(product) /\ setting \in 0..Len(meter)
  /\ \A q \in Calls : At(q, {"ensureProduct"}, "store") => Loc(q).found \in DOMAIN product

\* Stripe has one active product of a key, unless two pods started at the same
\* time or its search is behind, even where Stripe could not be reached in
\* between.
OneProductUnlessRacing ==
  plan.windows = 0 => \A i, k \in DOMAIN product :
    /\ i # k /\ product[i].active /\ product[k].active
    => product[i].by # None /\ product[k].by # None /\ Overlap(product[i].by, product[k].by)

\* Calls of one kind and those by hand, never at the same time
Apart(op, hand) == ~\E q, r \in Calls : Does(q).op = op /\ Does(r).op = hand /\ Overlap(q, r)
\* A start that went well after the last change by hand
Settled(op, hand, ends) == \E q \in Calls :
  /\ Does(q).op = op /\ call[q].end \in ends
  /\ \A r \in Calls : Does(r).op = hand /\ Begun(r) => r \in call[q].since

\* Once a pod has started after a product was archived, prices are made for a
\* product that can be sold, unless it was archived during a start.
StoredProductSells ==
  Settled("ensureProduct", "archiveProduct", {"stored", "kept"}) /\ Apart("ensureProduct", "archiveProduct")
    => stored # 0 /\ product[stored].active

\* When every start is through, the meter that usage is reported to takes it,
\* unless it was stopped afterwards or during one, or a start was cut off after
\* it had forgotten the meter.
MeterTakesUsage ==
  /\ ~plan.failures /\ Settled("ensureMeter", "stopMeter", {"stored"}) /\ Apart("ensureMeter", "stopMeter")
  /\ \A q \in Calls : Does(q).op = "ensureMeter" /\ Begun(q) => call[q].pc = "done"
  => setting # 0 /\ meter[setting] = "active"

\* However many pods start, Stripe and the rows settle on one product that sells
\* and a meter that takes usage.
BootstrapSettles == OneProductUnlessRacing /\ StoredProductSells /\ MeterTakesUsage
=============================================================================
