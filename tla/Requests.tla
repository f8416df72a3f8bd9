------------------------------ MODULE Requests ------------------------------
(***************************************************************************)
(* What the services of the back end share: requests, webhooks and admin   *)
(* calls that run at the same time on several pods.  A call makes the      *)
(* steps of its handler one await at a time; pc names the next one, loc    *)
(* holds what the handler has read so far, and end what it answered.       *)
(***************************************************************************)
EXTENDS Integers, Sequences, FiniteSets

CONSTANTS
  Calls,   \* calls an instance makes, each at most once
  Plans,   \* what the calls are and which follow which; everything else is left open
  None

ASSUME CallsAreTold == \A p \in Plans : DOMAIN p.ops = Calls /\ p.failures \in BOOLEAN /\ p.after \in [Calls -> SUBSET Calls]

ASSUME NoneIsApart == None \notin Calls

VARIABLES plan, call

Idle == [pc |-> "new", loc |-> None, end |-> None, since |-> {}]
Over == {"done", "dead"}
Does(q) == plan.ops[q]
Loc(q) == call[q].loc

CallsInit == plan \in Plans /\ call = [q \in Calls |-> Idle]

Begun(q) == call[q].pc # "new"
\* A call comes in once the calls it follows are over, in any order otherwise,
\* and remembers which calls were over by then.
Starting(q, ops) ==
  call[q].pc = "new" /\ Does(q).op \in ops /\ \A r \in plan.after[q] : call[r].pc \in Over
Enter(q, pc, loc, end) ==
  call' = [call EXCEPT ![q] = [pc |-> pc, loc |-> loc, end |-> end,
                               since |-> {r \in Calls : call[r].pc \in Over}]]
Starts(q, ops, pc, loc) == Starting(q, ops) /\ Enter(q, pc, loc, None)
Answers(q, ops, end) == Starting(q, ops) /\ Enter(q, "done", None, end)
At(q, ops, pc) == call[q].pc = pc /\ Does(q).op \in ops
Moves(q, pc, loc, end) ==
  call' = [call EXCEPT ![q] = [pc |-> pc, loc |-> loc, end |-> end, since |-> @.since]]
Goes(q, to, loc) == Moves(q, to, loc, call[q].end)
Ends(q, end) == Moves(q, "done", Loc(q), end)

\* The pod dies under the call.
Dies(q) == /\ plan.failures /\ Begun(q) /\ call[q].pc \notin Over
           /\ Moves(q, "dead", Loc(q), call[q].end)

Overlap(q, r) == q # r /\ Begun(q) /\ Begun(r) /\ q \notin call[r].since /\ r \notin call[q].since
Racing(q, ops) == \E r \in Calls : Does(r).op \in ops /\ Overlap(q, r)
=============================================================================
