----------------------------- MODULE AtMostOnce -----------------------------
(***************************************************************************)
(* What the notification senders of the backend promise about jobs that    *)
(* several pods, requests or retries may pick up: somebody claims a job,   *)
(* a claim is never taken back, and a claimed job is attempted at most     *)
(* once.  A claimed job may stay unattempted for ever (its claimant died). *)
(***************************************************************************)
EXTENDS Naturals

CONSTANT Jobs

VARIABLES claimed,   \* the jobs somebody owns
          tried      \* how often each job was handed to the provider

Init == /\ claimed = {}
        /\ tried = [j \in Jobs |-> 0]

Claim(j) == /\ j \in Jobs \ claimed
            /\ claimed' = claimed \cup {j}
            /\ UNCHANGED tried

Try(j) == /\ j \in claimed
          /\ tried[j] = 0
          /\ tried' = [tried EXCEPT ![j] = 1]
          /\ UNCHANGED claimed

Next == \E j \in Jobs : Claim(j) \/ Try(j)

Spec == Init /\ [][Next]_<<claimed, tried>>
=============================================================================
