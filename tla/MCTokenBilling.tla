--------------------------- MODULE MCTokenBilling ---------------------------
(* Instances of TokenBilling: three calls a case, at most two months, three     *)
(* batches of events and two versions of the price plans.                       *)
EXTENDS TokenBilling

CONSTANTS c1, c2, c3

OpsOf(a, b, c) == [q \in Calls |-> CASE q = c1 -> a [] q = c2 -> b [] OTHER -> c]
Case(ops) == [ops |-> ops, months |-> 0, batches |-> 0, versions |-> 1, limit |-> 0,
              settings |-> {}, repeats |-> 0, failures |-> FALSE, premium |-> TRUE]
Usage == [Case(OpsOf("chat", "chat", "chat")) EXCEPT !.limit = 3]
Hooks == [Case(OpsOf("subscribe", "none", "none")) EXCEPT !.months = 1, !.batches = 3, !.versions = 2,
                                                        !.premium = FALSE]

Cases ==
  { \* turns, notices and purchases against the ledger and the limit
    Usage,
    [Case(OpsOf("chat", "ingest", "ingest")) EXCEPT !.limit = 4, !.failures = TRUE],
    [Case(OpsOf("buy", "buy", "chat")) EXCEPT !.limit = 4],
    [Case(OpsOf("chat", "buy", "chat")) EXCEPT !.settings = {"limit"}],
    [Case(OpsOf("chat", "chat", "none")) EXCEPT !.settings = {"alloc"}],
    [Case(OpsOf("chat", "chat", "chat")) EXCEPT !.premium = FALSE],
    \* renewals in the middle of turns
    [Case(OpsOf("chat", "chat", "none")) EXCEPT !.months = 1, !.batches = 2, !.limit = 3],
    [Case(OpsOf("buy", "none", "none")) EXCEPT !.months = 1, !.batches = 2, !.failures = TRUE, !.repeats = 1],
    \* a first subscription and its renewals, plans published at any moment
    Hooks,
    [Hooks EXCEPT !.repeats = 1, !.batches = 2],
    [Hooks EXCEPT !.failures = TRUE, !.repeats = 1, !.batches = 2],
    [Hooks EXCEPT !.premium = TRUE, !.settings = {"limit", "stripe"}],
    [Hooks EXCEPT !.ops = OpsOf("subscribe", "subscribe", "none"), !.months = 0, !.batches = 2] }

=============================================================================
