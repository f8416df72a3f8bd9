---------------------------- MODULE MCWorkspace ----------------------------
(* Small instances of Workspace: each plan says what the calls are, and      *)
(* leaves their order and their interleaving open.                           *)
EXTENDS Workspace, TLC

CONSTANTS q1, q2, q3, b1, b2, f1, f2, f3, u1, u2, p1, p2

Call(op, files, urls) ==
  [op |-> op, bot |-> b1, pod |-> p1, files |-> files, urls |-> urls, to |-> u1, force |-> FALSE]
F(op, files) == Call(op, files, {})
U(op, urls) == Call(op, {}, urls)
B(op, b) == [Call(op, {}, {}) EXCEPT !.bot = b]
Edit(from, to) == [U("edit", {from}) EXCEPT !.to = to]
Never == Call("none", {}, {})
Elsewhere(c) == [c EXCEPT !.pod = p2]
Again(c) == [c EXCEPT !.force = TRUE]

Base == [ops |-> [q \in Calls |-> Never], stored |-> {}, indexed |-> {}, size |-> [f \in Files |-> 1],
         limit |-> 2, bot |-> b1, botLimit |-> 2, failures |-> FALSE]
Does3(x, y, z) == (q1 :> x) @@ (q2 :> y) @@ (q3 :> z)
Case(x, y, z) == [Base EXCEPT !.ops = Does3(x, y, z)]
With(c, files, urls) == [c EXCEPT !.stored = files, !.indexed = urls]
Tight(c) == [c EXCEPT !.limit = 1]

Legal ==
  { \* two uploads against the quota, with the lock and without
    Tight(Case(F("upload", {f1}), F("attach", {f2}), Elsewhere(F("attach", {f3})))),
    Tight(Case(F("widget", {f1}), F("upload", {f2}), F("widget", {f3}))),
    With(Case(F("deleteFiles", {f1, f2}), F("upload", {f3}), Never), {f1, f2}, {}),
    Case(F("upload", {f1, f2}), F("deleteFile", {f1}), F("widget", {f3})),
    With(Case(F("deleteFile", {f1}), F("deleteFile", {f1}), F("upload", {f2})), {f1}, {}),
    With(Case(F("deleteFiles", {f1, f2}), F("deleteFile", {f2}), F("widget", {f3})), {f1, f2}, {}),
    Case(F("attach", {f1}), F("deleteAttachment", {f1}), F("deleteAttachment", {f1})),
    Case(F("attach", {f1}), F("deleteAttachment", {f1}), F("deleteFile", {f1})),
    \* bots
    Case(B("createBot", b2), B("deleteBot", b1), B("deleteBot", b1)),
    [Case(B("createBot", b2), B("deleteBot", b2), B("deleteBot", b1)) EXCEPT !.botLimit = 1],
    With(Case(B("deleteBot", b1), F("deleteFile", {f1}), U("add", {u2})), {f1}, {u1}),
    With(Case(B("deleteBot", b1), F("widget", {f1}), F("attach", {f2})), {}, {u1}),
    \* pages
    [Case(U("add", {u1}), U("addPages", {u1, u2}), U("drop", {u1})) EXCEPT !.limit = 3],
    Case(U("addPages", {u1, u2}), U("add", {u1}), F("widget", {f1})),
    With(Case(U("reingest", {u1, u2}), U("dropPages", {u1}), Never), {}, {u1, u2}),
    With(Case(U("reingest", {u1}), Again(U("addPages", {u1})), Never), {}, {u1}),
    With(Case(Edit(u1, u1), U("dropPages", {u1}), U("add", {u2})), {}, {u1}),
    With(Case(Edit(u1, u2), U("drop", {u2}), U("add", {u1})), {}, {u1, u2}),
    Case(U("addPages", {u1}), F("upload", {f1}), F("attach", {f2})) }

\* Each of them with no failure, and with any.
Cases == Legal \cup {[c EXCEPT !.failures = TRUE] : c \in Legal}

=============================================================================
