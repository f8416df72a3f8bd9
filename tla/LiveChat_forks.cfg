SPECIFICATION Spec
CONSTANTS
    NoRow = NoRow
    NoAgent = NoAgent
    a1 = a1
    d1 = d1
    t2 = t2
    t1 = t1
    r2 = r2
    r1 = r1
    Rows = {r1, r2}
    Preexisting = {}
    Turns = {t1, t2}
    Kinds = {"batch", "stream"}
    Desk = {d1}
    DeskOps = {"handover", "delete"}
    Agents = {a1}
    Pods = {}
    EchoTakeover = FALSE
    Overlap = TRUE
SYMMETRY RowSymmetry
INVARIANTS
    ForksOnlyFromRacingCreates
    ReplyAnswersBilledTurn
