SPECIFICATION Spec
CONSTANTS
    NoRow = NoRow
    NoAgent = NoAgent
    p1 = p1
    a2 = a2
    a1 = a1
    d2 = d2
    d1 = d1
    t1 = t1
    r1 = r1
    Rows = {r1}
    Preexisting = {r1}
    Turns = {t1}
    Kinds = {"batch", "stream"}
    Desk = {d1, d2}
    DeskOps = {"handover", "message", "close", "delete"}
    Agents = {a1, a2}
    Pods = {p1}
    EchoTakeover = TRUE
    Overlap = TRUE
SYMMETRY PeopleSymmetry
INVARIANTS
    AgentsSpeakWhereAssigned
    AssignedFlowNamesAssignee
    UnreadNeedsHuman
PROPERTIES
    BotSilentAfterTakeover
