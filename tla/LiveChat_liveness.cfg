SPECIFICATION FairSpec
CONSTANTS
    NoRow = NoRow
    NoAgent = NoAgent
    p2 = p2
    p1 = p1
    a1 = a1
    d1 = d1
    t1 = t1
    r1 = r1
    Rows = {r1}
    Preexisting = {r1}
    Turns = {t1}
    Kinds = {"batch", "stream"}
    Desk = {d1}
    DeskOps = {"handover", "message", "close", "delete"}
    Agents = {a1}
    Pods = {p1, p2}
    EchoTakeover = TRUE
    Overlap = TRUE
PROPERTIES
    ChatsEnd
