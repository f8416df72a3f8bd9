SPECIFICATION Spec
CONSTANTS
    NoRow = NoRow
    NoAgent = NoAgent
    p1 = p1
    a1 = a1
    d1 = d1
    t2 = t2
    t1 = t1
    r1 = r1
    Rows = {r1}
    Preexisting = {r1}
    Turns = {t1, t2}
    Kinds = {"batch", "stream"}
    Desk = {d1}
    DeskOps = {"handover", "message", "close", "delete"}
    Agents = {a1}
    Pods = {p1}
    EchoTakeover = FALSE
    Overlap = TRUE
SYMMETRY PeopleSymmetry
INVARIANTS
    TypeOK
    MessageSavedOnce
    LiveChatHasAgent
PROPERTIES
    BackToBotOnlyByStaleReopen
