SPECIFICATION ServicesSpec
CONSTANTS
  q1 = q1
  q2 = q2
  q3 = q3
  q4 = q4
  v1 = v1
  t1 = t1
  t2 = t2
  b1 = b1
  b2 = b2
  p1 = p1
  d1 = d1
  None = None
  Broken = Broken
  Calls = {q1, q2, q3, q4}
  Contacts = {v1}
  Replies = {t1, t2}
  MaxReplies = 2
  DuplicateLookback = 2
  Fingers = {v1}
  MaxMessages = 2
  MaxTokens = 3
  MaxRisk = 35
  Answers3 = {t1, t2}
  Bots = {b1, b2}
  Pages2 = {p1}
  Docs = {d1}
  Notices = {d1}
  Signups = {d1}
  Texts = {t1, t2, Broken}
  Plans <- Cases
INVARIANTS
  ServicesTypeOK
  AnswersBounded
  EchoesUnderstood
  OneConnection
  ConnectionsAgree
  BootstrapSettles
PROPERTIES
  VisitorsKept
  DocumentsAreEvidence
CHECK_DEADLOCK FALSE
