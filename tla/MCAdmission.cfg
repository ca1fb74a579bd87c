SPECIFICATION FairSpec
CONSTANTS
  r1 = r1
  r2 = r2
  r3 = r3
  p1 = p1
  p2 = p2
  Reqs = {r1, r2}
  Pins = {p1, p2}
  NoPin = NoPin
  AcceptsCap = 1
  MessagesCap = 1
  Nil = Nil
INVARIANTS
  AdmissionTypeOK
  AnswerNeverBlocks
PROPERTIES
  SessionNeedsConsent
  RequestsAnswered
  PromptsShown
