\* Two browsers of one account, three calls at a time.
SPECIFICATION Spec
CONSTANTS
  Browsers = {b1, b2}
  Requests = {q1, q2, q3}
  Tokens = {t1, t2, t3}
  NoToken = NoToken
  Nobody = Nobody
INVARIANTS
  SessionsTypeOK
  LastWriterHoldsSession
  OneBrowserPerToken
PROPERTIES
  SupersededStaysDead
SYMMETRY SessionSymmetry
