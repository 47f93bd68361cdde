CONSTANTS
  Thread = {t1, t2}
  Handler = {h1, h2}
  EventType = {e1, e2}
  Callback = {f, g}
  Block = {b1, b2, b3}
  NULL = NULL
SYMMETRY MCSymmetry
SPECIFICATION ThreadsSpec
INVARIANTS ThreadsTypeOK NoCircularWait NothingForgotten
PROPERTY CallbackKept
