SPECIFICATION Spec
CONSTANTS
  Thread = {t1, t2, t3}
  Isr = {isr}
  Slot = {s1, s2}
  Msg = {m1, m2}
  Null = null
  Waits = {"finite"}
  Nested = FALSE
SYMMETRY Symmetry
INVARIANTS TypeOK SlotsOK NoLostWakeup
PROPERTY Implements
