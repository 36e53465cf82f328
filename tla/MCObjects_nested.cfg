SPECIFICATION Spec
CONSTANTS
  t1 = t1
  t2 = t2
  t3 = t3
  Thread = {t1, t2, t3}
  Isr = {isr}
  Priority <- MCPriority
  Waits = {"finite"}
  Nested = TRUE
  Flag = "PRIO"
  Null = null
  ValueMax = 2
  Bit = {b1, b2}
  Size = 2
  Mail = {m1, m2}
  Lwm = 1
  Block = {k1, k2}
  Pool = pool
  Single = t3
  MemSize = 14
  Header = 2
  MinSize = 2
  Request = {1, 2, 4, 7}
  LengthMax = 4
  Slot = {s1, s2, s3}
  Kind = {"semaphore"}
INVARIANT ReleaseCounts
