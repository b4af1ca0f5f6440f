SPECIFICATION Spec
CONSTANTS
  t1 = t1
  t2 = t2
  s1 = s1
  s2 = s2
  Threads = {t1, t2}
  Sessions = {s1, s2}
  Leavers = {s1}
  CHUNK_SIZE = 2
  MAX_SEND_QUEUE_BYTES = 2
  Sizes = {1, 2}
  MaxBuffers = 2
  c1 = c1
  c2 = c2
  c3 = c3
  Chunks = {c1, c2, c3}
  None = None
INVARIANTS
  BytesIntact
  QueueIsBounded
  ClosedIsReleased
SYMMETRY Alike
CHECK_DEADLOCK FALSE
