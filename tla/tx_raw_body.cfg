SPECIFICATION Spec
CONSTANTS
  b1 = b1
  q1 = q1
  r1 = r1
  r2 = r2
  Tasks = {b1, q1, r1, r2}
  NumConns = 2
  BodyLen = 2
  Scenarios <- BlockOfRaws
INVARIANT BlockAtomic
