SPECIFICATION Spec
CONSTANTS
  a = a
  b = b
  pem = pem
  u = u
  v = v
  None = None
  Kind = {"TimestampAuthority"}
  Name = {n1, n2}
  Cert = {a, b, pem}
  Corrupt = {pem}
  Chain <- Single
  Uri = {u, v}
  Legacy <- Earlier
  MaxTime = 2
  MaxRun = 4
SYMMETRY Interchangeable
INVARIANTS TypeOK ListedOnce PeriodsInOrder NewestStaysOpen ServicesBacked
PROPERTY PastStaysTrusted
CHECK_DEADLOCK FALSE
