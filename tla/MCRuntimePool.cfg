SPECIFICATION PoolSpec
CONSTANTS
  Tenants = {"t1", "t2"}
  Callers = {p1, p2, p3, p4}
  MaxResident = 1
  MaxOps = 4
SYMMETRY Symmetry
INVARIANT NoCircularWait
CHECK_DEADLOCK FALSE
