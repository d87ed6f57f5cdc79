\* One submission, two workers and two dispatchers, everything may fail.
SPECIFICATION Spec
CONSTANTS
  t1 = t1  t2 = t2  p1 = p1  x1 = x1  x2 = x2  o1 = o1  o2 = o2  s1 = s1
  w1 = w1  w2 = w2  d1 = d1  d2 = d2  alice = alice  bob = bob
  Tasks = {t1}  Templates = {}  Exports = {}  Operations = {}
  Parent <- MCParent
  Owner <- MCTwoOwners
  Workers = {w1, w2}  Dispatchers = {d1, d2}  Sessions = {}
  Redis = TRUE  Faults = {"worker", "dispatcher", "broker"}
  MaxRevision = 0  MaxAttempts = 2
  MaxRunning = 2  UserRunning = 1  MaxWaiting = 1  UserWaiting = 1
SYMMETRY WorkerSymmetry
PROPERTIES RowsEndOnce OnlyLeaseholderPublishes
