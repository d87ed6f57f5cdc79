\* A task, its operations and exports, direct and handed off, compete for the queue.
SPECIFICATION Spec
CONSTANTS
  t1 = t1  t2 = t2  p1 = p1  x1 = x1  x2 = x2  o1 = o1  o2 = o2  s1 = s1
  w1 = w1  w2 = w2  d1 = d1  d2 = d2  alice = alice  bob = bob
  Tasks = {t1}  Templates = {}  Exports = {x1, x2}  Operations = {o1, o2}
  Parent <- MCParent
  Owner <- MCOneOwner
  Workers = {w1}  Dispatchers = {d1}  Sessions = {}
  Redis = TRUE  Faults = {}
  MaxRevision = 1  MaxAttempts = 1
  MaxRunning = 1  UserRunning = 1  MaxWaiting = 1  UserWaiting = 1
SYMMETRY Symmetry
INVARIANTS AdmissionLimit
