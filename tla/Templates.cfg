\* One template re-read and learned again while older executions run, without Redis, beside a synchronous request that takes its slot.
SPECIFICATION Spec
CONSTANTS
  t1 = t1  t2 = t2  p1 = p1  x1 = x1  x2 = x2  o1 = o1  o2 = o2  s1 = s1
  w1 = w1  w2 = w2  d1 = d1  d2 = d2  alice = alice  bob = bob
  Tasks = {}  Templates = {p1}  Exports = {}  Operations = {}
  Parent <- MCParent
  Owner <- MCTwoOwners
  Workers = {w1}  Dispatchers = {d1}  Sessions = {s1}
  Redis = FALSE  Faults = {"worker"}
  MaxRevision = 2  MaxAttempts = 1
  MaxRunning = 1  UserRunning = 1  MaxWaiting = 1  UserWaiting = 1
SYMMETRY WorkerSymmetry
INVARIANTS RunningLimit
