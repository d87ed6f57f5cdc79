--------------------------- MODULE ExecutionsLimits ---------------------------
(***************************************************************************)
(* The limits of Executions hold for all constants: what counts as running *)
(* and what is admitted.  An open object is counted through exactly one    *)
(* row (NoOrphan), so a set that is counted grows only in the transaction  *)
(* that checked its limit.                                                 *)
(***************************************************************************)
EXTENDS ExecutionsSafety

LEMMA Finite ==
  /\ IsFiniteSet(Exec) /\ IsFiniteSet(Sessions)
  /\ \A E \in SUBSET Exec : IsFiniteSet(E) /\ Cardinality(E) \in Nat
  /\ \A S \in SUBSET Sessions : IsFiniteSet(S) /\ Cardinality(S) \in Nat
<1>1. IsFiniteSet(0..MaxRevision)
  BY FS_Interval, LimitsAssumption
<1>2. IsFiniteSet(Exec)
  BY <1>1, FS_Product, FiniteAssumption DEF Exec
<1> QED
  BY <1>2, FiniteAssumption, FS_Subset, FS_CardinalityType

(* One more element, or none, in a counted set.                            *)
LEMMA Grows ==
  ASSUME NEW E \in SUBSET Exec, NEW F \in SUBSET Exec, NEW x \in Exec, F \subseteq E \cup {x}
  PROVE  Cardinality(F) <= Cardinality(E) + 1
<1>1. IsFiniteSet(E) /\ Cardinality(E) \in Nat /\ IsFiniteSet(F) /\ Cardinality(F) \in Nat
  BY Finite
<1>2. IsFiniteSet(E \cup {x}) /\ Cardinality(E \cup {x}) <= Cardinality(E) + 1
  <2>1. /\ IsFiniteSet(E \cup {x})
        /\ Cardinality(E \cup {x}) = IF x \in E THEN Cardinality(E) ELSE Cardinality(E) + 1
    BY <1>1, FS_AddElement, Zenon
  <2> QED
    BY <1>1, <2>1
<1>3. IsFiniteSet(E \cup {x}) /\ Cardinality(F) <= Cardinality(E \cup {x})
  BY <1>2, FS_Subset
<1>4. Cardinality(E \cup {x}) \in Nat
  BY <1>2, FS_CardinalityType
<1> QED
  BY <1>1, <1>2, <1>3, <1>4

LEMMA Shrinks ==
  /\ \A E, F \in SUBSET Exec : F \subseteq E => Cardinality(F) <= Cardinality(E)
  /\ \A S, T \in SUBSET Sessions : T \subseteq S => Cardinality(T) <= Cardinality(S)
<1>1. ASSUME NEW E \in SUBSET Exec, NEW F \in SUBSET E PROVE Cardinality(F) <= Cardinality(E)
  BY Finite, FS_Subset
<1>2. ASSUME NEW S \in SUBSET Sessions, NEW T \in SUBSET S PROVE Cardinality(T) <= Cardinality(S)
  BY Finite, FS_Subset
<1> QED
  BY <1>1, <1>2

-----------------------------------------------------------------------------
(* What runs. *)

Runs(e) == Counted(e) /\ estat[e] = "running" /\ Live(e)
NothingStarts == \A e \in Exec : Runs(e)' => Runs(e)

LEMMA UserStartsNothing ==
  ASSUME SafeInv, NEW o \in Objects, UserStep(o) \/ \E except : Insert(o, except)
  PROVE  NothingStarts
<1> USE DEF SafeInv, TypeInv, TypeOK
<1>0. 0 \in 0..MaxRevision /\ \A x \in Objects : rev[x] \in 0..MaxRevision
  BY LimitsAssumption
<1>1. CASE \E except : Insert(o, except)
  <2>1. PICK except : Insert(o, except)
    BY <1>1
  <2>2. /\ rev' = [rev EXCEPT ![o] = 0] /\ \A r \in 0..MaxRevision : estat[<<o, r>>] = "none"
        /\ ScheduleRow(<<o, 0>>, "run")
    BY <2>1, <1>0 DEF Insert, Fresh, Schedule, ScheduleRow
  <2>3. \A e \in Exec : e[1] = o => estat[e] = "none"
    BY <2>2, Ids
  <2>4. \A e \in Exec : e[1] # o => rev'[e[1]] = rev[e[1]] /\ ostat'[e[1]] = ostat[e[1]]
    BY <2>1, Ids DEF Insert
  <2> QED
    BY <2>2, <2>3, <2>4, <1>0, Ids DEF NothingStarts, Runs, Counted, Open, ScheduleRow, Live
<1>2. CASE CreateTemplate(o)
  <2>1. \A e \in Exec : e[1] = o => estat[e] = "none"
    BY <1>2, Ids DEF CreateTemplate, RowsMatchObjects
  <2>2. \A e \in Exec : e[1] # o => rev'[e[1]] = rev[e[1]] /\ ostat'[e[1]] = ostat[e[1]]
    BY <1>2, Ids DEF CreateTemplate
  <2> QED
    BY <1>2, <2>1, <2>2 DEF CreateTemplate, NothingStarts, Runs, Counted, Open, Live, execVars, leaseVars
<1>3. ASSUME NEW to, NEW operation, Revise(o, Existing, to),
             UNCHANGED execVars \/ ScheduleRow(<<o, rev[o] + 1>>, operation)
      PROVE  NothingStarts
  <2>1. \A e \in Exec : e[1] = o /\ estat[e] # "none" => e[2] # rev'[o]
    BY <1>3, <1>0, Ids, LimitsAssumption DEF Revise, RowsMatchObjects
  <2>2. \A e \in Exec : e[1] # o => rev'[e[1]] = rev[e[1]] /\ ostat'[e[1]] = ostat[e[1]]
    BY <1>3, Ids DEF Revise
  <2>3. \A e \in Exec : estat'[e] = "running" => estat[e] = "running"
    BY <1>3 DEF ScheduleRow, execVars, leaseVars
  <2>4. lease' = lease
    BY <1>3 DEF ScheduleRow, execVars, leaseVars
  <2> QED
    BY <2>1, <2>2, <2>3, <2>4 DEF NothingStarts, Runs, Counted, Open, Live
<1>4. CASE \E to \in {"cancelled", "ready", "draft", "published"} : ReviseIdle(o, Existing, to)
  BY <1>3, <1>4 DEF ReviseIdle
<1>5. CASE ReviseOpen(o, Existing, "processing", "run") \/ ReviseOpen(o, Existing, "learning", "learn")
  <2>1. rev[o] + 1 \in 0..MaxRevision
    BY <1>5, <1>0, LimitsAssumption DEF ReviseOpen, Revise
  <2> QED
    BY <2>1, <1>3, <1>5, Scheduled DEF ReviseOpen
<1>6. CASE DeleteTask(o)
  BY <1>6, Ids DEF DeleteTask, NothingStarts, Runs, Counted, Open, Live, Missing
<1>7. CASE DeleteTemplate(o)
  BY <1>7, Ids DEF DeleteTemplate, NothingStarts, Runs, Counted, Open, Live, execVars, leaseVars
<1> QED
  BY <1>1, <1>2, <1>4, <1>5, <1>6, <1>7 DEF UserStep

LEMMA ClaimStarts ==   \* a claim that runs its row had a slot for it
  ASSUME SafeInv, NEW w \in Workers, ClaimTake(w)
  PROVE  \E e \in Exec : /\ RunningCounted' \subseteq RunningCounted \cup {e}
                         /\ e \in RunningCounted' => CanRun(e[1])
<1> USE DEF SafeInv, TypeInv, TypeOK
<1>0. PICK e \in Exec : e = At(w) /\ Thing(w) = e[1]
  BY Ids DEF ClaimTake, At, Thing
<1>1. UNCHANGED <<rev, ostat>> /\ \A x \in Exec : x # e => UNCHANGED <<estat[x], lease[x]>>
  BY <1>0 DEF ClaimTake, objVars
<1>2. ASSUME NEW x \in RunningCounted', x # e PROVE x \in RunningCounted
  BY <1>0, <1>1, <1>2 DEF RunningCounted, Counted, Open, Live
<1>3. ASSUME e \in RunningCounted' PROVE CanRun(e[1])
  <2>1. Current(e)
    BY <1>0, <1>3 DEF ClaimTake, RunningCounted
  <2>2. ~Missing(Thing(w))
    BY <1>0, <2>1 DEF Current, Expected, Missing
  <2> QED
    BY <1>0, <2>2 DEF ClaimTake
<1> QED
  BY <1>0, <1>2, <1>3

(* No step but a claim starts a row: what is reported late, recovered,     *)
(* deferred, beaten or dispatched was running before or does not run now.  *)
LEMMA OthersStartNothing ==
  ASSUME SafeInv, [Next]_vars, \A w \in Workers : ~ClaimTake(w)
  PROVE  NothingStarts
<1> USE DEF SafeInv, TypeInv, TypeOK
<1>0. \A w \in Workers : wpc[w] # "idle" => At(w) \in Exec /\ Thing(w) \in Objects
  BY Ids DEF At, Thing
<1>1. ASSUME UNCHANGED <<rev, estat>>, \A o \in Objects : Open(o)' => Open(o),
             \A e \in Exec : Live(e)' => Live(e) \/ estat[e] # "running"
      PROVE  NothingStarts
  BY <1>1, Ids DEF NothingStarts, Runs, Counted
<1>2. ASSUME UNCHANGED rev, \A o \in Objects : Open(o)' => Open(o),
             \A e \in Exec : estat'[e] # estat[e] => estat'[e] # "running",
             \A e \in Exec : lease'[e] # lease[e] => estat'[e] # "running"
      PROVE  NothingStarts
  BY <1>2, Ids DEF NothingStarts, Runs, Counted, Live
<1>3. \A E : FailObjects(E) => \A o \in Objects : Open(o)' => Open(o)
  BY DEF FailObjects, Open
<1>4. ASSUME NEW o \in Objects, User(o) PROVE NothingStarts
  BY <1>4, UserSteps, UserStartsNothing
<1>5. ASSUME NEW w \in Workers, DeferWrite(w) PROVE NothingStarts
  BY <1>5, <1>0, <1>2 DEF DeferWrite, objVars, Open
<1>6. ASSUME NEW w \in Workers, Finish(w) PROVE NothingStarts
  <2>1. \A o \in Objects : Open(o)' => Open(o)
    BY <1>6, <1>3 DEF Finish, Open
  <2>2. /\ UNCHANGED rev
        /\ \A e \in Exec : estat'[e] # estat[e] => estat'[e] # "running"
        /\ \A e \in Exec : lease'[e] # lease[e] => estat'[e] # "running"
    BY <1>6, <1>0 DEF Finish
  <2> QED
    BY <1>2, <2>1, <2>2
<1>7. ASSUME NEW w \in Workers, BodyPublish(w) PROVE NothingStarts
  <2>1. \A o \in Objects : Open(o)' => Open(o)
    BY <1>7, <1>0 DEF BodyPublish, Open, Result
  <2> QED
    BY <1>1, <1>7, <2>1 DEF BodyPublish, execVars, leaseVars, Live
<1>8. ASSUME NEW w \in Workers, Heartbeat(w) PROVE NothingStarts
  BY <1>8, <1>0, <1>1 DEF Heartbeat, Holds, Fenced, Live, objVars, Open
<1>9. ASSUME NEW w \in Workers, NEW x \in Exports, HandOff(w, x) PROVE NothingStarts
  BY <1>9, UserStartsNothing DEF HandOff, Objects, Children
<1>10. ASSUME NEW d \in Dispatchers, Recover(d) PROVE NothingStarts
  <2>1. /\ UNCHANGED rev
        /\ \A e \in Exec : estat'[e] # estat[e] => estat'[e] # "running"
        /\ \A e \in Exec : lease'[e] # lease[e] => estat'[e] # "running"
    BY <1>10 DEF Recover, Lapsed
  <2>2. \A o \in Objects : Open(o)' => Open(o)
    BY <1>3, <1>10 DEF Recover
  <2> QED
    BY <1>2, <2>1, <2>2
<1>11. ASSUME NEW d \in Dispatchers, Renew(d) \/ Reserve(d) PROVE NothingStarts
  <2>1. /\ UNCHANGED <<rev, ostat>>
        /\ \A e \in Exec : estat'[e] # estat[e] => estat'[e] # "running"
        /\ \A e \in Exec : lease'[e] # lease[e] => estat'[e] # "running"
    BY <1>11, Ids DEF Renew, Reserve, Unchanged, objVars
  <2> QED
    BY <1>2, <2>1 DEF Open
<1>12. ASSUME UNCHANGED <<objVars, estat, lease>> PROVE NothingStarts
  BY <1>1, <1>12 DEF objVars, Open, Live
<1>13. ASSUME NEW e \in Exec, Elapse(e) PROVE NothingStarts
  BY <1>13, <1>1 DEF Elapse, objVars, Open, Live
<1>14. CASE Next
  <2>1. ASSUME NEW w \in Workers,
               (\E j \in queued : Deliver(w, j)) \/ Claim(w) \/ Body(w) \/ Heartbeat(w)
               \/ Finish(w) \/ Crash(w) \/ (\E x \in Exports : HandOff(w, x))
        PROVE  NothingStarts
    BY <2>1, <1>5, <1>6, <1>7, <1>8, <1>9, <1>12 DEF Claim, Body, Deliver, ClaimDefer, ClaimNothing,
       BodyRead, BodyError, Crash, execVars, leaseVars
  <2>2. ASSUME NEW d \in Dispatchers, DispatchStep(d) \/ DispatcherCrash(d) PROVE NothingStarts
    BY <2>2, <1>10, <1>11, <1>12 DEF DispatchStep, DispatcherCrash, Scan, Check, Enqueue, BrokerDown,
       execVars, leaseVars
  <2>3. ASSUME \/ \E e \in Exec : FallDue(e)
               \/ \E j \in queued \cup started : LoseJob(j) \/ JobGoesStale(j)
               \/ \E s \in Sessions : Acquire(s) \/ Lapse(s) \/ Close(s)
        PROVE  NothingStarts
    BY <2>3, <1>12 DEF FallDue, LoseJob, JobGoesStale, Acquire, Lapse, Close, execVars, leaseVars
  <2> QED
    BY <1>4, <1>13, <1>14, <2>1, <2>2, <2>3 DEF Next
<1> QED
  BY <1>12, <1>14 DEF vars, execVars, leaseVars

LEMMA HeldSteps ==   \* a session's lease is the only thing an Acquire adds
  ASSUME SafeInv, [Next]_vars
  PROVE  \/ Held' \subseteq Held
         \/ /\ \E s \in Sessions : Acquire(s)
            /\ Cardinality(Held') <= Cardinality(Held) + 1
            /\ Cardinality(Held) + Cardinality(RunningCounted) < MaxRunning
<1> USE DEF SafeInv, TypeInv, TypeOK
<1>1. ASSUME NEW s \in Sessions, Acquire(s)
      PROVE  /\ Cardinality(Held') <= Cardinality(Held) + 1
             /\ Cardinality(Held) + Cardinality(RunningCounted) < MaxRunning
  <2>1. Held' \subseteq Held \cup {s} /\ Held \subseteq Sessions /\ Held' \subseteq Sessions
    BY <1>1 DEF Acquire, Held
  <2>2. IsFiniteSet(Held) /\ Cardinality(Held) \in Nat /\ Cardinality(Held') \in Nat
    BY <2>1, Finite
  <2>3. /\ IsFiniteSet(Held \cup {s})
        /\ Cardinality(Held \cup {s}) = IF s \in Held THEN Cardinality(Held) ELSE Cardinality(Held) + 1
    BY <2>2, FS_AddElement, Zenon
  <2>4. Cardinality(Held') <= Cardinality(Held \cup {s})
    BY <2>1, <2>3, FS_Subset
  <2> QED
    BY <1>1, <2>2, <2>3, <2>4 DEF Acquire
<1>2. ASSUME NEW s \in Sessions, Lapse(s) \/ Close(s) PROVE Held' \subseteq Held
  BY <1>2 DEF Lapse, Close, Held
<1>3. CASE sess' = sess
  BY <1>3 DEF Held
<1>4. CASE Next
  <2>1. ASSUME NEW o \in Objects, User(o) PROVE sess' = sess
    BY <2>1, UserSteps DEF UserStep, Insert, CreateTemplate, ReviseIdle, ReviseOpen, Revise, DeleteTask,
       DeleteTemplate
  <2>2. ASSUME NEW w \in Workers,
               (\E j \in queued : Deliver(w, j)) \/ Claim(w) \/ Body(w) \/ Heartbeat(w)
               \/ Finish(w) \/ Crash(w) \/ (\E x \in Exports : HandOff(w, x))
        PROVE  sess' = sess
    BY <2>2 DEF Deliver, Claim, ClaimDefer, DeferWrite, ClaimTake, ClaimNothing, Body, BodyRead, BodyPublish,
       BodyError, Heartbeat, Finish, Crash, HandOff, Insert
  <2>3. ASSUME NEW d \in Dispatchers, DispatchStep(d) \/ DispatcherCrash(d) PROVE sess' = sess
    BY <2>3 DEF DispatchStep, DispatcherCrash, Recover, Scan, Check, Renew, Reserve, Enqueue, BrokerDown
  <2>4. ASSUME \/ \E e \in Exec : Elapse(e) \/ FallDue(e)
               \/ \E j \in queued \cup started : LoseJob(j) \/ JobGoesStale(j)
        PROVE  sess' = sess
    BY <2>4 DEF Elapse, FallDue, LoseJob, JobGoesStale
  <2> QED
    BY <1>1, <1>2, <1>3, <1>4, <2>1, <2>2, <2>3, <2>4 DEF Next
<1> QED
  BY <1>3, <1>4 DEF vars

LEMMA RunningSets ==
  /\ RunningCounted = {e \in Exec : Runs(e)} /\ RunningCounted' = {e \in Exec : Runs(e)'}
  /\ RunningCounted \in SUBSET Exec /\ RunningCounted' \in SUBSET Exec
  /\ \A u, E : OwnedBy(u, E) \subseteq E
BY DEF RunningCounted, Runs, OwnedBy

LEMMA StepRunning == SafeInv /\ RunningLimit /\ [Next]_vars => RunningLimit'
<1> SUFFICES ASSUME SafeInv, RunningLimit, [Next]_vars PROVE RunningLimit'
  OBVIOUS
<1>0. /\ Held \in SUBSET Sessions /\ Held' \in SUBSET Sessions
      /\ Cardinality(RunningCounted) \in Nat /\ Cardinality(RunningCounted') \in Nat
      /\ Cardinality(Held) \in Nat /\ Cardinality(Held') \in Nat
      /\ \A u : \A E \in SUBSET Exec : OwnedBy(u, E) \in SUBSET Exec /\ Cardinality(OwnedBy(u, E)) \in Nat
      /\ MaxRunning \in Nat /\ UserRunning \in Nat
  <2>1. Held \in SUBSET Sessions /\ Held' \in SUBSET Sessions
    BY DEF Held
  <2> QED
    BY <2>1, RunningSets, Finite, LimitsAssumption
<1>1. ASSUME NEW e \in Exec, RunningCounted' \subseteq RunningCounted \cup {e}, CanRun(e[1]),
             Held' \subseteq Held
      PROVE  RunningLimit'
  <2>1. Cardinality(RunningCounted') <= Cardinality(RunningCounted) + 1
    BY <1>1, RunningSets, Grows
  <2>2. Cardinality(Held') <= Cardinality(Held)
    BY <1>0, <1>1, Shrinks
  <2>3. ASSUME NEW o \in Objects
        PROVE  Cardinality(OwnedBy(Owner[o], RunningCounted')) <= UserRunning
    <3>1. CASE Owner[e[1]] = Owner[o]
      <4>1. OwnedBy(Owner[o], RunningCounted') \subseteq OwnedBy(Owner[o], RunningCounted) \cup {e}
        BY <1>1 DEF OwnedBy
      <4>2. Cardinality(OwnedBy(Owner[o], RunningCounted')) <= Cardinality(OwnedBy(Owner[o], RunningCounted)) + 1
        BY <4>1, <1>0, RunningSets, Grows
      <4> QED
        BY <3>1, <4>2, <1>0, <1>1, RunningSets DEF CanRun
    <3>2. CASE Owner[e[1]] # Owner[o]
      <4>1. OwnedBy(Owner[o], RunningCounted') \subseteq OwnedBy(Owner[o], RunningCounted)
        BY <1>1, <3>2 DEF OwnedBy
      <4>2. Cardinality(OwnedBy(Owner[o], RunningCounted')) <= Cardinality(OwnedBy(Owner[o], RunningCounted))
        BY <4>1, <1>0, RunningSets, Shrinks
      <4>3. /\ Cardinality(OwnedBy(Owner[o], RunningCounted)) \in Nat
            /\ Cardinality(OwnedBy(Owner[o], RunningCounted')) \in Nat
        BY <1>0, RunningSets
      <4>4. Cardinality(OwnedBy(Owner[o], RunningCounted)) <= UserRunning
        BY DEF RunningLimit
      <4> QED
        BY <4>2, <4>3, <4>4, <1>0
    <3> QED
      BY <3>1, <3>2
  <2> QED
    BY <2>1, <2>2, <2>3, <1>0, <1>1 DEF CanRun, RunningLimit
<1>2. ASSUME RunningCounted' \subseteq RunningCounted,
             \/ Held' \subseteq Held
             \/ /\ Cardinality(Held') <= Cardinality(Held) + 1
                /\ Cardinality(Held) + Cardinality(RunningCounted) < MaxRunning
      PROVE  RunningLimit'
  <2>1. Cardinality(RunningCounted') <= Cardinality(RunningCounted)
    BY <1>2, RunningSets, Shrinks
  <2>2. Held' \subseteq Held => Cardinality(Held') <= Cardinality(Held)
    BY <1>0, Shrinks
  <2>3. ASSUME NEW o \in Objects
        PROVE  Cardinality(OwnedBy(Owner[o], RunningCounted')) <= UserRunning
    <3>1. OwnedBy(Owner[o], RunningCounted') \subseteq OwnedBy(Owner[o], RunningCounted)
      BY <1>2 DEF OwnedBy
    <3>2. Cardinality(OwnedBy(Owner[o], RunningCounted')) <= Cardinality(OwnedBy(Owner[o], RunningCounted))
      BY <3>1, <1>0, RunningSets, Shrinks
    <3> QED
      BY <3>2, <1>0, RunningSets DEF RunningLimit
  <2> QED
    BY <2>1, <2>2, <2>3, <1>0, <1>2 DEF RunningLimit
<1>3. ASSUME NEW w \in Workers, ClaimTake(w) PROVE RunningLimit'
  <2>1. Held' \subseteq Held
    BY <1>3 DEF ClaimTake, Held
  <2>2. ASSUME NEW e \in Exec, RunningCounted' \subseteq RunningCounted \cup {e},
               e \in RunningCounted' => CanRun(e[1])
        PROVE  RunningLimit'
    <3>1. CASE CanRun(e[1])
      BY <1>1, <2>1, <2>2, <3>1
    <3>2. CASE ~CanRun(e[1])
      <4>1. RunningCounted' \subseteq RunningCounted
        BY <2>2, <3>2
      <4> QED
        BY <1>2, <2>1, <4>1
    <3> QED
      BY <3>1, <3>2
  <2> QED
    BY <1>3, <2>2, ClaimStarts
<1>4. CASE \A w \in Workers : ~ClaimTake(w)
  BY <1>2, <1>4, OthersStartNothing, HeldSteps, RunningSets DEF NothingStarts
<1> QED
  BY <1>3, <1>4

(* The executions that count as running and the interactive leases never   *)
(* exceed the number of slots together, nor one account's its own, with    *)
(* any number of workers claiming and sessions starting at once.           *)
THEOREM Running == Spec => []RunningLimit
<1>1. Init => RunningLimit
  <2> SUFFICES ASSUME Init PROVE RunningLimit
    OBVIOUS
  <2>1. RunningCounted = {} /\ Held = {} /\ \A u : OwnedBy(u, {}) = {}
    BY DEF Init, RunningCounted, Held, OwnedBy
  <2> QED
    BY <2>1, FS_EmptySet, LimitsAssumption DEF RunningLimit
<1> QED
  BY <1>1, InitSafe, StepSafe, StepRunning, PTL DEF Spec

-----------------------------------------------------------------------------
(* What is admitted. *)

Slack == IF Operations = {} THEN 0 ELSE 1

LEMMA AdmittedSets ==
  /\ UnfinishedCounted \in SUBSET Exec /\ UnfinishedCounted' \in SUBSET Exec
  /\ Slack \in 0..1
  /\ MaxWaiting + MaxRunning \in Nat /\ UserWaiting + UserRunning \in Nat
  /\ \A E \in SUBSET Exec : \A u : OwnedBy(u, E) \in SUBSET E /\ Cardinality(OwnedBy(u, E)) \in Nat
<1>1. \A E \in SUBSET Exec : \A u : OwnedBy(u, E) \in SUBSET E /\ OwnedBy(u, E) \in SUBSET Exec
  BY DEF OwnedBy
<1> QED
  BY <1>1, Finite, LimitsAssumption DEF UnfinishedCounted, Slack

(* A transaction that admits o after counting the others: one row more,    *)
(* and the row that was left out of the count.                             *)
LEMMA AdmitsWithin ==
  ASSUME AdmissionLimit, NEW o \in Objects, NEW except, NEW x \in Exec, NEW y \in Exec,
         x[1] = o, Admits(o, except),
         UnfinishedCounted' \subseteq {e \in UnfinishedCounted : e[1] # o} \cup {x},
         except = {} \/ (except = {y} /\ Operations # {})
  PROVE  AdmissionLimit'
<1> DEFINE others == {e \in UnfinishedCounted : e[1] # o} \ except
<1>0. /\ others \in SUBSET Exec /\ UnfinishedCounted' \subseteq (others \cup {x}) \cup except
      /\ others \subseteq UnfinishedCounted
      /\ Cardinality(others) < MaxWaiting + MaxRunning
      /\ Cardinality(OwnedBy(Owner[o], others)) < UserWaiting + UserRunning
  BY AdmittedSets DEF Admits
<1> HIDE DEF others
(* Any part F of what is counted now, against the part E of the others.    *)
<1>1. ASSUME NEW E \in SUBSET Exec, NEW F \in SUBSET Exec, NEW limit \in Nat,
             F \subseteq (E \cup {x}) \cup except, Cardinality(E) < limit
      PROVE  Cardinality(F) <= limit + Slack
  <2>1. Cardinality(E) \in Nat /\ Cardinality(F) \in Nat
    BY Finite
  <2>2. CASE except = {}
    BY <1>1, <2>1, <2>2, Grows, AdmittedSets
  <2>3. CASE except = {y} /\ Operations # {}
    <3>1. /\ E \cup {x} \in SUBSET Exec /\ Cardinality(E \cup {x}) \in Nat
          /\ Cardinality(E \cup {x}) <= Cardinality(E) + 1
      BY Finite, Grows
    <3>2. Cardinality(F) <= Cardinality(E \cup {x}) + 1
      BY <1>1, <2>3, <3>1, Grows
    <3> QED
      BY <1>1, <2>1, <2>3, <3>1, <3>2 DEF Slack
  <2> QED
    BY <2>2, <2>3
<1>2. Cardinality(UnfinishedCounted') <= MaxWaiting + MaxRunning + Slack
  BY <1>0, <1>1, AdmittedSets
<1>3. ASSUME NEW p \in Objects
      PROVE  Cardinality(OwnedBy(Owner[p], UnfinishedCounted')) <= UserWaiting + UserRunning + Slack
  <2>0. /\ OwnedBy(Owner[p], others) \in SUBSET Exec
        /\ OwnedBy(Owner[p], UnfinishedCounted') \in SUBSET Exec
        /\ OwnedBy(Owner[p], UnfinishedCounted) \in SUBSET Exec
    BY <1>0, AdmittedSets
  <2>1. CASE Owner[p] = Owner[o]
    <3>1. OwnedBy(Owner[p], UnfinishedCounted') \subseteq (OwnedBy(Owner[p], others) \cup {x}) \cup except
      BY <1>0 DEF OwnedBy
    <3> QED
      BY <1>0, <1>1, <2>0, <2>1, <3>1, AdmittedSets
  <2>2. CASE Owner[p] # Owner[o]
    <3>1. OwnedBy(Owner[p], UnfinishedCounted') \subseteq OwnedBy(Owner[p], UnfinishedCounted)
      BY <2>2 DEF OwnedBy
    <3>2. Cardinality(OwnedBy(Owner[p], UnfinishedCounted)) <= UserWaiting + UserRunning + Slack
      BY DEF AdmissionLimit, Slack
    <3>3. Cardinality(OwnedBy(Owner[p], UnfinishedCounted'))
            <= Cardinality(OwnedBy(Owner[p], UnfinishedCounted))
      BY <2>0, <3>1, Shrinks
    <3>4. /\ Cardinality(OwnedBy(Owner[p], UnfinishedCounted)) \in Nat
          /\ Cardinality(OwnedBy(Owner[p], UnfinishedCounted')) \in Nat
      BY <2>0, Finite
    <3> QED
      BY <3>2, <3>3, <3>4, AdmittedSets
  <2> QED
    BY <2>1, <2>2
<1> QED
  BY <1>2, <1>3 DEF AdmissionLimit, Slack

LEMMA NothingAdmitted ==
  ASSUME AdmissionLimit, UnfinishedCounted' \subseteq UnfinishedCounted
  PROVE  AdmissionLimit'
<1>1. Cardinality(UnfinishedCounted') <= Cardinality(UnfinishedCounted)
  BY AdmittedSets, Shrinks
<1>2. ASSUME NEW p \in Objects
      PROVE  Cardinality(OwnedBy(Owner[p], UnfinishedCounted'))
               <= Cardinality(OwnedBy(Owner[p], UnfinishedCounted))
  <2>1. OwnedBy(Owner[p], UnfinishedCounted') \subseteq OwnedBy(Owner[p], UnfinishedCounted)
    BY DEF OwnedBy
  <2> QED
    BY <2>1, AdmittedSets, Shrinks
<1>3. /\ Cardinality(UnfinishedCounted) \in Nat /\ Cardinality(UnfinishedCounted') \in Nat
      /\ \A p \in Objects : /\ Cardinality(OwnedBy(Owner[p], UnfinishedCounted)) \in Nat
                            /\ Cardinality(OwnedBy(Owner[p], UnfinishedCounted')) \in Nat
  BY AdmittedSets, Finite
<1>4. /\ Cardinality(UnfinishedCounted) <= MaxWaiting + MaxRunning + Slack
      /\ \A p \in Objects :
           Cardinality(OwnedBy(Owner[p], UnfinishedCounted)) <= UserWaiting + UserRunning + Slack
  BY DEF AdmissionLimit, Slack
<1>5. /\ Cardinality(UnfinishedCounted') <= MaxWaiting + MaxRunning + Slack
      /\ \A p \in Objects :
           Cardinality(OwnedBy(Owner[p], UnfinishedCounted')) <= UserWaiting + UserRunning + Slack
  BY <1>1, <1>2, <1>3, <1>4, AdmittedSets
<1> QED
  BY <1>5 DEF AdmissionLimit, Slack

(* No step of the system adds to the count: an open object has one row, as *)
(* NoOrphan says, and it was counted already.                              *)
LEMMA SystemAdmitsNothing ==
  ASSUME SafeInv, rev' = rev, \A o \in Objects : Open(o)' => Open(o)
  PROVE  UnfinishedCounted' \subseteq UnfinishedCounted
<1> SUFFICES ASSUME NEW e \in Exec, Counted(e)' PROVE e \in UnfinishedCounted
  BY DEF UnfinishedCounted
<1>1. e[1] \in Objects /\ e = <<e[1], rev[e[1]]>> /\ Open(e[1])
  BY Ids DEF Counted
<1> QED
  BY <1>1 DEF UnfinishedCounted, Counted, SafeInv, NoOrphan

LEMMA UserAdmits ==
  ASSUME SafeInv, AdmissionLimit, NEW o \in Objects, UserStep(o)
  PROVE  AdmissionLimit'
<1> USE DEF SafeInv, TypeInv, TypeOK
<1>0. 0 \in 0..MaxRevision /\ \A e \in Exec : e[1] \in Objects /\ e = <<e[1], e[2]>>
  BY Ids, LimitsAssumption
<1>1. ASSUME NEW r \in 0..MaxRevision, NEW operation, NEW to, rev' = [rev EXCEPT ![o] = r],
             ostat' = [ostat EXCEPT ![o] = to], Schedule(o, r, operation, {}),
             estat[<<o, r>>] = "none"
      PROVE  AdmissionLimit'
  <2>1. Admits(o, {}) /\ ScheduleRow(<<o, r>>, operation) /\ <<o, r>> \in Exec
    BY <1>1, Ids DEF Schedule, ScheduleRow
  <2>2. UnfinishedCounted' \subseteq {e \in UnfinishedCounted : e[1] # o} \cup {<<o, r>>}
    <3> SUFFICES ASSUME NEW e \in UnfinishedCounted', e # <<o, r>>
                 PROVE  e \in UnfinishedCounted /\ e[1] # o
      OBVIOUS
    <3>1. e \in Exec /\ e[2] = rev'[e[1]] /\ Open(e[1])' /\ estat'[e] \in Unfinished
      BY DEF UnfinishedCounted, Counted
    <3>2. e[1] # o
      BY <1>0, <1>1, <3>1
    <3> QED
      BY <1>0, <1>1, <2>1, <3>1, <3>2 DEF UnfinishedCounted, Counted, Open, ScheduleRow
  <2> QED
    BY <2>1, <2>2, AdmitsWithin
<1>2. CASE Insert(o, {})
  BY <1>0, <1>1, <1>2 DEF Insert, Fresh
<1>3. CASE ReviseOpen(o, Existing, "processing", "run") \/ ReviseOpen(o, Existing, "learning", "learn")
  <2>1. rev[o] + 1 \in 0..MaxRevision /\ <<o, rev[o] + 1>> \in Exec
    BY <1>3, Ids, LimitsAssumption DEF ReviseOpen, Revise
  <2>2. estat[<<o, rev[o] + 1>>] = "none"
    BY <2>1, LimitsAssumption DEF RowsMatchObjects
  <2> QED
    BY <1>1, <1>3, <2>1, <2>2 DEF ReviseOpen, Revise
<1>4. CASE \/ CreateTemplate(o) \/ DeleteTemplate(o) \/ DeleteTask(o)
           \/ \E to \in {"cancelled", "ready", "draft", "published"} : ReviseIdle(o, Existing, to)
  <2>1. \A e \in Exec : estat'[e] \in Unfinished => estat[e] \in Unfinished
    BY <1>4 DEF CreateTemplate, DeleteTemplate, DeleteTask, ReviseIdle, execVars, leaseVars, Unfinished, Waiting
  <2>2. \A x \in Objects : Open(x)' => Open(x) /\ rev'[x] = rev[x]
    BY <1>4 DEF CreateTemplate, DeleteTemplate, DeleteTask, ReviseIdle, Revise, Open, Missing
  <2>3. UnfinishedCounted' \subseteq UnfinishedCounted
    BY <1>0, <2>1, <2>2 DEF UnfinishedCounted, Counted
  <2> QED
    BY <2>3, NothingAdmitted
<1> QED
  BY <1>2, <1>3, <1>4 DEF UserStep

LEMMA HandOffAdmits ==
  ASSUME SafeInv, AdmissionLimit, NEW w \in Workers, NEW x \in Exports, HandOff(w, x)
  PROVE  AdmissionLimit'
<1> USE DEF SafeInv, TypeInv, TypeOK
<1>1. /\ At(w) \in Exec /\ Operations # {} /\ x \in Objects /\ <<x, 0>> \in Exec
      /\ \A e \in Exec : e[1] \in Objects /\ e = <<e[1], e[2]>>
  BY Ids, LimitsAssumption DEF HandOff, At, Objects, Children
<1>2. /\ Admits(x, {At(w)}) /\ ScheduleRow(<<x, 0>>, "run")
      /\ rev' = [rev EXCEPT ![x] = 0] /\ ostat' = [ostat EXCEPT ![x] = "processing"]
  BY <1>1, LimitsAssumption DEF HandOff, Insert, Fresh, Schedule, ScheduleRow
<1>3. UnfinishedCounted' \subseteq {e \in UnfinishedCounted : e[1] # x} \cup {<<x, 0>>}
  <2> SUFFICES ASSUME NEW e \in UnfinishedCounted', e # <<x, 0>>
               PROVE  e \in UnfinishedCounted /\ e[1] # x
    OBVIOUS
  <2>1. e \in Exec /\ e[2] = rev'[e[1]] /\ Open(e[1])' /\ estat'[e] \in Unfinished
    BY DEF UnfinishedCounted, Counted
  <2>2. e[1] # x
    BY <1>1, <1>2, <2>1
  <2> QED
    BY <1>1, <1>2, <2>1, <2>2 DEF UnfinishedCounted, Counted, Open, ScheduleRow
<1> QED
  BY <1>1, <1>2, <1>3, AdmitsWithin

LEMMA StepAdmission == SafeInv /\ AdmissionLimit /\ [Next]_vars => AdmissionLimit'
<1> SUFFICES ASSUME SafeInv, AdmissionLimit, [Next]_vars PROVE AdmissionLimit'
  OBVIOUS
<1>0. \A w \in Workers : wpc[w] # "idle" => At(w) \in Exec /\ Thing(w) \in Objects
  BY Ids DEF SafeInv, TypeInv, TypeOK, At, Thing
<1>1. ASSUME rev' = rev, \A o \in Objects : Open(o)' => Open(o) PROVE AdmissionLimit'
  BY <1>1, SystemAdmitsNothing, NothingAdmitted
<1>2. ASSUME rev' = rev, ostat' = ostat PROVE AdmissionLimit'
  BY <1>1, <1>2 DEF Open
<1>3. ASSUME NEW o \in Objects, User(o) PROVE AdmissionLimit'
  BY <1>3, UserSteps, UserAdmits
<1>4. ASSUME NEW w \in Workers, Finish(w) PROVE AdmissionLimit'
  <2>1. rev' = rev /\ \A o \in Objects : Open(o)' => Open(o)
    BY <1>4 DEF Finish, FailObjects, Open
  <2> QED
    BY <1>1, <2>1
<1>5. ASSUME NEW w \in Workers, BodyPublish(w) PROVE AdmissionLimit'
  <2>1. rev' = rev /\ \A o \in Objects : Open(o)' => Open(o)
    BY <1>5, <1>0 DEF BodyPublish, Open, Result, SafeInv, TypeInv, TypeOK
  <2> QED
    BY <1>1, <2>1
<1>6. ASSUME NEW d \in Dispatchers, Recover(d) PROVE AdmissionLimit'
  <2>1. rev' = rev /\ \A o \in Objects : Open(o)' => Open(o)
    BY <1>6 DEF Recover, FailObjects, Open
  <2> QED
    BY <1>1, <2>1
<1>7. CASE Next
  <2>1. ASSUME NEW w \in Workers,
               (\E j \in queued : Deliver(w, j)) \/ Claim(w) \/ Body(w) \/ Heartbeat(w)
               \/ Finish(w) \/ Crash(w) \/ (\E x \in Exports : HandOff(w, x))
        PROVE  AdmissionLimit'
    BY <2>1, <1>2, <1>4, <1>5, HandOffAdmits DEF Deliver, Claim, ClaimDefer, DeferWrite, ClaimTake,
       ClaimNothing, Body, BodyRead, BodyError, Heartbeat, Crash, objVars
  <2>2. ASSUME NEW d \in Dispatchers, DispatchStep(d) \/ DispatcherCrash(d) PROVE AdmissionLimit'
    BY <2>2, <1>2, <1>6 DEF DispatchStep, DispatcherCrash, Scan, Check, Renew, Reserve, Enqueue,
       BrokerDown, objVars
  <2>3. ASSUME \/ \E e \in Exec : Elapse(e) \/ FallDue(e)
               \/ \E j \in queued \cup started : LoseJob(j) \/ JobGoesStale(j)
               \/ \E s \in Sessions : Acquire(s) \/ Lapse(s) \/ Close(s)
        PROVE  AdmissionLimit'
    BY <2>3, <1>2 DEF Elapse, FallDue, LoseJob, JobGoesStale, Acquire, Lapse, Close, objVars
  <2> QED
    BY <1>3, <1>7, <2>1, <2>2, <2>3 DEF Next
<1> QED
  BY <1>2, <1>7 DEF vars, objVars

(* What waits or runs never exceeds the waiting and running slots together *)
(* by more than the one slot of an operation that handed its own on, for   *)
(* all accounts and for each.                                              *)
THEOREM Admission == Spec => []AdmissionLimit
<1>1. Init => AdmissionLimit
  <2> SUFFICES ASSUME Init PROVE AdmissionLimit
    OBVIOUS
  <2>1. UnfinishedCounted = {} /\ \A u : OwnedBy(u, {}) = {}
    BY Ids DEF Init, UnfinishedCounted, Counted, Open, OwnedBy
  <2> QED
    BY <2>1, FS_EmptySet, AdmittedSets DEF AdmissionLimit, Slack
<1> QED
  BY <1>1, InitSafe, StepSafe, StepAdmission, PTL DEF Spec
=============================================================================
