---------------------------- MODULE WorkerLeases ----------------------------
(***************************************************************************)
(* WorkerControl: the compare-and-set steps by which workers take, renew   *)
(* and end the lease of the row of one job, and the sweep that takes       *)
(* lapsed leases back.  Every step is one transaction, except that a sweep *)
(* reads the lapsed rows first and updates each of them later.  A worker   *)
(* is one run of run_job: it draws an id of its own, and starts once.      *)
(***************************************************************************)
EXTENDS Integers

CONSTANTS LeaseWorkers,   \* runs of the job, each with its own worker id
          Sweepers,       \* callers of requeue_expired
          LeaseSeconds,   \* lease_seconds
          LeaseAttempts,  \* max_attempts
          NoWorker

ASSUME WorkerLeasesAssumption ==
    /\ LeaseSeconds \in Nat \ {0} /\ LeaseAttempts \in Nat \ {0}
    /\ NoWorker \notin LeaseWorkers

VARIABLES
    lsStatus,    \* the row: its status,
    lsAttempt,   \* attempts,
    lsWorker,    \* worker
    lsExpires,   \* and expiry of the lease
    lsClock,     \* the time of the machines
    lsStarted,   \* worker -> the attempt it started, 0 for none
    lsSweep      \* sweeper -> the time and the attempt it read, if it has a row

lsVars == <<lsStatus, lsAttempt, lsWorker, lsExpires, lsClock, lsStarted, lsSweep>>

NoSweep == [at |-> -1, attempt |-> 0]

(* The row is w's and its lease has not lapsed. *)
Holds(w) == lsStatus = "running" /\ lsWorker = w /\ lsExpires > lsClock

-----------------------------------------------------------------------------
LeaseInit ==
    /\ lsStatus = "queued" /\ lsAttempt = 0
    /\ lsWorker = NoWorker /\ lsExpires = 0
    /\ lsClock = 0
    /\ lsStarted = [w \in LeaseWorkers |-> 0]
    /\ lsSweep = [s \in Sweepers |-> NoSweep]

(* WorkerControl.start *)
Start(w) ==
    /\ lsStarted[w] = 0 /\ lsStatus = "queued" /\ lsAttempt < LeaseAttempts
    /\ lsStatus' = "running" /\ lsAttempt' = lsAttempt + 1
    /\ lsWorker' = w /\ lsExpires' = lsClock + LeaseSeconds
    /\ lsStarted' = [lsStarted EXCEPT ![w] = lsAttempt + 1]
    /\ UNCHANGED <<lsClock, lsSweep>>

(* WorkerControl.heartbeat *)
Heartbeat(w) ==
    /\ Holds(w)
    /\ lsExpires' = lsClock + LeaseSeconds
    /\ UNCHANGED <<lsStatus, lsAttempt, lsWorker, lsClock, lsStarted, lsSweep>>

(* WorkerControl.complete and fail, by _finish: fail puts the job back     *)
(* while it has attempts left, unless the failure is terminal.             *)
AfterFailure(attempt) == IF attempt >= LeaseAttempts THEN "failed" ELSE "queued"

Finish(w) ==
    /\ Holds(w)
    /\ lsStatus' \in {"completed", "failed", AfterFailure(lsAttempt)}
    /\ lsWorker' = NoWorker /\ lsExpires' = 0
    /\ UNCHANGED <<lsAttempt, lsClock, lsStarted, lsSweep>>

(* WorkerControl.requeue_expired: the rows lapsed at this time are read ... *)
ReadLapsed(s) ==
    /\ lsSweep[s] = NoSweep /\ lsStatus = "running" /\ lsExpires < lsClock
    /\ lsSweep' = [lsSweep EXCEPT ![s] = [at |-> lsClock, attempt |-> lsAttempt]]
    /\ UNCHANGED <<lsStatus, lsAttempt, lsWorker, lsExpires, lsClock, lsStarted>>

(* Slip: a row that lapsed is taken back though it was renewed since. *)
SlipTakeBack(s) ==
    /\ lsSweep[s] # NoSweep
    /\ IF lsStatus = "running"
       THEN /\ lsStatus' = AfterFailure(lsSweep[s].attempt)
            /\ lsWorker' = NoWorker /\ lsExpires' = 0
       ELSE UNCHANGED <<lsStatus, lsWorker, lsExpires>>
    /\ lsSweep' = [lsSweep EXCEPT ![s] = NoSweep]
    /\ UNCHANGED <<lsAttempt, lsClock, lsStarted>>

(* ... and taken back if they are still lapsed at the time of the read; the *)
(* attempts compared with the limit are the ones read.                     *)
TakeBack(s) ==
    /\ lsSweep[s] # NoSweep
    /\ IF lsStatus = "running" /\ lsExpires < lsSweep[s].at
       THEN /\ lsStatus' = AfterFailure(lsSweep[s].attempt)
            /\ lsWorker' = NoWorker /\ lsExpires' = 0
       ELSE UNCHANGED <<lsStatus, lsWorker, lsExpires>>
    /\ lsSweep' = [lsSweep EXCEPT ![s] = NoSweep]
    /\ UNCHANGED <<lsAttempt, lsClock, lsStarted>>

Tick ==
    /\ lsClock' = lsClock + 1
    /\ UNCHANGED <<lsStatus, lsAttempt, lsWorker, lsExpires, lsStarted, lsSweep>>

LeaseNext ==
    \/ \E w \in LeaseWorkers : Start(w) \/ Heartbeat(w) \/ Finish(w)
    \/ \E s \in Sweepers : ReadLapsed(s) \/ TakeBack(s)
    \/ Tick

LeaseSpec == LeaseInit /\ [][LeaseNext]_lsVars

-----------------------------------------------------------------------------
(* Properties.                                                             *)

LeaseTypeOK ==
    /\ lsStatus \in {"queued", "running", "completed", "failed"}
    /\ lsAttempt \in Nat
    /\ lsWorker \in LeaseWorkers \cup {NoWorker}
    /\ lsExpires \in Nat /\ lsClock \in Nat
    /\ lsStarted \in [LeaseWorkers -> Nat]
    /\ lsSweep \in [Sweepers -> {NoSweep} \cup [at : Nat, attempt : Nat]]

(* A job that is put back can always be started again, although a sweep    *)
(* decides by the attempts it read before the row was taken back, started  *)
(* and lost again: no job is left queued with its attempts used up.        *)
QueuedIsRunnable == lsStatus = "queued" => lsAttempt < LeaseAttempts

(* The attempt in the row is the one its worker started: a worker whose    *)
(* lease was taken back never holds, renews or ends a later attempt.       *)
HolderStartedAttempt ==
    lsStatus = "running" => lsWorker \in LeaseWorkers /\ lsStarted[lsWorker] = lsAttempt

(* A sweep never takes a lease that was taken or renewed since it read:    *)
(* what it takes back had lapsed, at the attempt it read.                  *)
OnlyLapsedTakenBack ==
    [][\A s \in Sweepers :
          lsSweep[s] # NoSweep /\ lsSweep'[s] = NoSweep /\ lsStatus' # lsStatus
             => lsExpires < lsClock /\ lsSweep[s].attempt = lsAttempt]_lsVars

=============================================================================
