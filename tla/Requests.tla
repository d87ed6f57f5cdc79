------------------------------- MODULE Requests -------------------------------
(***************************************************************************)
(* What the workflow promises its users, with no execution in sight: every *)
(* revision of an object that asks for work gets exactly one outcome, at   *)
(* that revision; only users open a revision; a deleted object is gone.    *)
(***************************************************************************)
EXTENDS Integers

CONSTANT Objects

VARIABLES rev, phase
vars == <<rev, phase>>

Phases == {"none", "open", "settled", "failed", "withdrawn", "deleted"}
Exists(o) == phase[o] \notin {"none", "deleted"}

Init == rev = [o \in Objects |-> 0] /\ phase = [o \in Objects |-> "none"]

(* A user creates an object: a draft, or with work to do. *)
Submit(o) ==
  /\ phase[o] = "none"
  /\ \E p \in {"open", "settled"} : phase' = [phase EXCEPT ![o] = p]
  /\ UNCHANGED rev

(* A user makes a new revision: asks for work, takes it back, or edits. *)
Revise(o) ==
  /\ Exists(o)
  /\ rev' = [rev EXCEPT ![o] = @ + 1]
  /\ \E p \in {"open", "settled", "withdrawn"} : phase' = [phase EXCEPT ![o] = p]

(* The system ends open work, of one object or of several at once. *)
Conclude(S) ==
  /\ S # {} /\ \A o \in S : phase[o] = "open"
  /\ \E p \in {"settled", "failed"} :
       phase' = [o \in Objects |-> IF o \in S THEN p ELSE phase[o]]
  /\ UNCHANGED rev

(* A user deletes an object and what belongs to it. *)
Delete(S) ==
  /\ S # {} /\ \A o \in S : Exists(o)
  /\ phase' = [o \in Objects |-> IF o \in S THEN "deleted" ELSE phase[o]]
  /\ UNCHANGED rev

Next ==
  \/ \E o \in Objects : Submit(o) \/ Revise(o)
  \/ \E S \in SUBSET Objects : Conclude(S) \/ Delete(S)

Spec == Init /\ [][Next]_vars
=============================================================================
