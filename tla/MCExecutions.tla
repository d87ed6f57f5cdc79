----------------------------- MODULE MCExecutions -----------------------------
(***************************************************************************)
(* Instances of Executions for TLC: values of the constants that are       *)
(* functions, for the object sets the .cfg files choose.                   *)
(***************************************************************************)
EXTENDS ExecutionsRefinement, TLC

CONSTANTS t1, t2, p1, x1, x2, o1, o2, s1, alice, bob, w1, w2, d1, d2

(* Every child belongs to t1. *)
MCParent == [c \in Children |-> t1]

(* t2 is bob's, everything else alice's; or all of it is alice's. *)
MCTwoOwners == [o \in Objects |-> IF o = t2 THEN bob ELSE alice]
MCOneOwner == [o \in Objects |-> alice]

(* Workers are interchangeable, and so are one owner's exports and         *)
(* operations of one task.                                                 *)
WorkerSymmetry == Permutations(Workers)
Symmetry == WorkerSymmetry \cup Permutations(Exports) \cup Permutations(Operations)
=============================================================================
