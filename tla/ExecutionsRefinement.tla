------------------------- MODULE ExecutionsRefinement -------------------------
(***************************************************************************)
(* Executions implements Requests: workers, leases, retries, recovery and  *)
(* dispatch are invisible but for the one outcome of each revision.        *)
(***************************************************************************)
EXTENDS Executions

Phase(status) ==
  IF status \in {"processing", "learning"} THEN "open"
  ELSE IF status \in {"mapping", "ready", "draft", "published"} THEN "settled"
  ELSE IF status = "cancelled" THEN "withdrawn"
  ELSE status

R == INSTANCE Requests WITH phase <- [o \in Objects |-> Phase(ostat[o])]

(* Every step of the execution layer is a step of Requests or none: each   *)
(* revision is concluded once, by the system, and never after it was       *)
(* revised, withdrawn or deleted.                                          *)
ImplementsRequests == R!Spec
=============================================================================
