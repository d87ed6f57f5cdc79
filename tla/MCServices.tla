------------------------------ MODULE MCServices ------------------------------
(***************************************************************************)
(* The instances of the services, of the returns of a workbook, of the     *)
(* standards of a comparison, of a merchant's products and of the rules,   *)
(* which share no state: each behaviour is one of one of them, the one     *)
(* `part` names, and leaves the others at rest.                            *)
(***************************************************************************)
EXTENDS AuditJobs, JobAdmission, MappingCache, WorkerLeases, LoginLimits, RuleRegistry,
        MCReturns, MCStandards, MCMerchants

CONSTANTS
  MaxClock,                \* seconds of the leases' clock
  r1, r2, r3, r4, k1, k2, t1, t2, t3, w1, w2, w3, s1, s2, a1, a2, c1, u1, u2, u3

VARIABLE part

(* Three submissions with one key, one of another content, and one without. *)
MCKeyOf == (r1 :> k1) @@ (r2 :> k1) @@ (r3 :> NoKey) @@ (r4 :> k1)
MCPrintOf == [r \in Requests |-> IF r = r4 THEN 2 ELSE 1]

(* Two tasks of one process and one of another that ask for one mapping. *)
MCProcessOf == (t1 :> 1) @@ (t2 :> 1) @@ (t3 :> 2)
MCBatchesOf == (t1 :> <<k1, k2>>) @@ (t2 :> <<k1>>) @@ (t3 :> <<k1>>)

Rest == <<admVars, mapVars, lsVars, limVars>>
Inputs == <<mtVars, stVars, mpVars, ruVars>>

Init ==
  /\ part \in {"jobs", "admission", "mappings", "leases", "logins", "returns", "standards",
              "products", "rules"}
  /\ JobInit /\ AdmInit /\ MapInit /\ LeaseInit /\ LimitInit /\ MerchantInit
  /\ IF part = "returns" THEN MtInit ELSE MtAtRest
  /\ IF part = "standards" THEN StandardInit ELSE StAtRest
  /\ RuleInit
  /\ part = "jobs" \/ jobKind = "field"
  /\ part = "rules" \/ ruBase

Next ==
  \/ part = "jobs" /\ JobNext /\ UNCHANGED <<part, Rest, Inputs>>
  \/ /\ part = "admission" /\ AdmNext
     /\ UNCHANGED <<part, jobVars, mapVars, lsVars, limVars, Inputs>>
  \/ /\ part = "mappings" /\ MapNext
     /\ UNCHANGED <<part, jobVars, admVars, lsVars, limVars, Inputs>>
  \/ /\ part = "leases" /\ LeaseNext
     /\ UNCHANGED <<part, jobVars, admVars, mapVars, limVars, Inputs>>
  \/ /\ part = "logins" /\ LimitNext
     /\ UNCHANGED <<part, jobVars, admVars, mapVars, lsVars, Inputs>>
  \/ part = "returns" /\ MtNext /\ UNCHANGED <<part, jobVars, Rest, stVars, mpVars, ruVars>>
  \/ part = "standards" /\ StandardNext /\ UNCHANGED <<part, jobVars, Rest, mtVars, mpVars, ruVars>>
  \/ part = "products" /\ MerchantNext /\ UNCHANGED <<part, jobVars, Rest, mtVars, stVars, ruVars>>
  \/ part = "rules" /\ RuleNext /\ UNCHANGED <<part, jobVars, Rest, mtVars, stVars, mpVars>>

Spec == Init /\ [][Next]_<<part, jobVars, Rest, Inputs>>

(***************************************************************************)
(* What bounds the instances: few faults in a behaviour, and the clock of  *)
(* the leases; a workbook is downloaded before its task is edited; and      *)
(* two requests for rules at a time, or two at all without a database.     *)
(***************************************************************************)
FewFaults ==
  /\ mapLapsed = {} \/ (~mapFull /\ mapLapsed \subseteq {k1})
  /\ limCleared => ~limFault /\ limFails < 2
  /\ lsClock <= MaxClock
  /\ FreshFile
  /\ \E c \in RuleCalls : ruCall[c].at \in {"new", "ended"}
  /\ ruBase \/ \E c \in RuleCalls : ruCall[c].at = "new"

=============================================================================
