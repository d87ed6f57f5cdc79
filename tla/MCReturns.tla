------------------------------- MODULE MCReturns -------------------------------
(***************************************************************************)
(* The instance of MaintenanceReturns: tasks of three records and three    *)
(* fields, with records that differ, are twins, have gaps or the same      *)
(* article number, and with fields merged over two or three records, whose *)
(* values may have been set apart since.                                   *)
(***************************************************************************)
EXTENDS MaintenanceReturns, TLC

Record(id, values, groups) == [id |-> id, values |-> values, groups |-> groups]
Alone == <<<<>>, <<>>, <<>>>>
Merged(f, k) == [Alone EXCEPT ![f] = <<0, k, 0>>]
MtTask(flexible, a, b, c, ga, gb, gc) ==
  [flexible |-> flexible, fields |-> <<1, 2, 3>>, rows |-> <<Record(1, a, ga), Record(2, b, gb), Record(3, c, gc)>>]

MCMaintenanceTasks ==
  {MtTask(x, <<"p", "q", "p">>, <<"q", "p", "q">>, <<"r", "q", "q">>, Alone, Alone, Alone) : x \in BOOLEAN}
  \cup {MtTask(TRUE, <<"p", "q", "p">>, <<"q", "q", "p">>, <<"r", "p", "p">>, Merged(2, 1), Merged(2, 1), Merged(2, 1)),
        MtTask(TRUE, <<"p", "q", "-">>, <<"p", "q", "-">>, <<"-", "q", "r">>, Merged(2, 1), Merged(2, 1), Merged(2, 1))}

MtAtRest == /\ mtFlexible = FALSE /\ mtFields = <<>> /\ mtRows = <<>> /\ mtRev = 1 /\ mtNext = 1 /\ mtFile = NoFile
            /\ mtChanges = 0 /\ mtEdits = 0 /\ mtNewer = {} /\ mtStep = "at rest" /\ mtDocument = NoDocument
            /\ mtBase = 0 /\ mtStaged = NothingStaged

(* A file is downloaded before the edits: an edited task is as good as     *)
(* another task to begin with.                                             *)
FreshFile == mtFile # NoFile => mtFile.rev = 1 \/ mtEdits = 0
=============================================================================
