--------------------------- MODULE MCTaskLifecycle ---------------------------
(***************************************************************************)
(* Instances of TaskLifecycle for TLC: the operations of one task, named   *)
(* by what they do.                                                        *)
(***************************************************************************)
EXTENDS TaskLifecycle, TLC

CONSTANTS t1, confirm, analyze, edit, edit2, download, upload, structure, decide, decide2,
          names, apply, apply2, applynames, export, export2, w1, w2

MCTaskOf == [o \in Operations |-> t1]

MCKind == [o \in Operations |->
  CASE o = confirm -> "confirm"
    [] o = analyze -> "analyze"
    [] o \in {edit, edit2} -> "edit"
    [] o = download -> "download"
    [] o = upload -> "return"
    [] o = structure -> "inspect"
    [] o \in {decide, decide2} -> "flexible"
    [] o = names -> "names"
    [] o \in {apply, apply2} -> "apply_return"
    [] o = applynames -> "apply_names"
    [] o \in {export, export2} -> "export"]

(* Decisions and applications belong to the upload of the instance. *)
MCSource == [o \in Operations |->
  CASE o \in {decide, decide2} -> structure
    [] o = apply -> upload
    [] o = apply2 -> structure
    [] o = applynames -> names
    [] OTHER -> o]

(* What is requested in one behaviour. *)
Everything == {Operations}
ChangeScenarios == {{confirm, edit, edit2}, {confirm, edit, export}, {confirm, export2},
                    {confirm, names, applynames}, {confirm, download}}
ReturnScenarios == {{confirm, upload, apply, structure}, {confirm, structure, decide, apply2},
                    {confirm, analyze}}

(* A mapping is confirmed first: what else is requested before is refused, *)
(* except a return.  The upload of a structure beside one comes after it.  *)
MCAfter == [o \in Operations |->
  CASE o \in {confirm, analyze, upload} -> {}
    [] o = structure -> Operations \cap {confirm, apply}
    [] OTHER -> Operations \cap {confirm}]

Once == [o \in Operations |-> 1]
Twice == [o \in Operations |-> 2]
(* A second attempt for some of those that commit. *)
SomeTwice == [o \in Operations |-> IF o \in {analyze, apply, apply2, applynames, export2} THEN 2 ELSE 1]

WorkerSymmetry == Permutations(Workers)
=============================================================================
