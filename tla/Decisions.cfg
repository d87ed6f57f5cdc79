SPECIFICATION Spec
CONSTANTS
  t1 = t1  confirm = confirm  analyze = analyze  edit = edit  edit2 = edit2  download = download
  upload = upload  structure = structure  decide = decide  decide2 = decide2
  names = names  apply = apply  apply2 = apply2  applynames = applynames  export = export  export2 = export2
  w1 = w1  w2 = w2  NoWorker = NoWorker  NoOperation = NoOperation
  Tasks = {t1}  Workers = {w1, w2}
  Operations = {confirm, structure, decide, decide2, apply2}
  TaskOf <- MCTaskOf
  Kind <- MCKind
  Source <- MCSource
  Scenarios <- Everything
  After <- MCAfter
  MaxRevision = 2
  Attempts <- Once
SYMMETRY WorkerSymmetry
CHECK_DEADLOCK FALSE
INVARIANTS AppliesWhatWasShown
