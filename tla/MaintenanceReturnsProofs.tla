------------------------- MODULE MaintenanceReturnsProofs -------------------------
(***************************************************************************)
(* The returns of a workbook, for any task, any changes in Excel, any edits *)
(* in the browser and any choices: the invariant they rest on, with a lemma *)
(* for each action, and the three properties.                              *)
(***************************************************************************)
EXTENDS MaintenanceReturns, FiniteSetTheorems, SequenceTheorems, WellFoundedInduction, TLAPS

IsList(s) == s \in Seq(Range(s))
OwnIds(rows) == \A m, n \in DOMAIN rows : rows[m].id = rows[n].id => m = n

(* Records with ids of their own, which are all before the next one.       *)
RowsFit(rows, fields, next) ==
    /\ IsList(rows) /\ OwnIds(rows)
    /\ \A n \in DOMAIN rows : IsRecord(rows[n], fields) /\ rows[n].id < next

RecordsRule ==
    /\ IsList(mtFields) /\ mtRev \in Nat /\ mtNext \in Nat \ {0}
    /\ RowsFit(mtRows, FieldsOf(mtFields), mtNext)

IsFile(file) ==
    /\ {"rev", "rows", "cols"} \subseteq DOMAIN file
    /\ file.rev \in Nat /\ IsList(file.rows) /\ IsList(file.cols)

(* A file says the revision it was made of, which is past once a cell was  *)
(* edited.                                                                 *)
FileRule ==
    /\ mtFile # NoFile => IsFile(mtFile) /\ mtFile.rev <= mtRev
    /\ mtNewer # {} => mtFile # NoFile /\ mtFile.rev < mtRev

DocumentRule ==
    mtStep \in {"structure", "row_review", "ready"} =>
    /\ mtFile # NoFile
    /\ mtDocument.stale = (mtFile.rev < mtBase)
    /\ IsList(mtDocument.rows) /\ IsList(mtDocument.fields)
    /\ \A c \in DOMAIN mtDocument.fields : mtDocument.fields[c] \in FieldsOf(mtFields) \cup {0}

ColumnsFit(columns, fields) ==
    IsList(columns) /\ \A c \in DOMAIN columns : columns[c] \in FieldsOf(fields) \cup {-1, -2}
ChoicesFit(choices, rows) == \A n \in DOMAIN choices : choices[n] \in {-2, 0} \cup IdsOf(rows)

(* Staged records fit, with the numbers that are taken for the new ones;   *)
(* what differs is said, and columns go only with a changed structure.     *)
FlexibleFit(staged, fields, rows, next) ==
    /\ "confirmed" \in DOMAIN staged
    /\ ColumnsFit(staged.columns, fields)
    /\ IsList(staged.fields) /\ Len(staged.rows) \in Nat
    /\ RowsFit(staged.rows, FieldsOf(staged.fields), next + Len(staged.rows))
    /\ staged.changed = ChangedCells(rows, staged.rows)
    /\ staged.missing = IdsOf(rows) \ IdsOf(staged.rows)
    /\ ~staged.structure => staged.fields = fields

(* A returned row that has the cells of a record is that one or one with   *)
(* the same cells, or a new one beside that one.                           *)
CellOf(row, fields, f) == row.cells[CHOOSE c \in DOMAIN fields : fields[c] = f]
RowsKnown(staged, fields, rows) ==
    \A row \in Range(staged.rows) :
        (row.of \in IdsOf(rows) /\ \A f \in FieldsOf(fields) : CellOf(row, fields, f) = ById(rows, row.of).values[f])
        => \/ /\ row.id \in IdsOf(rows)
              /\ \A f \in FieldsOf(fields) : ById(rows, row.id).values[f] = ById(rows, row.of).values[f]
           \/ row.id = 0 /\ \E r \in Range(staged.rows) : r.id = row.of

StrictFit(staged, fields, rows) ==
    /\ "confirmed" \in DOMAIN staged
    /\ DOMAIN staged.changes = staged.changed
    /\ IsList(staged.added)
    /\ \A i \in DOMAIN staged.added : staged.added[i] = [f \in FieldsOf(fields) |-> staged.added[i][f]]
    /\ ~staged.warned => RowsKnown(staged, fields, rows)

(* What is staged was made of the records and the file as they are, unless *)
(* the records have been revised since.                                    *)
StagedRule ==
    /\ mtStep # "none" => mtBase \in Nat /\ mtBase <= mtRev
    /\ mtStep \in {"row_review", "ready"} /\ mtRev = mtBase => FlexibleFit(mtStaged, mtFields, mtRows, mtNext)
    /\ mtStep = "checked" /\ mtRev = mtBase =>
         mtFile # NoFile /\ mtFile.rev = mtRev /\ StrictFit(mtStaged, mtFields, mtRows)

(* ReturnInv is what the safety of a return rests on.                      *)
ReturnInv == RecordsRule /\ FileRule /\ DocumentRule /\ StagedRule

-----------------------------------------------------------------------------
LEMMA PlacesNumbered ==
    ASSUME NEW n \in Nat, NEW K \in SUBSET (1 .. n)
    PROVE  /\ IsFiniteSet(K) /\ Cardinality(K) \in Nat /\ Cardinality(K) <= n
           /\ K # 1 .. n => Cardinality(K) < n
           /\ \A i \in K : Cardinality({j \in K : j <= i}) \in 1 .. Cardinality(K)
           /\ \A i \in K : \A j \in K : Cardinality({l \in K : l <= i}) = Cardinality({l \in K : l <= j}) => i = j
           /\ \A m \in 1 .. Cardinality(K) : \E i \in K : Cardinality({j \in K : j <= i}) = m
<1> DEFINE N     == Cardinality(K)
           To(i) == {j \in K : j <= i}
<1>1. IsFiniteSet(1 .. n) /\ Cardinality(1 .. n) = n
    BY FS_Interval
<1>2. /\ IsFiniteSet(K) /\ N \in Nat /\ N <= n
      /\ K # 1 .. n => N # n
    BY <1>1, FS_Subset, FS_CardinalityType
<1>3. ASSUME NEW i \in K
      PROVE  /\ To(i) \in SUBSET K /\ i \in To(i) /\ IsFiniteSet(To(i))
             /\ Cardinality(To(i)) \in 1 .. N
    <2>1. To(i) \in SUBSET K /\ i \in To(i)
        OBVIOUS
    <2>2. IsFiniteSet(To(i)) /\ Cardinality(To(i)) <= N
        BY <1>2, <2>1, FS_Subset
    <2>3. Cardinality(To(i)) \in Nat /\ Cardinality(To(i)) # 0
        BY <2>1, <2>2, FS_CardinalityType, FS_EmptySet
    <2> HIDE DEF To, N
    <2>4. Cardinality(To(i)) \in 1 .. N
        BY <1>2, <2>2, <2>3
    <2> QED BY <2>1, <2>2, <2>4
<1>4. ASSUME NEW i \in K, NEW j \in K, i < j PROVE Cardinality(To(i)) # Cardinality(To(j))
    <2>0. /\ i \in Int /\ j \in Int /\ i < j
          /\ \A l \in K : l \in Int
        BY <1>4
    <2>1. To(i) \in SUBSET To(j) /\ j \in To(j) /\ j \notin To(i)
        <3>1. j <= j /\ ~(j <= i)
            BY <2>0
        <3>2. \A l \in K : l <= i => l <= j
            BY <2>0
        <3> QED BY <3>1, <3>2
    <2>2. Cardinality(To(i)) = Cardinality(To(j)) => To(i) = To(j)
        BY <1>3, <2>1, FS_Subset
    <2> QED BY <2>1, <2>2
<1>5. ASSUME NEW i \in K, NEW j \in K, Cardinality(To(i)) = Cardinality(To(j)) PROVE i = j
    <2>1. ~(i < j) /\ ~(j < i)
        BY <1>4, <1>5
    <2> QED BY <2>1
<1> DEFINE f == [i \in K |-> Cardinality(To(i))]
<1>6. f \in Injection(K, 1 .. N)
    <2>1. f \in [K -> 1 .. N]
        BY <1>3
    <2>2. \A i \in K : \A j \in K : f[i] = f[j] => i = j
        BY <1>5
    <2> HIDE DEF f
    <2> QED BY <2>1, <2>2 DEF Injection, IsInjective
<1>7. IsFiniteSet(1 .. N) /\ Cardinality(1 .. N) = N
    <2> HIDE DEF N
    <2> QED BY <1>2, FS_Interval
<1>8. f \in Surjection(K, 1 .. N)
    <2> HIDE DEF f
    <2> QED BY <1>6, <1>7, <1>2, FS_Injection
<1>9. ASSUME NEW m \in 1 .. N PROVE \E i \in K : Cardinality(To(i)) = m
    <2>1. PICK i \in K : f[i] = m
        BY <1>8 DEF Surjection
    <2> QED BY <2>1
<1>10. K # 1 .. n => N < n
    <2> HIDE DEF N
    <2> QED BY <1>2
<1> QED BY <1>2, <1>3, <1>5, <1>9, <1>10

LessOnNat == {p \in Nat \X Nat : p[1] < p[2]}

LEMMA LessOnNatWellFounded == IsWellFoundedOn(LessOnNat, Nat)
BY NatLessThanWellFounded DEF LessOnNat, OpToRel

LEMMA LeastOf ==
    ASSUME NEW T \in SUBSET Nat, T # {}
    PROVE  \E x \in T : \A y \in T : x <= y
<1>1. PICK x \in T : \A y \in T : <<y, x>> \notin LessOnNat
    BY LessOnNatWellFounded, WFMin
<1>2. \A y \in T : ~(y < x)
    BY <1>1 DEF LessOnNat
<1> QED BY <1>1, <1>2

LEMMA ListShape ==
    ASSUME NEW s, IsList(s)
    PROVE  Len(s) \in Nat /\ DOMAIN s = 1 .. Len(s) /\ s = [i \in 1 .. Len(s) |-> s[i]]
<1> DEFINE T == Range(s)
<1>1. s \in Seq(T)
    BY DEF IsList
<1> HIDE DEF T
<1> QED BY <1>1

LEMMA ListOf ==
    ASSUME NEW n \in Nat, NEW s, s = [i \in 1 .. n |-> s[i]]
    PROVE  IsList(s) /\ Len(s) = n /\ DOMAIN s = 1 .. n
<1> DEFINE T == Range(s)
<1>0. DOMAIN s = 1 .. n
    OBVIOUS
<1>1. \A i \in 1 .. n : s[i] \in T
    BY <1>0 DEF Range
<1> HIDE DEF T
<1>2. s \in [1 .. n -> T]
    BY <1>1
<1>3. s \in Seq(T) /\ Len(s) = n
    BY <1>2
<1> QED BY <1>0, <1>3 DEF T, IsList

(* The place among others of one of them.                                  *)
PlaceOf(K, i) == Cardinality({m \in K : m <= i})

LEMMA PlacesOf ==
    ASSUME NEW n \in Nat, NEW K \in SUBSET (1 .. n)
    PROVE  /\ IsFiniteSet(K) /\ Cardinality(K) \in Nat
           /\ \A i \in K : PlaceOf(K, i) \in 1 .. Cardinality(K)
           /\ \A i \in K : \A j \in K : PlaceOf(K, i) = PlaceOf(K, j) => i = j
           /\ \A m \in 1 .. Cardinality(K) : \E i \in K : PlaceOf(K, i) = m
BY PlacesNumbered, Zenon DEF PlaceOf

LEMMA PlacesOrdered ==
    ASSUME NEW n \in Nat, NEW K \in SUBSET (1 .. n)
    PROVE  \A i, j \in K : i < j <=> PlaceOf(K, i) < PlaceOf(K, j)
<1>1. \A i \in K : i \in Int /\ PlaceOf(K, i) \in Int
    <2>1. \A i \in K : PlaceOf(K, i) \in 1 .. Cardinality(K)
        BY PlacesOf
    <2>2. Cardinality(K) \in Nat
        BY PlacesOf
    <2> QED BY <2>1, <2>2
<1>2. ASSUME NEW i \in K, NEW j \in K, i < j PROVE PlaceOf(K, i) < PlaceOf(K, j)
    <2>0. /\ i \in Int /\ j \in Int /\ i < j
          /\ \A l \in K : l \in Int
        BY <1>2
    <2>1. {m \in K : m <= i} \subseteq {m \in K : m <= j}
        <3>1. \A l \in K : l <= i => l <= j
            BY <2>0
        <3> QED BY <3>1
    <2>2. IsFiniteSet({m \in K : m <= j})
        <3>1. IsFiniteSet(K)
            BY PlacesOf
        <3>2. {m \in K : m <= j} \subseteq K
            OBVIOUS
        <3> QED BY <3>1, <3>2, FS_Subset
    <2>3. PlaceOf(K, i) <= PlaceOf(K, j)
        BY <2>1, <2>2, FS_Subset DEF PlaceOf
    <2>4. PlaceOf(K, i) = PlaceOf(K, j) => i = j
        BY PlacesOf
    <2>5. i # j
        BY <1>1, <1>2
    <2> QED BY <1>1, <2>3, <2>4, <2>5
<1> QED
    <2> SUFFICES ASSUME NEW i \in K, NEW j \in K PROVE i < j <=> PlaceOf(K, i) < PlaceOf(K, j)
        OBVIOUS
    <2>1. i < j => PlaceOf(K, i) < PlaceOf(K, j)
        BY <1>2
    <2>2. j < i => PlaceOf(K, j) < PlaceOf(K, i)
        BY <1>2
    <2>3. i = j => PlaceOf(K, i) = PlaceOf(K, j)
        OBVIOUS
    <2> QED BY <1>1, <2>1, <2>2, <2>3

(* What is at some places of a list is a list, in the order of the places. *)
LEMMA ListAtKeeps ==
    ASSUME NEW s, IsList(s), NEW K \in SUBSET DOMAIN s, NEW t, t = ListAt(s, K)
    PROVE  /\ IsList(t) /\ Len(t) = Cardinality(K) /\ DOMAIN t = 1 .. Cardinality(K)
           /\ \A i \in K : PlaceOf(K, i) \in DOMAIN t /\ t[PlaceOf(K, i)] = s[i]
           /\ \A k \in DOMAIN t : \E i \in K : k = PlaceOf(K, i) /\ t[k] = s[i]
           /\ \A i, j \in K : PlaceOf(K, i) = PlaceOf(K, j) => i = j
           /\ \A i, j \in K : i < j <=> PlaceOf(K, i) < PlaceOf(K, j)
<1> DEFINE At(k) == CHOOSE i \in K : PlaceOf(K, i) = k
           N     == Cardinality(K)
<1>1. Len(s) \in Nat /\ DOMAIN s = 1 .. Len(s) /\ K \in SUBSET (1 .. Len(s))
    BY ListShape
<1>2. /\ N \in Nat
      /\ \A i \in K : PlaceOf(K, i) \in 1 .. N
      /\ \A i, j \in K : PlaceOf(K, i) = PlaceOf(K, j) => i = j
      /\ \A m \in 1 .. N : \E i \in K : PlaceOf(K, i) = m
    BY <1>1, PlacesOf
<1>3. \A k \in 1 .. N : At(k) \in K /\ PlaceOf(K, At(k)) = k
    <2> HIDE DEF N
    <2> QED BY <1>2
<1>4. \A i \in K : At(PlaceOf(K, i)) = i
    <2> HIDE DEF N
    <2> QED BY <1>2
<1>5. t = [k \in 1 .. N |-> s[At(k)]]
    BY DEF ListAt, PlaceOf
<1> HIDE DEF At, N
<1>6. IsList(t) /\ Len(t) = N /\ DOMAIN t = 1 .. N
    <2>1. t = [k \in 1 .. N |-> t[k]]
        BY <1>5
    <2> QED BY <1>2, <2>1, ListOf
<1>7. \A i \in K : PlaceOf(K, i) \in DOMAIN t /\ t[PlaceOf(K, i)] = s[i]
    BY <1>2, <1>4, <1>5, <1>6
<1>8. \A k \in DOMAIN t : \E i \in K : k = PlaceOf(K, i) /\ t[k] = s[i]
    BY <1>3, <1>5, <1>6
<1>9. \A i, j \in K : i < j <=> PlaceOf(K, i) < PlaceOf(K, j)
    BY <1>1, PlacesOrdered
<1> QED BY <1>2, <1>6, <1>7, <1>8, <1>9 DEF N

LEMMA ListAtAll ==
    ASSUME NEW s, IsList(s)
    PROVE  ListAt(s, DOMAIN s) = s
<1> DEFINE n == Len(s)
<1>1. n \in Nat /\ DOMAIN s = 1 .. n /\ s = [i \in 1 .. n |-> s[i]]
    BY ListShape
<1> HIDE DEF n
<1>2. ASSUME NEW i \in 1 .. n PROVE PlaceOf(1 .. n, i) = i
    <2>1. {m \in 1 .. n : m <= i} = 1 .. i
        BY <1>1
    <2>2. i \in Nat
        BY <1>1
    <2>3. Cardinality(1 .. i) = i
        BY <2>2, FS_Interval
    <2> QED BY <2>1, <2>3 DEF PlaceOf
<1>3. Cardinality(1 .. n) = n
    BY <1>1, FS_Interval
<1> DEFINE t == ListAt(s, DOMAIN s)
<1>4. /\ IsList(t) /\ DOMAIN t = 1 .. n
      /\ \A i \in 1 .. n : t[PlaceOf(1 .. n, i)] = s[i]
    <2> HIDE DEF t
    <2>1. t = ListAt(s, DOMAIN s) /\ DOMAIN s \in SUBSET DOMAIN s
        BY DEF t
    <2>2. /\ IsList(t) /\ DOMAIN t = 1 .. Cardinality(DOMAIN s)
          /\ \A i \in DOMAIN s : t[PlaceOf(DOMAIN s, i)] = s[i]
        BY <2>1, ListAtKeeps
    <2> QED BY <1>1, <1>3, <2>2
<1> HIDE DEF t
<1>5. Len(t) = n /\ t = [i \in 1 .. n |-> t[i]]
    BY <1>1, <1>4, ListShape
<1>6. \A i \in 1 .. n : t[i] = s[i]
    BY <1>2, <1>4
<1>7. t = s
    BY <1>1, <1>5, <1>6
<1> QED BY <1>7 DEF t

LEMMA ListSame ==
    ASSUME NEW s, IsList(s), NEW t, t = [i \in DOMAIN s |-> t[i]]
    PROVE  IsList(t) /\ Len(t) = Len(s) /\ DOMAIN t = DOMAIN s
<1>1. Len(s) \in Nat /\ DOMAIN s = 1 .. Len(s)
    BY ListShape
<1> QED BY <1>1, ListOf

Joined(s, t) == s \o t

LEMMA JoinedLists ==
    ASSUME NEW s, NEW t, IsList(s), IsList(t)
    PROVE  /\ IsList(Joined(s, t)) /\ Len(Joined(s, t)) = Len(s) + Len(t)
           /\ DOMAIN Joined(s, t) = 1 .. (Len(s) + Len(t))
           /\ \A i \in DOMAIN s : i \in DOMAIN Joined(s, t) /\ Joined(s, t)[i] = s[i]
           /\ \A i \in DOMAIN t : Len(s) + i \in DOMAIN Joined(s, t) /\ Joined(s, t)[Len(s) + i] = t[i]
           /\ \A k \in DOMAIN Joined(s, t) : k \in DOMAIN s \/ \E i \in DOMAIN t : k = Len(s) + i
<1> PICK u : u = Joined(s, t)
    OBVIOUS
<1>0. u = s \o t
    BY Zenon DEF Joined
<1>1. /\ Len(s) \in Nat /\ DOMAIN s = 1 .. Len(s)
      /\ Len(t) \in Nat /\ DOMAIN t = 1 .. Len(t)
    BY ListShape
<1> DEFINE T == Range(s) \cup Range(t)
<1>2. s \in Seq(T) /\ t \in Seq(T)
    <2>1. s \in Seq(Range(s)) /\ t \in Seq(Range(t)) /\ Range(s) \subseteq T /\ Range(t) \subseteq T
        BY DEF IsList
    <2> HIDE DEF T
    <2> QED BY <2>1
<1> HIDE DEF T
<1>3. u \in Seq(T) /\ Len(u) = Len(s) + Len(t)
    BY <1>0, <1>2
<1>4. u = [i \in 1 .. (Len(s) + Len(t)) |-> u[i]]
    <2>1. \A x \in Seq(T) : x = [i \in 1 .. Len(x) |-> x[i]]
        OBVIOUS
    <2>2. u = [i \in 1 .. Len(u) |-> u[i]]
        BY <1>3, <2>1
    <2>3. Len(u) = Len(s) + Len(t)
        BY <1>3
    <2> QED BY <2>2, <2>3
<1>5. IsList(u) /\ DOMAIN u = 1 .. (Len(s) + Len(t))
    <2>1. Len(s) + Len(t) \in Nat
        BY <1>1
    <2> QED BY <1>4, <2>1, ListOf
<1>6. \A i \in 1 .. Len(s) : u[i] = s[i]
    BY <1>0, <1>2
<1>7. ASSUME NEW i \in DOMAIN t PROVE Len(s) + i \in DOMAIN u /\ u[Len(s) + i] = t[i]
    <2>1. i \in 1 .. Len(t) /\ Len(s) + i \in 1 .. (Len(s) + Len(t)) /\ Len(s) + i > Len(s)
          /\ Len(s) + i - Len(s) = i
        BY <1>1
    <2>2. u[Len(s) + i] = t[Len(s) + i - Len(s)]
        BY <1>0, <1>2, <2>1
    <2> QED BY <1>5, <2>1, <2>2
<1>8. ASSUME NEW k \in DOMAIN u, k \notin DOMAIN s PROVE \E i \in DOMAIN t : k = Len(s) + i
    <2>1. k \in Int /\ k >= 1 /\ k <= Len(s) + Len(t) /\ ~(k <= Len(s))
        BY <1>1, <1>5, <1>8
    <2>2. k - Len(s) \in 1 .. Len(t) /\ k = Len(s) + (k - Len(s))
        BY <1>1, <2>1
    <2> QED BY <1>1, <2>2
<1>9. \A i \in DOMAIN s : i \in DOMAIN u
    BY <1>1, <1>5
<1>10. /\ IsList(u) /\ Len(u) = Len(s) + Len(t) /\ DOMAIN u = 1 .. (Len(s) + Len(t))
       /\ \A i \in DOMAIN s : i \in DOMAIN u /\ u[i] = s[i]
       /\ \A i \in DOMAIN t : Len(s) + i \in DOMAIN u /\ u[Len(s) + i] = t[i]
       /\ \A k \in DOMAIN u : k \in DOMAIN s \/ \E i \in DOMAIN t : k = Len(s) + i
    BY <1>1, <1>3, <1>5, <1>6, <1>7, <1>8, <1>9
<1> QED BY <1>10, Zenon

(* An edited record keeps its identity and its groups; where a value is    *)
(* another one than before, a change reaches it.                           *)
NewValue(changes, deleted, r, f) ==
    LET met == Reaching(mtRows, changes, r.id, f)
    IN  IF met # {} /\ r.id \notin deleted THEN changes[CHOOSE c \in met : TRUE] ELSE r.values[f]

LEMMA RewrittenRows ==
    ASSUME RecordsRule, NEW changes, NEW deleted, NEW new,
           new = Rewritten(mtRows, Expanded(mtRows, changes, deleted))
    PROVE  /\ IsList(new) /\ Len(new) = Len(mtRows) /\ DOMAIN new = DOMAIN mtRows
           /\ \A n \in DOMAIN mtRows :
                 /\ IsRecord(new[n], FieldsOf(mtFields))
                 /\ new[n].id = mtRows[n].id /\ new[n].groups = mtRows[n].groups
                 /\ \A f \in FieldsOf(mtFields) : new[n].values[f] = NewValue(changes, deleted, mtRows[n], f)
<1> DEFINE cells == Expanded(mtRows, changes, deleted)
<1>1. \A x, f : <<x, f>> \in DOMAIN cells <=> Reaching(mtRows, changes, x, f) # {} /\ x \notin deleted
    <2>1. DOMAIN cells = UNION {{<<y, c[2]>> : y \in Shared(mtRows, c[1], c[2]) \ deleted} : c \in DOMAIN changes}
        BY DEF Expanded
    <2> HIDE DEF cells
    <2> SUFFICES ASSUME NEW x, NEW f
                 PROVE  <<x, f>> \in DOMAIN cells <=> Reaching(mtRows, changes, x, f) # {} /\ x \notin deleted
        OBVIOUS
    <2>2. ASSUME <<x, f>> \in DOMAIN cells PROVE Reaching(mtRows, changes, x, f) # {} /\ x \notin deleted
        <3>1. PICK c \in DOMAIN changes : <<x, f>> \in {<<y, c[2]>> : y \in Shared(mtRows, c[1], c[2]) \ deleted}
            BY <2>1, <2>2
        <3>2. x \in Shared(mtRows, c[1], c[2]) \ deleted /\ c[2] = f
            BY <3>1
        <3> QED BY <3>2 DEF Reaching
    <2>3. ASSUME Reaching(mtRows, changes, x, f) # {}, x \notin deleted PROVE <<x, f>> \in DOMAIN cells
        <3>1. PICK c \in DOMAIN changes : c[2] = f /\ x \in Shared(mtRows, c[1], c[2])
            BY <2>3 DEF Reaching
        <3>2. <<x, f>> \in {<<y, c[2]>> : y \in Shared(mtRows, c[1], c[2]) \ deleted}
            BY <2>3, <3>1
        <3> QED BY <2>1, <3>2
    <2> QED BY <2>2, <2>3
<1>2. \A x, f : <<x, f>> \in DOMAIN cells =>
          cells[<<x, f>>] = changes[CHOOSE c \in Reaching(mtRows, changes, x, f) : TRUE]
    BY DEF Expanded
<1> HIDE DEF cells
<1>3. new = [n \in DOMAIN mtRows |->
               [mtRows[n] EXCEPT !.values = [f \in DOMAIN mtRows[n].values |->
                   IF <<mtRows[n].id, f>> \in DOMAIN cells THEN cells[<<mtRows[n].id, f>>] ELSE mtRows[n].values[f]]]]
    BY DEF Rewritten, cells
<1>4. IsList(new) /\ Len(new) = Len(mtRows) /\ DOMAIN new = DOMAIN mtRows
    <2>1. new = [n \in DOMAIN mtRows |-> new[n]]
        BY <1>3
    <2> QED BY <2>1, ListSame DEF RecordsRule, RowsFit
<1>5. ASSUME NEW n \in DOMAIN mtRows
      PROVE  /\ IsRecord(new[n], FieldsOf(mtFields))
             /\ new[n].id = mtRows[n].id /\ new[n].groups = mtRows[n].groups
             /\ \A f \in FieldsOf(mtFields) :
                   new[n].values[f] = IF <<mtRows[n].id, f>> \in DOMAIN cells
                                      THEN cells[<<mtRows[n].id, f>>] ELSE mtRows[n].values[f]
    <2> DEFINE r == mtRows[n]
               v == [f \in DOMAIN r.values |-> IF <<r.id, f>> \in DOMAIN cells THEN cells[<<r.id, f>>] ELSE r.values[f]]
    <2>1. IsRecord(r, FieldsOf(mtFields))
        BY DEF RecordsRule, RowsFit
    <2>2. new[n] = [r EXCEPT !.values = v]
        BY <1>3
    <2>3. DOMAIN r.values = FieldsOf(mtFields) /\ r = [id |-> r.id, values |-> r.values, groups |-> r.groups]
        <3> HIDE DEF r
        <3> QED BY <2>1 DEF IsRecord
    <2>4. v = [f \in FieldsOf(mtFields) |-> v[f]]
        BY <2>3
    <2>5. \A f \in FieldsOf(mtFields) : v[f] = IF <<r.id, f>> \in DOMAIN cells THEN cells[<<r.id, f>>] ELSE r.values[f]
        BY <2>3
    <2> HIDE DEF v, r
    <2>6. new[n] = [id |-> r.id, values |-> v, groups |-> r.groups]
        BY <2>2, <2>3
    <2>7. IsRecord(new[n], FieldsOf(mtFields))
        BY <2>1, <2>4, <2>6 DEF IsRecord
    <2> QED BY <2>5, <2>6, <2>7 DEF r
<1> QED BY <1>1, <1>2, <1>4, <1>5 DEF NewValue

(* Records with ids of their own are found by their ids.                   *)

LEMMA FoundById ==
    ASSUME NEW rows, OwnIds(rows), NEW n \in DOMAIN rows
    PROVE  rows[n].id \in IdsOf(rows) /\ ById(rows, rows[n].id) = rows[n]
<1> DEFINE m == CHOOSE k \in DOMAIN rows : rows[k].id = rows[n].id
<1>1. m \in DOMAIN rows /\ rows[m].id = rows[n].id
    OBVIOUS
<1>2. m = n
    <2> HIDE DEF m
    <2> QED BY <1>1 DEF OwnIds
<1> QED BY <1>2 DEF IdsOf, ById

(* The places of the records an edit leaves, and what is there then.       *)
Left(deleted) == {n \in DOMAIN mtRows : mtRows[n].id \notin deleted}
Changed(changes, deleted) == Rewritten(mtRows, Expanded(mtRows, changes, deleted))

LEMMA EditedRows ==
    ASSUME RecordsRule, NEW changes, NEW deleted, NEW added, IsList(added),
           \A i \in DOMAIN added : added[i] = [f \in FieldsOf(mtFields) |-> added[i][f]],
           NEW new, new = Edited(changes, deleted, added),
           NEW K, K = Left(deleted), NEW W, W = Changed(changes, deleted)
    PROVE  /\ IsList(new) /\ Len(new) = Cardinality(K) + Len(added) /\ DOMAIN new = 1 .. Len(new)
           /\ Cardinality(K) \in Nat /\ Len(added) \in Nat
           /\ \A n \in K : /\ PlaceOf(K, n) \in DOMAIN new /\ PlaceOf(K, n) \in 1 .. Cardinality(K)
                           /\ new[PlaceOf(K, n)] = W[n]
           /\ \A i \in DOMAIN added : new[Cardinality(K) + i] = NewRecord(mtNext + i - 1, added[i])
           /\ \A k \in DOMAIN new : \/ \E n \in K : k = PlaceOf(K, n)
                                    \/ \E i \in DOMAIN added : k = Cardinality(K) + i
           /\ \A m, n \in K : m < n <=> PlaceOf(K, m) < PlaceOf(K, n)
           /\ \A m, n \in K : PlaceOf(K, m) = PlaceOf(K, n) => m = n
<1>1. IsList(W) /\ DOMAIN W = DOMAIN mtRows /\ \A n \in DOMAIN mtRows : W[n].id = mtRows[n].id
    BY RewrittenRows DEF Changed
<1>2. K = {n \in DOMAIN W : W[n].id \notin deleted} /\ K \in SUBSET DOMAIN W
    BY <1>1 DEF Left
<1> DEFINE R == ListAt(W, K)
           A == [i \in DOMAIN added |-> NewRecord(mtNext + i - 1, added[i])]
<1>3. new = R \o A
    <2>1. new = WithAdditions(Remaining(W, deleted), added)
        BY DEF Edited, Changed
    <2>2. Remaining(W, deleted) = R
        BY <1>2 DEF Remaining
    <2>3. \A r : WithAdditions(r, added) = r \o A
        BY Zenon DEF WithAdditions
    <2> HIDE DEF R, A
    <2> QED BY <2>1, <2>2, <2>3, Zenon
<1>4. /\ IsList(R) /\ Len(R) = Cardinality(K) /\ DOMAIN R = 1 .. Cardinality(K)
      /\ \A n \in K : PlaceOf(K, n) \in DOMAIN R /\ R[PlaceOf(K, n)] = W[n]
      /\ \A k \in DOMAIN R : \E n \in K : k = PlaceOf(K, n)
      /\ \A m, n \in K : PlaceOf(K, m) = PlaceOf(K, n) => m = n
      /\ \A m, n \in K : m < n <=> PlaceOf(K, m) < PlaceOf(K, n)
    <2>1. R = ListAt(W, K) /\ K \in SUBSET DOMAIN W /\ IsList(W)
        BY <1>1, <1>2
    <2> HIDE DEF R
    <2>2. /\ IsList(R) /\ Len(R) = Cardinality(K) /\ DOMAIN R = 1 .. Cardinality(K)
          /\ \A n \in K : PlaceOf(K, n) \in DOMAIN R /\ R[PlaceOf(K, n)] = W[n]
          /\ \A k \in DOMAIN R : \E n \in K : k = PlaceOf(K, n) /\ R[k] = W[n]
          /\ \A m, n \in K : PlaceOf(K, m) = PlaceOf(K, n) => m = n
          /\ \A m, n \in K : m < n <=> PlaceOf(K, m) < PlaceOf(K, n)
        BY <2>1, ListAtKeeps
    <2> QED BY <2>2, Zenon
<1>5. /\ IsList(A) /\ Len(A) = Len(added) /\ DOMAIN A = DOMAIN added
      /\ \A i \in DOMAIN added : A[i] = NewRecord(mtNext + i - 1, added[i])
    <2>1. A = [i \in DOMAIN added |-> A[i]]
        OBVIOUS
    <2>2. \A i \in DOMAIN added : A[i] = NewRecord(mtNext + i - 1, added[i])
        OBVIOUS
    <2> HIDE DEF A
    <2> QED BY <2>1, <2>2, ListSame
<1> HIDE DEF R, A
<1>6. /\ IsList(new) /\ Len(new) = Len(R) + Len(A) /\ DOMAIN new = 1 .. (Len(R) + Len(A))
      /\ \A i \in DOMAIN R : i \in DOMAIN new /\ new[i] = R[i]
      /\ \A i \in DOMAIN A : Len(R) + i \in DOMAIN new /\ new[Len(R) + i] = A[i]
      /\ \A k \in DOMAIN new : k \in DOMAIN R \/ \E i \in DOMAIN A : k = Len(R) + i
    <2>1. IsList(R) /\ IsList(A) /\ new = Joined(R, A)
        BY <1>3, <1>4, <1>5, Zenon DEF Joined
    <2> QED BY <2>1, JoinedLists
<1>7. Cardinality(K) \in Nat /\ Len(added) \in Nat
    BY <1>4, <1>5, ListShape
<1>8. \A n \in K : PlaceOf(K, n) \in DOMAIN new /\ new[PlaceOf(K, n)] = W[n]
    BY <1>4, <1>6
<1>9. \A i \in DOMAIN added : new[Cardinality(K) + i] = NewRecord(mtNext + i - 1, added[i])
    BY <1>4, <1>5, <1>6
<1>10. \A k \in DOMAIN new : \/ \E n \in K : k = PlaceOf(K, n)
                             \/ \E i \in DOMAIN added : k = Cardinality(K) + i
    BY <1>4, <1>5, <1>6
<1> QED BY <1>4, <1>5, <1>6, <1>7, <1>8, <1>9, <1>10

LEMMA NewRecordIs ==
    ASSUME NEW id \in Nat \ {0}, NEW fields, NEW v, v = [f \in fields |-> v[f]]
    PROVE  IsRecord(NewRecord(id, v), fields) /\ NewRecord(id, v).id = id
<1>1. DOMAIN v = fields
    OBVIOUS
<1> QED BY <1>1 DEF IsRecord, NewRecord

(* After an edit each record has an id of its own; those that are left     *)
(* have the id they had.                                                   *)
LEMMA EditedFit ==
    ASSUME RecordsRule, NEW changes, NEW deleted, NEW added, IsList(added),
           \A i \in DOMAIN added : added[i] = [f \in FieldsOf(mtFields) |-> added[i][f]],
           NEW new, new = Edited(changes, deleted, added)
    PROVE  /\ IsList(new) /\ mtNext + Len(added) \in Nat
           /\ \A k \in DOMAIN new : IsRecord(new[k], FieldsOf(mtFields)) /\ new[k].id < mtNext + Len(added)
           /\ OwnIds(new)
           /\ \A n \in Left(deleted) : /\ mtRows[n].id \in IdsOf(new)
                                       /\ ById(new, mtRows[n].id) = Changed(changes, deleted)[n]
           /\ \A n \in DOMAIN mtRows : mtRows[n].id \in IdsOf(new) => n \in Left(deleted)
<1> DEFINE K == Left(deleted)
           W == Changed(changes, deleted)
<1>1. /\ IsList(new) /\ DOMAIN new = 1 .. Len(new) /\ Cardinality(K) \in Nat /\ Len(added) \in Nat
      /\ \A n \in K : PlaceOf(K, n) \in DOMAIN new /\ new[PlaceOf(K, n)] = W[n]
      /\ \A i \in DOMAIN added : new[Cardinality(K) + i] = NewRecord(mtNext + i - 1, added[i])
      /\ \A k \in DOMAIN new : \/ \E n \in K : k = PlaceOf(K, n)
                               \/ \E i \in DOMAIN added : k = Cardinality(K) + i
    <2>1. K = Left(deleted) /\ W = Changed(changes, deleted)
        OBVIOUS
    <2> HIDE DEF K, W
    <2> QED BY <2>1, EditedRows
<1>2. \A n \in DOMAIN mtRows : W[n].id = mtRows[n].id /\ IsRecord(W[n], FieldsOf(mtFields))
    BY RewrittenRows DEF Changed
<1>3. K \subseteq DOMAIN mtRows
    BY DEF Left
<1> HIDE DEF K, W
<1>4. /\ mtNext \in Nat \ {0} /\ OwnIds(mtRows)
      /\ \A n \in DOMAIN mtRows : mtRows[n].id < mtNext /\ mtRows[n].id \in Nat \ {0}
    BY DEF RecordsRule, RowsFit, OwnIds, IsRecord
<1>5. DOMAIN added = 1 .. Len(added)
    BY ListShape
<1>6. ASSUME NEW i \in DOMAIN added
      PROVE  /\ mtNext + i - 1 \in Nat /\ mtNext <= mtNext + i - 1 /\ mtNext + i - 1 < mtNext + Len(added)
             /\ IsRecord(new[Cardinality(K) + i], FieldsOf(mtFields)) /\ new[Cardinality(K) + i].id = mtNext + i - 1
    <2>1. mtNext + i - 1 \in Nat /\ mtNext <= mtNext + i - 1 /\ mtNext + i - 1 < mtNext + Len(added)
        BY <1>1, <1>4, <1>5
    <2>2. mtNext + i - 1 \in Nat \ {0}
        BY <1>1, <1>4, <1>5
    <2> QED BY <1>1, <2>1, <2>2, NewRecordIs
<1>7. ASSUME NEW n \in K
      PROVE  /\ PlaceOf(K, n) \in DOMAIN new /\ new[PlaceOf(K, n)] = W[n] /\ W[n].id = mtRows[n].id
             /\ IsRecord(W[n], FieldsOf(mtFields)) /\ W[n].id < mtNext
    BY <1>1, <1>2, <1>3, <1>4
<1>8. ASSUME NEW k \in DOMAIN new
      PROVE  IsRecord(new[k], FieldsOf(mtFields)) /\ new[k].id < mtNext + Len(added)
    <2>1. CASE \E n \in K : k = PlaceOf(K, n)
        <3>1. PICK n \in K : k = PlaceOf(K, n)
            BY <2>1
        <3>2. W[n].id < mtNext + Len(added)
            <4>1. W[n].id \in Nat /\ W[n].id < mtNext
                BY <1>7, <1>2, <1>3, <1>4
            <4> QED BY <4>1, <1>1, <1>4
        <3> QED BY <1>7, <3>1, <3>2
    <2>2. CASE \E i \in DOMAIN added : k = Cardinality(K) + i
        <3>1. PICK i \in DOMAIN added : k = Cardinality(K) + i
            BY <2>2
        <3> QED BY <1>6, <3>1
    <2> QED BY <1>1, <2>1, <2>2
<1>9. OwnIds(new)
    <2> SUFFICES ASSUME NEW k \in DOMAIN new, NEW l \in DOMAIN new, new[k].id = new[l].id
                 PROVE  k = l
        BY DEF OwnIds
    <2>1. \A n \in K, i \in DOMAIN added : new[PlaceOf(K, n)].id # new[Cardinality(K) + i].id
        <3> SUFFICES ASSUME NEW n \in K, NEW i \in DOMAIN added
                     PROVE  new[PlaceOf(K, n)].id # new[Cardinality(K) + i].id
            OBVIOUS
        <3>1. /\ new[PlaceOf(K, n)].id \in Nat /\ new[PlaceOf(K, n)].id < mtNext
              /\ new[Cardinality(K) + i].id \in Nat /\ mtNext <= new[Cardinality(K) + i].id
            BY <1>6, <1>7, <1>2, <1>3, <1>4
        <3> QED BY <3>1, <1>4
    <2>2. ASSUME NEW m \in K, NEW n \in K, k = PlaceOf(K, m), l = PlaceOf(K, n) PROVE k = l
        <3>1. mtRows[m].id = mtRows[n].id
            BY <1>7, <2>2
        <3>2. m = n
            BY <1>3, <1>4, <3>1 DEF OwnIds
        <3> QED BY <2>2, <3>2
    <2>3. ASSUME NEW i \in DOMAIN added, NEW j \in DOMAIN added, k = Cardinality(K) + i, l = Cardinality(K) + j
          PROVE  k = l
        <3>1. mtNext + i - 1 = mtNext + j - 1
            BY <1>6, <2>3
        <3>2. i \in Int /\ j \in Int /\ mtNext \in Int
            BY <1>1, <1>4, <1>5
        <3>3. i = j
            BY <3>1, <3>2
        <3> QED BY <2>3, <3>3
    <2> QED BY <1>1, <2>1, <2>2, <2>3
<1>10. ASSUME NEW n \in K PROVE mtRows[n].id \in IdsOf(new) /\ ById(new, mtRows[n].id) = W[n]
    <2>1. PlaceOf(K, n) \in DOMAIN new /\ new[PlaceOf(K, n)] = W[n] /\ new[PlaceOf(K, n)].id = mtRows[n].id
        BY <1>7
    <2>2. new[PlaceOf(K, n)].id \in IdsOf(new) /\ ById(new, new[PlaceOf(K, n)].id) = new[PlaceOf(K, n)]
        BY <1>9, <2>1, FoundById
    <2> QED BY <2>1, <2>2
<1>11. ASSUME NEW n \in DOMAIN mtRows, mtRows[n].id \in IdsOf(new) PROVE n \in K
    <2>1. PICK k \in DOMAIN new : new[k].id = mtRows[n].id
        BY <1>11 DEF IdsOf
    <2>2. CASE \E m \in K : k = PlaceOf(K, m)
        <3>1. PICK m \in K : k = PlaceOf(K, m)
            BY <2>2
        <3>2. mtRows[m].id = mtRows[n].id /\ m \in DOMAIN mtRows
            BY <1>3, <1>7, <2>1, <3>1
        <3>3. m = n
            BY <1>4, <3>2 DEF OwnIds
        <3> QED BY <3>3
    <2>3. CASE \E i \in DOMAIN added : k = Cardinality(K) + i
        <3>1. PICK i \in DOMAIN added : k = Cardinality(K) + i
            BY <2>3
        <3>2. mtRows[n].id \in Nat /\ mtRows[n].id < mtNext /\ mtNext <= mtRows[n].id
            BY <1>4, <1>6, <2>1, <3>1
        <3> QED BY <1>4, <3>2
    <2> QED BY <1>1, <2>2, <2>3
<1>12. mtNext + Len(added) \in Nat
    BY <1>1, <1>4
<1> QED BY <1>1, <1>8, <1>9, <1>10, <1>11, <1>12 DEF K, W

LEMMA Extended ==
    ASSUME NEW s, IsList(s), NEW x
    PROVE  IsList(Append(s, x))
<1> PICK t : t = Append(s, x)
    OBVIOUS
<1>1. Len(s) \in Nat /\ Len(s) + 1 \in Nat
    BY ListShape
<1> DEFINE T == Range(s) \cup {x}
<1>2. s \in Seq(T) /\ x \in T
    <2>1. s \in Seq(Range(s)) /\ Range(s) \subseteq T /\ x \in T
        BY DEF IsList
    <2> HIDE DEF T
    <2> QED BY <2>1
<1> HIDE DEF T
<1>3. t \in Seq(T) /\ Len(t) = Len(s) + 1
    BY <1>2
<1>4. t = [i \in 1 .. (Len(s) + 1) |-> t[i]]
    <2>1. \A y \in Seq(T) : y = [i \in 1 .. Len(y) |-> y[i]]
        OBVIOUS
    <2>2. t = [i \in 1 .. Len(t) |-> t[i]]
        BY <1>3, <2>1
    <2> QED BY <1>3, <2>2
<1>5. IsList(t)
    BY <1>1, <1>4, ListOf
<1> QED BY <1>5

LEMMA Cut ==
    ASSUME NEW s, IsList(s), NEW K \in SUBSET DOMAIN s
    PROVE  IsList(ListAt(s, K))
<1> PICK t : t = ListAt(s, K)
    OBVIOUS
<1>1. IsList(t)
    BY ListAtKeeps
<1> QED BY <1>1

LEMMA Without ==
    ASSUME NEW s, IsList(s), NEW n
    PROVE  IsList(WithoutRow(s, n))
<1>1. DOMAIN s \ {n} \in SUBSET DOMAIN s
    OBVIOUS
<1> QED BY <1>1, Cut DEF WithoutRow

LEMMA AlsoList ==
    ASSUME NEW s, IsList(s), NEW t, t = [i \in DOMAIN s |-> t[i]]
    PROVE  IsList(t)
BY ListSame

(* The tasks there may be have records that fit.                           *)
LEMMA ReturnInvInit == MtInit => ReturnInv
<1> SUFFICES ASSUME MtInit PROVE ReturnInv
    OBVIOUS
<1>1. PICK task \in MaintenanceTasks : mtFields = task.fields /\ mtRows = task.rows
    BY DEF MtInit
<1>2. /\ mtRev = 1 /\ mtNext = 1 + Len(mtRows) /\ mtFile = NoFile /\ mtNewer = {}
      /\ mtStep = "none"
    BY DEF MtInit
<1>3. /\ mtFields \in Seq(Nat \ {0}) /\ mtRows \in Seq(Range(mtRows))
      /\ \A n \in DOMAIN mtRows : IsRecord(mtRows[n], Range(mtFields)) /\ mtRows[n].id <= Len(mtRows)
      /\ \A m, n \in DOMAIN mtRows : mtRows[m].id = mtRows[n].id => m = n
    BY <1>1, MaintenanceReturnsAssumption
<1>4. IsList(mtRows) /\ Len(mtRows) \in Nat
    BY <1>3, ListShape DEF IsList
<1>5. IsList(mtFields)
    <2>1. Len(mtFields) \in Nat /\ mtFields = [i \in 1 .. Len(mtFields) |-> mtFields[i]]
        BY <1>3
    <2> QED BY <2>1, ListOf
<1>6. \A n \in DOMAIN mtRows : mtRows[n].id \in Nat /\ mtRows[n].id < mtNext
    <2>1. \A n \in DOMAIN mtRows : mtRows[n].id \in Nat /\ mtRows[n].id <= Len(mtRows)
        BY <1>3 DEF IsRecord
    <2> QED BY <1>2, <1>4, <2>1
<1>7. RecordsRule
    <2>1. mtRev \in Nat /\ mtNext \in Nat \ {0}
        BY <1>2, <1>4
    <2> QED BY <1>3, <1>4, <1>5, <1>6, <2>1 DEF RecordsRule, RowsFit, OwnIds, FieldsOf
<1>8. FileRule /\ DocumentRule /\ StagedRule
    BY <1>2 DEF FileRule, DocumentRule, StagedRule
<1> QED BY <1>7, <1>8 DEF ReturnInv

(* An edit leaves records that fit, of the next revision; what was staged  *)
(* of the one before does not count.                                       *)
LEMMA EditKeeps ==
    ASSUME ReturnInv, NEW changes, NEW deleted, NEW added, IsList(added),
           \A i \in DOMAIN added : added[i] = [f \in FieldsOf(mtFields) |-> added[i][f]],
           Saved(Edited(changes, deleted, added), Len(added)), mtFields' = mtFields
    PROVE  /\ RecordsRule'
           /\ mtRev' = mtRev + 1
<1>1. RecordsRule
    BY DEF ReturnInv
<1> PICK new : new = Edited(changes, deleted, added)
    OBVIOUS
<1>2. /\ IsList(new) /\ mtNext + Len(added) \in Nat
      /\ \A k \in DOMAIN new : IsRecord(new[k], FieldsOf(mtFields)) /\ new[k].id < mtNext + Len(added)
      /\ OwnIds(new)
    BY <1>1, EditedFit
<1>3. mtRows' = new /\ mtRev' = mtRev + 1 /\ mtNext' = mtNext + Len(added)
    BY DEF Saved
<1>4. mtRev \in Nat /\ mtNext \in Nat \ {0} /\ IsList(mtFields) /\ Len(added) \in Nat
    BY <1>1, ListShape DEF RecordsRule, RowsFit
<1>5. mtRev' \in Nat /\ mtNext' \in Nat \ {0}
    BY <1>3, <1>4
<1> QED BY <1>2, <1>3, <1>4, <1>5 DEF RecordsRule, RowsFit, OwnIds, FieldsOf

LEMMA EditInv ==
    ASSUME ReturnInv, NEW changes, NEW deleted, NEW added, IsList(added),
           \A i \in DOMAIN added : added[i] = [f \in FieldsOf(mtFields) |-> added[i][f]],
           Edit(changes, deleted, added)
    PROVE  ReturnInv'
<1>1. /\ Saved(Edited(changes, deleted, added), Len(added))
      /\ mtNewer' = IF mtFile = NoFile THEN {} ELSE mtNewer \cup ChangedCells(mtRows, mtRows')
      /\ UNCHANGED <<mtFields, mtFile, mtStep, mtDocument, mtBase, mtStaged>>
    BY DEF Edit
<1>2. RecordsRule' /\ mtRev' = mtRev + 1
    BY <1>1, EditKeeps
<1>3. mtRev \in Nat
    BY DEF ReturnInv, RecordsRule
<1>4. FileRule'
    <2>1. mtFile # NoFile => IsFile(mtFile) /\ mtFile.rev <= mtRev /\ mtFile.rev \in Nat
        BY DEF ReturnInv, FileRule, IsFile
    <2>2. mtFile # NoFile => IsFile(mtFile) /\ mtFile.rev <= mtRev' /\ mtFile.rev < mtRev'
        BY <1>2, <1>3, <2>1
    <2> QED BY <1>1, <2>2 DEF FileRule, IsFile
<1>5. DocumentRule'
    BY <1>1 DEF ReturnInv, DocumentRule, IsList, FieldsOf
<1>6. StagedRule'
    <2>1. mtStep # "none" => mtBase \in Nat /\ mtBase <= mtRev
        BY DEF ReturnInv, StagedRule
    <2>2. mtStep # "none" => mtBase \in Nat /\ mtBase <= mtRev' /\ mtRev' # mtBase
        BY <1>2, <1>3, <2>1
    <2> QED BY <1>1, <2>2 DEF StagedRule
<1> QED BY <1>2, <1>4, <1>5, <1>6 DEF ReturnInv

(* A file changed in Excel says the revision it was made of.               *)
Kept(g, file) == IsFile(g) /\ g.rev = file.rev

LEMMA AllKept ==
    ASSUME NEW file, IsFile(file), NEW g, DOMAIN g = DOMAIN file, g.rev = file.rev,
           IsList(g.rows), IsList(g.cols)
    PROVE  Kept(g, file)
BY DEF Kept, IsFile

LEMMA WithCellKept ==
    ASSUME NEW file, IsFile(file), NEW n, NEW c, NEW v
    PROVE  Kept(WithCell(file, n, c, v), file)
<1> PICK g : g = WithCell(file, n, c, v)
    OBVIOUS
<1>0. IsList(file.rows) /\ IsList(file.cols) /\ {"rev", "rows", "cols"} \subseteq DOMAIN file
    BY DEF IsFile
<1>1. /\ DOMAIN g = DOMAIN file /\ g.rev = file.rev
      /\ g.rows = [place \in DOMAIN file.rows |-> g.rows[place]] /\ g.cols = file.cols
    BY <1>0 DEF WithCell
<1>2. IsList(g.rows)
    BY <1>0, <1>1, AlsoList
<1>3. IsList(g.cols)
    BY <1>0, <1>1
<1> QED BY <1>0, <1>1, <1>2, <1>3, AllKept

LEMMA WithRowsKept ==
    ASSUME NEW file, IsFile(file), NEW rows, IsList(rows)
    PROVE  Kept(WithRows(file, rows), file)
<1> PICK g : g = WithRows(file, rows)
    OBVIOUS
<1>0. IsList(file.rows) /\ IsList(file.cols) /\ {"rev", "rows", "cols"} \subseteq DOMAIN file
    BY DEF IsFile
<1>1. /\ DOMAIN g = DOMAIN file /\ g.rev = file.rev
      /\ g.rows = rows /\ g.cols = file.cols
    BY <1>0 DEF WithRows
<1>2. IsList(g.rows)
    BY <1>0, <1>1
<1>3. IsList(g.cols)
    BY <1>0, <1>1
<1> QED BY <1>0, <1>1, <1>2, <1>3, AllKept

LEMMA WithoutIdKept ==
    ASSUME NEW file, IsFile(file), NEW m
    PROVE  Kept(WithoutId(file, m), file)
<1> PICK g : g = WithoutId(file, m)
    OBVIOUS
<1>0. IsList(file.rows) /\ IsList(file.cols) /\ {"rev", "rows", "cols"} \subseteq DOMAIN file
    BY DEF IsFile
<1>1. /\ DOMAIN g = DOMAIN file /\ g.rev = file.rev
      /\ g.rows = [place \in DOMAIN file.rows |-> g.rows[place]] /\ g.cols = file.cols
    BY <1>0 DEF WithoutId
<1>2. IsList(g.rows)
    BY <1>0, <1>1, AlsoList
<1>3. IsList(g.cols)
    BY <1>0, <1>1
<1> QED BY <1>0, <1>1, <1>2, <1>3, AllKept

LEMMA CellsExchangedKept ==
    ASSUME NEW file, IsFile(file), NEW i, NEW j
    PROVE  Kept(CellsExchanged(file, i, j), file)
<1> PICK g : g = CellsExchanged(file, i, j)
    OBVIOUS
<1>0. IsList(file.rows) /\ IsList(file.cols) /\ {"rev", "rows", "cols"} \subseteq DOMAIN file
    BY DEF IsFile
<1>1. /\ DOMAIN g = DOMAIN file /\ g.rev = file.rev
      /\ g.rows = [place \in DOMAIN file.rows |-> g.rows[place]] /\ g.cols = file.cols
    BY <1>0 DEF CellsExchanged
<1>2. IsList(g.rows)
    BY <1>0, <1>1, AlsoList
<1>3. IsList(g.cols)
    BY <1>0, <1>1
<1> QED BY <1>0, <1>1, <1>2, <1>3, AllKept

LEMMA WithoutIdsKept ==
    ASSUME NEW file, IsFile(file)
    PROVE  Kept(WithoutIds(file), file)
<1> PICK g : g = WithoutIds(file)
    OBVIOUS
<1>0. IsList(file.rows) /\ IsList(file.cols) /\ {"rev", "rows", "cols"} \subseteq DOMAIN file
    BY DEF IsFile
<1>1. /\ DOMAIN g = DOMAIN file /\ g.rev = file.rev
      /\ g.rows = [place \in DOMAIN file.rows |-> g.rows[place]] /\ g.cols = file.cols
    BY <1>0 DEF WithoutIds
<1>2. IsList(g.rows)
    BY <1>0, <1>1, AlsoList
<1>3. IsList(g.cols)
    BY <1>0, <1>1
<1> QED BY <1>0, <1>1, <1>2, <1>3, AllKept

LEMMA WithoutColumnKept ==
    ASSUME NEW file, IsFile(file), NEW c
    PROVE  Kept(WithoutColumn(file, c), file)
<1> PICK g : g = WithoutColumn(file, c)
    OBVIOUS
<1>0. IsList(file.rows) /\ IsList(file.cols) /\ {"rev", "rows", "cols"} \subseteq DOMAIN file
    BY DEF IsFile
<1>1. /\ DOMAIN g = DOMAIN file /\ g.rev = file.rev
      /\ g.rows = [place \in DOMAIN file.rows |-> g.rows[place]] /\ g.cols = WithoutRow(file.cols, c)
    BY <1>0 DEF WithoutColumn
<1>2. IsList(g.rows)
    BY <1>0, <1>1, AlsoList
<1>3. IsList(g.cols)
    BY <1>0, <1>1, Without
<1> QED BY <1>0, <1>1, <1>2, <1>3, AllKept

LEMMA WithColumnKept ==
    ASSUME NEW file, IsFile(file), NEW w, NEW v
    PROVE  Kept(WithColumn(file, w, v), file)
<1> PICK g : g = WithColumn(file, w, v)
    OBVIOUS
<1>0. IsList(file.rows) /\ IsList(file.cols) /\ {"rev", "rows", "cols"} \subseteq DOMAIN file
    BY DEF IsFile
<1>1. /\ DOMAIN g = DOMAIN file /\ g.rev = file.rev
      /\ g.rows = [place \in DOMAIN file.rows |-> g.rows[place]] /\ \E col : g.cols = Append(file.cols, col)
    BY <1>0 DEF WithColumn
<1>2. IsList(g.rows)
    BY <1>0, <1>1, AlsoList
<1>3. IsList(g.cols)
    BY <1>0, <1>1, Extended
<1> QED BY <1>0, <1>1, <1>2, <1>3, AllKept

LEMMA WithoutAnchorKept ==
    ASSUME NEW file, IsFile(file), NEW c
    PROVE  Kept(WithoutAnchor(file, c), file)
<1> PICK g : g = WithoutAnchor(file, c)
    OBVIOUS
<1>0. IsList(file.rows) /\ IsList(file.cols) /\ {"rev", "rows", "cols"} \subseteq DOMAIN file
    BY DEF IsFile
<1>1. /\ DOMAIN g = DOMAIN file /\ g.rev = file.rev
      /\ g.rows = file.rows /\ g.cols = [k \in DOMAIN file.cols |-> g.cols[k]]
    BY <1>0 DEF WithoutAnchor
<1>2. IsList(g.rows)
    BY <1>0, <1>1
<1>3. IsList(g.cols)
    BY <1>0, <1>1, AlsoList
<1> QED BY <1>0, <1>1, <1>2, <1>3, AllKept

LEMMA WithoutWordKept ==
    ASSUME NEW file, IsFile(file), NEW c
    PROVE  Kept(WithoutWord(file, c), file)
<1> PICK g : g = WithoutWord(file, c)
    OBVIOUS
<1>0. IsList(file.rows) /\ IsList(file.cols) /\ {"rev", "rows", "cols"} \subseteq DOMAIN file
    BY DEF IsFile
<1>1. /\ DOMAIN g = DOMAIN file /\ g.rev = file.rev
      /\ g.rows = file.rows /\ g.cols = [k \in DOMAIN file.cols |-> g.cols[k]]
    BY <1>0 DEF WithoutWord
<1>2. IsList(g.rows)
    BY <1>0, <1>1
<1>3. IsList(g.cols)
    BY <1>0, <1>1, AlsoList
<1> QED BY <1>0, <1>1, <1>2, <1>3, AllKept

LEMMA UnmergedKept ==
    ASSUME NEW file, IsFile(file), NEW m
    PROVE  Kept(Unmerged(file, m), file)
<1> PICK g : g = Unmerged(file, m)
    OBVIOUS
<1>0. IsList(file.rows) /\ IsList(file.cols) /\ {"rev", "rows", "cols"} \subseteq DOMAIN file
    BY DEF IsFile
<1>1. /\ DOMAIN g = DOMAIN file /\ g.rev = file.rev
      /\ g.rows = file.rows /\ g.cols = file.cols
    BY <1>0 DEF Unmerged
<1>2. IsList(g.rows)
    BY <1>0, <1>1
<1>3. IsList(g.cols)
    BY <1>0, <1>1
<1> QED BY <1>0, <1>1, <1>2, <1>3, AllKept

LEMMA UnmergedFilledKept ==
    ASSUME NEW file, IsFile(file), NEW m
    PROVE  Kept(UnmergedFilled(file, m), file)
<1> PICK g : g = UnmergedFilled(file, m)
    OBVIOUS
<1>0. IsList(file.rows) /\ IsList(file.cols) /\ {"rev", "rows", "cols"} \subseteq DOMAIN file
    BY DEF IsFile
<1>1. /\ DOMAIN g = DOMAIN file /\ g.rev = file.rev
      /\ g.rows = [place \in DOMAIN file.rows |-> g.rows[place]] /\ g.cols = file.cols
    BY <1>0 DEF UnmergedFilled, Unmerged
<1>2. IsList(g.rows)
    BY <1>0, <1>1, AlsoList
<1>3. IsList(g.cols)
    BY <1>0, <1>1
<1> QED BY <1>0, <1>1, <1>2, <1>3, AllKept

LEMMA MergedCellsKept ==
    ASSUME NEW file, IsFile(file), NEW c, NEW n
    PROVE  Kept(MergedCells(file, c, n), file)
<1> PICK g : g = MergedCells(file, c, n)
    OBVIOUS
<1>0. IsList(file.rows) /\ IsList(file.cols) /\ {"rev", "rows", "cols"} \subseteq DOMAIN file
    BY DEF IsFile
<1>1. /\ DOMAIN g = DOMAIN file /\ g.rev = file.rev
      /\ g.rows = [k \in DOMAIN file.rows |-> g.rows[k]] /\ g.cols = file.cols
    BY <1>0 DEF MergedCells
<1>2. IsList(g.rows)
    BY <1>0, <1>1, AlsoList
<1>3. IsList(g.cols)
    BY <1>0, <1>1
<1> QED BY <1>0, <1>1, <1>2, <1>3, AllKept

LEMMA SwappedList ==
    ASSUME NEW s, IsList(s), NEW i, NEW j
    PROVE  IsList(Swapped(s, i, j))
<1> PICK t : t = Swapped(s, i, j)
    OBVIOUS
<1>1. t = [k \in DOMAIN s |-> t[k]]
    BY DEF Swapped
<1> QED BY <1>1, AlsoList

LEMMA ChangedRowsKept ==
    ASSUME NEW file, IsFile(file), NEW g \in ChangedRows(file)
    PROVE  Kept(g, file)
<1>1. IsList(file.rows)
    BY DEF IsFile
<1>2. \/ \E n, c, v : g = WithCell(file, n, c, v)
      \/ \E n : g = WithRows(file, WithoutRow(file.rows, n))
      \/ \E r : g = WithRows(file, Append(file.rows, r))
      \/ \E i, j : g = WithRows(file, Swapped(file.rows, i, j))
      \/ \E i, j : g = CellsExchanged(file, i, j)
      \/ \E n : g = WithoutId(file, n)
    BY DEF ChangedRows
<1>3. \A n : IsList(WithoutRow(file.rows, n))
    BY <1>1, Without
<1>4. \A r : IsList(Append(file.rows, r))
    BY <1>1, Extended
<1>5. \A i, j : IsList(Swapped(file.rows, i, j))
    BY <1>1, SwappedList
<1> QED BY <1>2, <1>3, <1>4, <1>5, WithCellKept, WithRowsKept, CellsExchangedKept, WithoutIdKept, Zenon

LEMMA ChangedColumnsKept ==
    ASSUME NEW file, IsFile(file), NEW g \in ChangedColumns(file)
    PROVE  Kept(g, file)
<1>1. \/ g = WithoutIds(file)
      \/ \E c : g = WithoutColumn(file, c)
      \/ \E w, v : g = WithColumn(file, w, v)
      \/ \E c : g = WithoutAnchor(file, c)
      \/ \E c : g = WithoutWord(file, c)
      \/ \E m : g = Unmerged(file, m)
      \/ \E m : g = UnmergedFilled(file, m)
      \/ \E c, n : g = MergedCells(file, c, n)
    BY DEF ChangedColumns
<1> QED BY <1>1, WithoutIdsKept, WithoutColumnKept, WithColumnKept, WithoutAnchorKept, WithoutWordKept,
           UnmergedKept, UnmergedFilledKept, MergedCellsKept, Zenon

LEMMA WrittenFile ==
    ASSUME RecordsRule
    PROVE  IsFile(Written(mtFields, mtRows, mtRev)) /\ Written(mtFields, mtRows, mtRev).rev = mtRev
<1> PICK g : g = Written(mtFields, mtRows, mtRev)
    OBVIOUS
<1>1. /\ {"rev", "rows", "cols"} \subseteq DOMAIN g /\ g.rev = mtRev
      /\ g.rows = [n \in DOMAIN mtRows |-> g.rows[n]]
      /\ g.cols = [c \in DOMAIN mtFields |-> g.cols[c]]
    BY DEF Written
<1>2. IsList(mtRows) /\ IsList(mtFields) /\ mtRev \in Nat
    BY DEF RecordsRule, RowsFit
<1>3. IsList(g.rows) /\ IsList(g.cols)
    BY <1>1, <1>2, AlsoList
<1> QED BY <1>1, <1>2, <1>3 DEF IsFile

LEMMA DownloadInv == ReturnInv /\ Download => ReturnInv'
<1> SUFFICES ASSUME ReturnInv, Download PROVE ReturnInv'
    OBVIOUS
<1>1. /\ mtStep = "none" /\ mtFile' = Written(mtFields, mtRows, mtRev) /\ mtNewer' = {}
      /\ UNCHANGED <<mtFields, mtRows, mtRev, mtNext, mtStep, mtDocument, mtBase, mtStaged>>
    BY DEF Download
<1>2. RecordsRule /\ mtRev \in Nat
    BY DEF ReturnInv, RecordsRule
<1>3. RecordsRule'
    BY <1>1, <1>2 DEF RecordsRule, RowsFit, OwnIds, IsList, FieldsOf
<1>4. IsFile(mtFile') /\ mtFile'.rev = mtRev
    BY <1>1, <1>2, WrittenFile
<1>5. FileRule'
    <2>1. IsFile(mtFile)'
        BY <1>4 DEF IsFile, IsList
    <2>2. mtFile'.rev <= mtRev'
        BY <1>1, <1>2, <1>4
    <2> QED BY <1>1, <2>1, <2>2 DEF FileRule
<1>6. DocumentRule' /\ StagedRule'
    BY <1>1 DEF DocumentRule, StagedRule
<1> QED BY <1>3, <1>5, <1>6 DEF ReturnInv

LEMMA ChangeFileInv == ReturnInv /\ ChangeFile => ReturnInv'
<1> SUFFICES ASSUME ReturnInv, ChangeFile PROVE ReturnInv'
    OBVIOUS
<1>1. /\ mtStep = "none" /\ mtFile # NoFile
      /\ mtFile' \in ChangedRows(mtFile) \/ mtFile' \in ChangedColumns(mtFile)
      /\ UNCHANGED <<mtFields, mtRows, mtRev, mtNext, mtNewer, mtStep, mtDocument, mtBase, mtStaged>>
    BY DEF ChangeFile
<1>2. RecordsRule'
    BY <1>1 DEF ReturnInv, RecordsRule, RowsFit, OwnIds, IsList, FieldsOf
<1>3. IsFile(mtFile) /\ mtFile.rev <= mtRev /\ (mtNewer # {} => mtFile.rev < mtRev)
    BY <1>1 DEF ReturnInv, FileRule
<1>4. Kept(mtFile', mtFile)
    BY <1>1, <1>3, ChangedRowsKept, ChangedColumnsKept
<1>5. FileRule'
    <2>1. IsFile(mtFile') /\ mtFile'.rev = mtFile.rev
        BY <1>4 DEF Kept
    <2>2. IsFile(mtFile)'
        BY <2>1 DEF IsFile, IsList
    <2>3. NoFile = [rev |-> -1] /\ mtFile' # NoFile
        <3>1. mtFile'.rev \in Nat
            BY <2>1 DEF IsFile
        <3>2. NoFile.rev = -1
            BY DEF NoFile
        <3>3. mtFile' # NoFile
            BY <3>1, <3>2
        <3> QED BY <3>3 DEF NoFile
    <2> QED BY <1>1, <1>3, <2>1, <2>2, <2>3 DEF FileRule, NoFile
<1>6. DocumentRule' /\ StagedRule'
    BY <1>1 DEF DocumentRule, StagedRule
<1> QED BY <1>2, <1>5, <1>6 DEF ReturnInv

(* What is read of a file is a list of rows.                               *)
LEMMA FilledList ==
    ASSUME NEW file, IsFile(file)
    PROVE  IsList(FilledRows(file))
<1> DEFINE read == [n \in DOMAIN file.rows |->
                      [id |-> file.rows[n].id, of |-> file.rows[n].of, at |-> n,
                       cells |-> [c \in DOMAIN file.cols |-> CellAt(file, n, c)],
                       groups |-> [c \in DOMAIN file.cols |-> RangeOf(file, n, c)]]]
           places == {n \in DOMAIN read :
                        read[n].id # 0 \/ \E c \in DOMAIN read[n].cells : read[n].cells[c] # NoText}
<1>1. FilledRows(file) = ListAt(read, places)
    BY DEF FilledRows
<1>2. read = [n \in DOMAIN file.rows |-> read[n]] /\ places \in SUBSET DOMAIN read
    OBVIOUS
<1>3. IsList(file.rows)
    BY DEF IsFile
<1> HIDE DEF read, places
<1>4. IsList(read)
    BY <1>2, <1>3, AlsoList
<1> QED BY <1>1, <1>2, <1>4, Cut

LEMMA InspectInv == ReturnInv /\ InspectReturn => ReturnInv'
<1> SUFFICES ASSUME ReturnInv, InspectReturn PROVE ReturnInv'
    OBVIOUS
<1>1. /\ mtStep = "none" /\ mtFile # NoFile /\ mtStep' = "structure" /\ mtBase' = mtRev
      /\ mtDocument' = Inspected(mtFile)
      /\ UNCHANGED <<mtFields, mtRows, mtRev, mtNext, mtFile, mtNewer>>
    BY DEF InspectReturn, Upload
<1>2. RecordsRule' /\ mtRev \in Nat
    BY <1>1 DEF ReturnInv, RecordsRule, RowsFit, OwnIds, IsList, FieldsOf
<1>3. FileRule' /\ IsFile(mtFile)
    BY <1>1 DEF ReturnInv, FileRule, IsFile, IsList
<1>4. /\ mtDocument'.stale = (mtFile.rev < mtRev) /\ mtDocument'.rows = FilledRows(mtFile)
      /\ mtDocument'.fields = [c \in DOMAIN mtFile.cols |-> ColumnField(mtFile.cols[c], mtFields)]
    BY <1>1 DEF Inspected, Stale
<1>5. IsList(mtDocument'.rows)
    BY <1>3, <1>4, FilledList
<1>6. IsList(mtDocument'.fields)
    <2>1. IsList(mtFile.cols)
        BY <1>3 DEF IsFile
    <2>2. mtDocument'.fields = [c \in DOMAIN mtFile.cols |-> mtDocument'.fields[c]]
        BY <1>4
    <2> QED BY <2>1, <2>2, AlsoList
<1>7. \A c \in DOMAIN mtDocument'.fields : mtDocument'.fields[c] \in FieldsOf(mtFields) \cup {0}
    BY <1>4 DEF ColumnField
<1>8. DocumentRule'
    BY <1>1, <1>4, <1>5, <1>6, <1>7 DEF DocumentRule, IsList, FieldsOf
<1>9. StagedRule'
    <2>1. mtBase' \in Nat /\ mtBase' <= mtRev'
        BY <1>1, <1>2
    <2> QED BY <1>1, <2>1 DEF StagedRule
<1> QED BY <1>2, <1>3, <1>8, <1>9 DEF ReturnInv

(* The rows of a file of the same structure.                               *)
LEMMA StrictList ==
    ASSUME NEW file, IsFile(file)
    PROVE  IsList(StrictRows(file))
<1> PICK read : read = FilledRows(file)
    OBVIOUS
<1> DEFINE places == {n \in DOMAIN read : \/ read[n].id # 0
                                          \/ \E c \in DOMAIN file.cols : file.rows[read[n].at].cells[c] # NoText}
<1>1. StrictRows(file) = ListAt(read, places)
    BY DEF StrictRows
<1>2. places \in SUBSET DOMAIN read
    OBVIOUS
<1> HIDE DEF places
<1>3. IsList(read)
    BY FilledList
<1> QED BY <1>1, <1>2, <1>3, Cut

(* What is staged of such a file, and when a person is warned.             *)
KnownOf(rows) == {r \in Range(rows) : r.id # 0}
Fresh(rows) == {n \in DOMAIN rows : rows[n].id = 0}
FreshOf(rows) == ListAt(rows, Fresh(rows))
AddedOf(rows) == [i \in DOMAIN FreshOf(rows) |-> StrictValues(FreshOf(rows)[i])]
MissingOf(rows) == IdsOf(mtRows) \ {r.id : r \in KnownOf(rows)}
RowOf(rows, id) == CHOOSE r \in KnownOf(rows) : r.id = id
ChangedOf(rows) ==
    {x \in {r.id : r \in KnownOf(rows)} \X FieldsOf(mtFields) :
       StrictValues(RowOf(rows, x[1]))[x[2]] # ById(mtRows, x[1]).values[x[2]]}

LEMMA StagedRows ==
    ASSUME NEW rows, rows = StrictRows(mtFile), NEW staged, staged = StrictStaged(mtFile)
    PROVE  /\ "confirmed" \in DOMAIN staged /\ staged.rows = rows /\ staged.added = AddedOf(rows)
           /\ staged.missing = MissingOf(rows) /\ staged.changed = ChangedOf(rows)
           /\ DOMAIN staged.changes = ChangedOf(rows)
           /\ (\E v \in Range(AddedOf(rows)), r \in {r \in Range(mtRows) : r.id \in MissingOf(rows)} :
                  v = r.values) => staged.warned
           /\ (\E x \in ChangedOf(rows), r \in Range(mtRows) :
                  r.id # x[1] /\ r.values = StrictValues(RowOf(rows, x[1]))) => staged.warned
<1> DEFINE known == {r \in Range(rows) : r.id # 0}
           new == ListAt(rows, {n \in DOMAIN rows : rows[n].id = 0})
           added == [i \in DOMAIN new |-> StrictValues(new[i])]
           missing == IdsOf(mtRows) \ {r.id : r \in known}
           Of(id) == CHOOSE r \in known : r.id = id
           changed == {x \in {r.id : r \in known} \X FieldsOf(mtFields) :
                        StrictValues(Of(x[1]))[x[2]] # ById(mtRows, x[1]).values[x[2]]}
           lost == {r \in Range(mtRows) : r.id \in missing}
           suspects == \E v \in Range(added), r \in lost :
                          v = r.values \/ (v[Sku] # NoText /\ v[Sku] = r.values[Sku])
           moved == \E x \in changed, r \in Range(mtRows) : r.id # x[1] /\ r.values = StrictValues(Of(x[1]))
           changes == [x \in changed |-> StrictValues(Of(x[1]))[x[2]]]
<1>1. staged = [NothingStaged EXCEPT !.rows = rows, !.added = added, !.missing = missing, !.changed = changed,
                                     !.changes = changes, !.warned = suspects \/ moved]
    BY DEF StrictStaged
<1>2. /\ added = AddedOf(rows) /\ missing = MissingOf(rows) /\ changed = ChangedOf(rows)
      /\ \A id : Of(id) = RowOf(rows, id)
    BY Zenon DEF AddedOf, FreshOf, Fresh, MissingOf, KnownOf, ChangedOf, RowOf
<1>3. DOMAIN changes = changed
    OBVIOUS
<1>4. (\E v \in Range(added), r \in lost : v = r.values) => suspects
    OBVIOUS
<1>5. (\E x \in changed, r \in Range(mtRows) : r.id # x[1] /\ r.values = StrictValues(Of(x[1]))) => moved
    OBVIOUS
<1> HIDE DEF added, missing, changed, changes, suspects, moved, Of
<1>6. /\ "confirmed" \in DOMAIN staged /\ staged.rows = rows /\ staged.added = added
      /\ staged.missing = missing /\ staged.changed = changed /\ staged.changes = changes
      /\ staged.warned = (suspects \/ moved)
    BY <1>1 DEF NothingStaged
<1> QED BY <1>2, <1>3, <1>4, <1>5, <1>6

LEMMA StrictKnown ==
    ASSUME ~FileRefused(mtFile), NEW rows, rows = StrictRows(mtFile)
    PROVE  /\ mtFile.rev = mtRev
           /\ \A n \in DOMAIN rows : rows[n].id # 0 =>
                 /\ rows[n].id \in IdsOf(mtRows)
                 /\ \A m \in DOMAIN rows : rows[m].id = rows[n].id => m = n
<1>1. mtFile.rev = mtRev
    BY DEF FileRefused
<1>2. ~\E n, m \in DOMAIN rows :
         rows[n].id # 0 /\ (rows[n].id \notin IdsOf(mtRows) \/ (n # m /\ rows[m].id = rows[n].id))
    BY Zenon DEF FileRefused
<1> QED BY <1>1, <1>2

LEMMA StrictValuesAre ==
    ASSUME NEW row
    PROVE  /\ StrictValues(row) = [f \in FieldsOf(mtFields) |-> StrictValues(row)[f]]
           /\ \A f \in FieldsOf(mtFields) : StrictValues(row)[f] = CellOf(row, mtFields, f)
BY DEF StrictValues, CellOf

(* Two functions of the same arguments and values are the same.            *)
LEMMA SameValues ==
    ASSUME NEW S, NEW v, NEW w, v = [f \in S |-> v[f]], w = [f \in S |-> w[f]], \A f \in S : v[f] = w[f]
    PROVE  v = w
OBVIOUS

(* The records by their ids.                                               *)
LEMMA RecordById ==
    ASSUME RecordsRule, NEW x \in IdsOf(mtRows)
    PROVE  \E k \in DOMAIN mtRows :
              /\ mtRows[k].id = x /\ ById(mtRows, x) = mtRows[k] /\ mtRows[k] \in Range(mtRows)
              /\ IsRecord(mtRows[k], FieldsOf(mtFields))
<1>1. PICK k \in DOMAIN mtRows : mtRows[k].id = x
    BY DEF IdsOf
<1>2. OwnIds(mtRows) /\ IsRecord(mtRows[k], FieldsOf(mtFields))
    BY DEF RecordsRule, RowsFit
<1>3. ById(mtRows, x) = mtRows[k]
    BY <1>1, <1>2, FoundById
<1>4. mtRows[k] \in Range(mtRows)
    BY DEF Range
<1> QED BY <1>1, <1>2, <1>3, <1>4

(* A row of a returned file that a person is not warned of is known.       *)
LEMMA RowIsKnown ==
    ASSUME RecordsRule, ~FileRefused(mtFile), IsFile(mtFile), ~StrictStaged(mtFile).warned,
           NEW row \in Range(StrictRows(mtFile)), row.of \in IdsOf(mtRows),
           \A f \in FieldsOf(mtFields) : CellOf(row, mtFields, f) = ById(mtRows, row.of).values[f]
    PROVE  \/ /\ row.id \in IdsOf(mtRows)
              /\ \A f \in FieldsOf(mtFields) : ById(mtRows, row.id).values[f] = ById(mtRows, row.of).values[f]
           \/ row.id = 0 /\ \E r \in Range(StrictRows(mtFile)) : r.id = row.of
<1> PICK rows : rows = StrictRows(mtFile)
    OBVIOUS
<1> PICK staged : staged = StrictStaged(mtFile)
    OBVIOUS
<1>1. /\ (\E v \in Range(AddedOf(rows)), r \in {r \in Range(mtRows) : r.id \in MissingOf(rows)} :
             v = r.values) => staged.warned
      /\ (\E x \in ChangedOf(rows), r \in Range(mtRows) :
             r.id # x[1] /\ r.values = StrictValues(RowOf(rows, x[1]))) => staged.warned
    BY StagedRows
<1>2. PICK k \in DOMAIN mtRows : /\ mtRows[k].id = row.of /\ ById(mtRows, row.of) = mtRows[k]
                                 /\ mtRows[k] \in Range(mtRows) /\ IsRecord(mtRows[k], FieldsOf(mtFields))
    BY RecordById
<1>3. mtRows[k].values = StrictValues(row)
    <2>1. mtRows[k].values = [f \in FieldsOf(mtFields) |-> mtRows[k].values[f]]
        BY <1>2 DEF IsRecord
    <2>2. /\ StrictValues(row) = [f \in FieldsOf(mtFields) |-> StrictValues(row)[f]]
          /\ \A f \in FieldsOf(mtFields) : StrictValues(row)[f] = mtRows[k].values[f]
        BY <1>2, StrictValuesAre
    <2> PICK v, w : v = mtRows[k].values /\ w = StrictValues(row)
        OBVIOUS
    <2>3. v = w
        BY <2>1, <2>2, SameValues
    <2> QED BY <2>3
<1>4. /\ row \in Range(rows) /\ ~staged.warned /\ IsList(rows)
      /\ \A n \in DOMAIN rows : rows[n].id # 0 =>
            rows[n].id \in IdsOf(mtRows) /\ \A m \in DOMAIN rows : rows[m].id = rows[n].id => m = n
    BY StrictKnown, StrictList
<1>5. PICK n \in DOMAIN rows : row = rows[n]
    BY <1>4 DEF Range
<1>6. CASE row.id # 0
    <2>1. row \in KnownOf(rows) /\ row.id \in IdsOf(mtRows)
        BY <1>4, <1>5, <1>6 DEF KnownOf
    <2>2. \A q \in KnownOf(rows) : q.id = row.id => q = row
        BY <1>4, <1>5, <1>6 DEF Range, KnownOf
    <2>3. RowOf(rows, row.id) = row
        BY <2>1, <2>2 DEF RowOf
    <2>4. ASSUME row.id # row.of, NEW f \in FieldsOf(mtFields),
                 ById(mtRows, row.id).values[f] # ById(mtRows, row.of).values[f]
          PROVE  FALSE
        <3>1. <<row.id, f>> \in {r.id : r \in KnownOf(rows)} \X FieldsOf(mtFields)
            BY <2>1
        <3>2. StrictValues(row)[f] # ById(mtRows, row.id).values[f]
            BY <1>2, <1>3, <2>4
        <3> PICK x : x = <<row.id, f>>
            OBVIOUS
        <3>3. x \in ChangedOf(rows) /\ x[1] = row.id
            BY <2>3, <3>1, <3>2 DEF ChangedOf
        <3>4. mtRows[k].id # x[1] /\ mtRows[k].values = StrictValues(RowOf(rows, x[1]))
            BY <1>2, <1>3, <2>3, <2>4, <3>3
        <3> QED BY <1>1, <1>2, <1>4, <3>3, <3>4
    <2> QED BY <2>1, <2>4
<1>7. CASE row.id = 0
    <2>1. ASSUME row.of \notin {r.id : r \in KnownOf(rows)} PROVE FALSE
        <3>1. mtRows[k] \in {r \in Range(mtRows) : r.id \in MissingOf(rows)}
            BY <1>2, <2>1 DEF MissingOf
        <3>2. StrictValues(row) \in Range(AddedOf(rows))
            <4>1. n \in Fresh(rows) /\ Fresh(rows) \in SUBSET DOMAIN rows
                BY <1>5, <1>7 DEF Fresh
            <4>2. PICK i \in DOMAIN FreshOf(rows) : FreshOf(rows)[i] = row
                <5> PICK t : t = FreshOf(rows)
                    OBVIOUS
                <5>1. PlaceOf(Fresh(rows), n) \in DOMAIN t /\ t[PlaceOf(Fresh(rows), n)] = rows[n]
                    BY <1>4, <4>1, ListAtKeeps DEF FreshOf
                <5> QED BY <1>5, <5>1
            <4>3. AddedOf(rows)[i] = StrictValues(row) /\ i \in DOMAIN AddedOf(rows)
                BY <4>2 DEF AddedOf
            <4> QED BY <4>3 DEF Range
        <3> QED BY <1>1, <1>3, <1>4, <3>1, <3>2
    <2>2. PICK r \in KnownOf(rows) : r.id = row.of
        BY <2>1
    <2>3. r \in Range(rows)
        BY DEF KnownOf
    <2> QED BY <1>7, <2>2, <2>3
<1> QED BY <1>6, <1>7

(* What is staged of a returned file fits the records.                     *)
LEMMA StrictStagedFits ==
    ASSUME RecordsRule, ~FileRefused(mtFile), IsFile(mtFile)
    PROVE  StrictFit(StrictStaged(mtFile), mtFields, mtRows)
<1> PICK rows : rows = StrictRows(mtFile)
    OBVIOUS
<1> PICK staged : staged = StrictStaged(mtFile)
    OBVIOUS
<1>1. /\ "confirmed" \in DOMAIN staged /\ staged.rows = rows /\ staged.added = AddedOf(rows)
      /\ staged.changed = ChangedOf(rows) /\ DOMAIN staged.changes = ChangedOf(rows)
    BY StagedRows
<1>2. IsList(AddedOf(rows)) /\ \A i \in DOMAIN AddedOf(rows) :
          AddedOf(rows)[i] = [f \in FieldsOf(mtFields) |-> AddedOf(rows)[i][f]]
    <2>1. IsList(rows) /\ Fresh(rows) \in SUBSET DOMAIN rows
        BY StrictList DEF Fresh
    <2>2. IsList(FreshOf(rows))
        BY <2>1, Cut DEF FreshOf
    <2> PICK added : added = AddedOf(rows)
        OBVIOUS
    <2>3. /\ added = [i \in DOMAIN FreshOf(rows) |-> added[i]]
          /\ \A i \in DOMAIN added : added[i] = StrictValues(FreshOf(rows)[i])
        BY DEF AddedOf
    <2>5. IsList(added)
        BY <2>2, <2>3, AlsoList
    <2>6. \A i \in DOMAIN added : added[i] = [f \in FieldsOf(mtFields) |-> added[i][f]]
        BY <2>3, StrictValuesAre
    <2> QED BY <2>5, <2>6
<1>3. ~staged.warned => RowsKnown(staged, mtFields, mtRows)
    <2>1. SUFFICES ASSUME ~staged.warned PROVE RowsKnown(staged, mtFields, mtRows)
        OBVIOUS
    <2>2. staged.rows = StrictRows(mtFile) /\ ~StrictStaged(mtFile).warned
        BY <1>1, <2>1
    <2> QED BY <2>2, RowIsKnown DEF RowsKnown
<1> QED BY <1>1, <1>2, <1>3 DEF StrictFit

LEMMA PreviewReturnInv == ReturnInv /\ PreviewReturn => ReturnInv'
<1> SUFFICES ASSUME ReturnInv, PreviewReturn PROVE ReturnInv'
    OBVIOUS
<1>1. /\ mtStep = "none" /\ mtFile # NoFile /\ mtStep' = "checked" /\ mtBase' = mtRev
      /\ mtStaged' = StrictStaged(mtFile) /\ ~FileRefused(mtFile)
      /\ UNCHANGED <<mtFlexible, mtFields, mtRows, mtRev, mtNext, mtFile, mtNewer>>
    BY DEF PreviewReturn, Upload
<1>2. RecordsRule' /\ RecordsRule /\ mtRev \in Nat
    BY <1>1 DEF ReturnInv, RecordsRule, RowsFit, OwnIds, IsList, FieldsOf
<1>3. FileRule' /\ IsFile(mtFile)
    BY <1>1 DEF ReturnInv, FileRule, IsFile, IsList
<1>4. DocumentRule'
    BY <1>1 DEF DocumentRule
<1>5. StagedRule'
    <2>1. mtBase' \in Nat /\ mtBase' <= mtRev'
        BY <1>1, <1>2
    <2>2. StrictFit(mtStaged', mtFields, mtRows)
        BY <1>1, <1>2, <1>3, StrictStagedFits
    <2>3. StrictFit(mtStaged, mtFields, mtRows)'
        BY <1>1, <2>2
    <2>4. mtFile.rev = mtRev
        BY <1>1, StrictKnown
    <2>5. (mtFile # NoFile)' /\ (mtFile.rev = mtRev)'
        BY <1>1, <2>4
    <2> QED BY <1>1, <2>1, <2>3, <2>5 DEF StagedRule
<1> QED BY <1>2, <1>3, <1>4, <1>5 DEF ReturnInv

LEMMA NewFieldsList ==
    ASSUME NEW columns, IsList(columns)
    PROVE  IsList(NewFields(columns))
<1> PICK targets : targets = [c \in DOMAIN columns |-> TargetOf(columns, c)]
    OBVIOUS
<1>1. targets = [c \in DOMAIN columns |-> targets[c]]
    OBVIOUS
<1>2. IsList(targets) /\ DOMAIN targets = DOMAIN columns
    BY <1>1, ListSame
<1>3. Mapped(columns) \in SUBSET DOMAIN targets
    BY <1>2 DEF Mapped
<1>4. NewFields(columns) = ListAt(targets, Mapped(columns))
    BY DEF NewFields
<1> QED BY <1>2, <1>3, <1>4, Cut

(* Where the structure is as it was, the fields are.                       *)
LEMMA FieldsStay ==
    ASSUME RecordsRule, NEW columns, ColumnsFit(columns, mtFields), NEW document, NEW proposed,
           ~Restructured(document, columns, proposed)
    PROVE  NewFields(columns) = mtFields
<1>1. /\ \A c \in DOMAIN columns : ~(columns[c] < 0)
      /\ Dropped(columns) = {}
      /\ Among(mtFields, Provided(columns)) = Among(NewFields(columns), Provided(columns))
    BY DEF Restructured
<1>2. IsList(columns) /\ \A c \in DOMAIN columns : columns[c] \in FieldsOf(mtFields) \cup {-1, -2}
    BY DEF ColumnsFit
<1>3. \A c \in DOMAIN columns : columns[c] \in FieldsOf(mtFields) /\ columns[c] # -1 /\ columns[c] # -2
    BY <1>1, <1>2
<1>4. NewFields(columns) = columns
    <2> PICK targets : targets = [c \in DOMAIN columns |-> TargetOf(columns, c)]
        OBVIOUS
    <2>1. \A c \in DOMAIN columns : targets[c] = columns[c]
        BY <1>3 DEF TargetOf
    <2>2. columns = [c \in 1 .. Len(columns) |-> columns[c]] /\ DOMAIN columns = 1 .. Len(columns)
        BY <1>2, ListShape
    <2>3. targets = columns
        BY <2>1, <2>2
    <2>4. Mapped(columns) = DOMAIN columns
        BY <1>3 DEF Mapped
    <2>5. NewFields(columns) = ListAt(columns, DOMAIN columns)
        BY <2>3, <2>4 DEF NewFields
    <2> QED BY <1>2, <2>5, ListAtAll
<1>5. FieldsOf(columns) \subseteq FieldsOf(mtFields)
    BY <1>3 DEF FieldsOf, Range
<1>6. FieldsOf(mtFields) \subseteq FieldsOf(columns)
    BY <1>1, <1>4 DEF Dropped
<1>7. Provided(columns) = FieldsOf(columns) /\ Provided(columns) = FieldsOf(mtFields)
    BY <1>4, <1>5, <1>6 DEF Provided
<1>8. ASSUME NEW s, IsList(s), NEW S, S = FieldsOf(s) PROVE Among(s, S) = s
    <2>1. {n \in DOMAIN s : s[n] \in S} = DOMAIN s
        BY <1>8 DEF FieldsOf, Range
    <2> QED BY <1>8, <2>1, ListAtAll DEF Among
<1>9. IsList(mtFields)
    BY DEF RecordsRule
<1>10. Among(mtFields, Provided(columns)) = mtFields /\ Among(NewFields(columns), Provided(columns)) = columns
    BY <1>2, <1>4, <1>7, <1>8, <1>9
<1> QED BY <1>1, <1>4, <1>10

(* A row that is not asked for or left out is a new record, or one there   *)
(* is, which no other row is.                                              *)
LEMMA FateIs ==
    ASSUME NEW document, NEW columns, NEW choices, ChoicesFit(choices, mtRows), NEW n \in DOMAIN document.rows
    PROVE  Fate(document, columns, choices, n) \in {-2, -1, 0} \cup IdsOf(mtRows)
<1>1. CASE n \in DOMAIN choices
    BY <1>1 DEF Fate, ChoicesFit
<1>2. CASE n \notin DOMAIN choices
    <2> PICK row : row = document.rows[n]
        OBVIOUS
    <2>1. CASE Doubtful(document, columns, row)
        BY <1>2, <2>1 DEF Fate
    <2>2. CASE ~Doubtful(document, columns, row)
        <3>1. row.id = 0 \/ row.id \in IdsOf(mtRows)
            BY <2>2 DEF Doubtful
        <3>2. Fate(document, columns, choices, n) = row.id
            BY <1>2, <2>2 DEF Fate
        <3> QED BY <3>1, <3>2
    <2> QED BY <2>1, <2>2
<1> QED BY <1>1, <1>2

AreRecords(rows, fields) == \A n \in DOMAIN rows : IsRecord(rows[n], fields)

LEMMA RenamedRows ==
    ASSUME NEW rows, IsList(rows), NEW fields, AreRecords(rows, fields), NEW new, new = Renamed(rows)
    PROVE  /\ IsList(new) /\ Len(new) = Len(rows) /\ DOMAIN new = DOMAIN rows
           /\ AreRecords(new, fields) /\ \A n \in DOMAIN rows : new[n].id = rows[n].id
<1>1. new = [n \in DOMAIN rows |-> new[n]]
    BY DEF Renamed
<1>2. IsList(new) /\ Len(new) = Len(rows) /\ DOMAIN new = DOMAIN rows
    BY <1>1, ListSame
<1>3. ASSUME NEW n \in DOMAIN rows PROVE IsRecord(new[n], fields) /\ new[n].id = rows[n].id
    <2> PICK r : r = rows[n]
        OBVIOUS
    <2>1. \E G : /\ G = [f \in DOMAIN r.groups |-> G[f]]
                 /\ new[n] = [r EXCEPT !.groups = G]
        <3> DEFINE mine(f) == Members(rows, f, r.groups[f])
                   same(f) == {q.groups[f] : q \in {q \in Range(mtRows) :
                                  f \in DOMAIN q.groups /\ q.groups[f] # NoGroup
                                  /\ Members(mtRows, f, q.groups[f]) = mine(f)}}
                   G == [f \in DOMAIN r.groups |->
                          IF r.groups[f] = NoGroup \/ same(f) = {} THEN r.groups[f] ELSE CHOOSE g \in same(f) : TRUE]
        <3>1. new[n] = [r EXCEPT !.groups = G]
            BY DEF Renamed
        <3>2. G = [f \in DOMAIN r.groups |-> G[f]]
            OBVIOUS
        <3> HIDE DEF G
        <3> QED BY <3>1, <3>2
    <2>2. PICK G : /\ G = [f \in DOMAIN r.groups |-> G[f]] /\ new[n] = [r EXCEPT !.groups = G]
        BY <2>1
    <2>3. IsRecord(r, fields)
        BY DEF AreRecords
    <2>4. r = [id |-> r.id, values |-> r.values, groups |-> r.groups] /\ DOMAIN r.groups = fields
        BY <2>3 DEF IsRecord
    <2>5. new[n] = [id |-> r.id, values |-> r.values, groups |-> G] /\ G = [f \in fields |-> G[f]]
        BY <2>2, <2>4
    <2> QED BY <2>3, <2>5 DEF IsRecord
<1> QED BY <1>2, <1>3 DEF AreRecords

(* The rows that are staged, and the record each becomes.                  *)
Kept0(document, columns, choices) == {n \in DOMAIN document.rows : Fate(document, columns, choices, n) >= 0}
Taken(document, columns, choices) ==
    ListAt([n \in DOMAIN document.rows |-> n], Kept0(document, columns, choices))
Given(document, columns, choices, i) == Fate(document, columns, choices, Taken(document, columns, choices)[i])
Made(document, columns, choices) ==
    {i \in DOMAIN Taken(document, columns, choices) : Given(document, columns, choices, i) = 0}
NumberOf(document, columns, choices, i) ==
    IF Given(document, columns, choices, i) = 0
    THEN mtNext + PlaceOf(Made(document, columns, choices), i) - 1 ELSE Given(document, columns, choices, i)
Drawn(document, columns, choices) ==
    [i \in DOMAIN Taken(document, columns, choices) |->
       ProposedRow(document, columns, Given(document, columns, choices, i), Taken(document, columns, choices)[i],
                   NumberOf(document, columns, choices, i))]

LEMMA TakenRows ==
    ASSUME RecordsRule, NEW document, IsList(document.rows), NEW columns, NEW choices, ChoicesFit(choices, mtRows),
           ~RowsRefused(document, columns, choices),
           NEW taken, taken = Taken(document, columns, choices)
    PROVE  /\ IsList(taken) /\ Len(taken) \in Nat /\ DOMAIN taken = 1 .. Len(taken)
           /\ \A i \in DOMAIN taken : /\ taken[i] \in DOMAIN document.rows
                                      /\ Given(document, columns, choices, i) \in {0} \cup IdsOf(mtRows)
           /\ \A i, j \in DOMAIN taken :
                 (Given(document, columns, choices, i) # 0
                  /\ Given(document, columns, choices, i) = Given(document, columns, choices, j)) => i = j
<1> DEFINE K == Kept0(document, columns, choices)
<1> PICK all : all = [n \in DOMAIN document.rows |-> n]
    OBVIOUS
<1>1. IsList(all) /\ DOMAIN all = DOMAIN document.rows /\ \A n \in DOMAIN document.rows : all[n] = n
    <2>1. all = [n \in DOMAIN document.rows |-> all[n]]
        OBVIOUS
    <2> QED BY <2>1, ListSame
<1>2. K \in SUBSET DOMAIN all /\ taken = ListAt(all, K)
    BY <1>1 DEF Taken, Kept0
<1> HIDE DEF K
<1>3. /\ IsList(taken) /\ \A k \in DOMAIN taken : \E i \in K : k = PlaceOf(K, i) /\ taken[k] = all[i]
    BY <1>1, <1>2, ListAtKeeps
<1>4. Len(taken) \in Nat /\ DOMAIN taken = 1 .. Len(taken)
    BY <1>3, ListShape
<1>5. \A i \in DOMAIN taken : taken[i] \in K /\ i = PlaceOf(K, taken[i])
    BY <1>1, <1>2, <1>3
<1>6. ASSUME NEW i \in DOMAIN taken
      PROVE  /\ taken[i] \in DOMAIN document.rows
             /\ Given(document, columns, choices, i) \in {0} \cup IdsOf(mtRows)
    <2>1. taken[i] \in DOMAIN document.rows
        BY <1>1, <1>2, <1>5
    <2> PICK x : x = Fate(document, columns, choices, taken[i])
        OBVIOUS
    <2>2. x >= 0 /\ Given(document, columns, choices, i) = x
        BY <1>5 DEF K, Kept0, Given
    <2>3. x \in {-2, -1, 0} \cup IdsOf(mtRows)
        BY <2>1, FateIs
    <2> QED BY <2>1, <2>2, <2>3
<1>7. ASSUME NEW i \in DOMAIN taken, NEW j \in DOMAIN taken,
             Given(document, columns, choices, i) # 0,
             Given(document, columns, choices, i) = Given(document, columns, choices, j)
      PROVE  i = j
    <2> PICK x : x = Given(document, columns, choices, i)
        OBVIOUS
    <2>1. x \in IdsOf(mtRows) /\ x \in Nat \ {0}
        <3>1. x \in IdsOf(mtRows)
            BY <1>6, <1>7
        <3> QED BY <3>1, RecordById DEF IsRecord
    <2>2. /\ Fate(document, columns, choices, taken[i]) = x /\ Fate(document, columns, choices, taken[j]) = x
          /\ taken[i] \in DOMAIN document.rows /\ taken[j] \in DOMAIN document.rows
        BY <1>6, <1>7 DEF Given
    <2>3. taken[i] = taken[j]
        <3>1. x > 0
            BY <2>1
        <3>2. ~\E n, m \in DOMAIN document.rows :
                 Fate(document, columns, choices, n) > 0
                 /\ (n # m /\ Fate(document, columns, choices, m) = Fate(document, columns, choices, n))
            BY Zenon DEF RowsRefused
        <3> QED BY <2>2, <3>1, <3>2
    <2> QED BY <1>5, <2>3
<1> QED BY <1>3, <1>4, <1>6, <1>7

(* Each staged record has a number of its own: the one of its record, or   *)
(* one of the numbers after those there are.                               *)
LEMMA Numbers ==
    ASSUME RecordsRule, NEW document, IsList(document.rows), NEW columns, NEW choices, ChoicesFit(choices, mtRows),
           ~RowsRefused(document, columns, choices),
           NEW taken, taken = Taken(document, columns, choices)
    PROVE  /\ \A i \in DOMAIN taken : /\ NumberOf(document, columns, choices, i) \in Nat \ {0}
                                      /\ NumberOf(document, columns, choices, i) < mtNext + Len(taken)
           /\ \A i, j \in DOMAIN taken :
                 NumberOf(document, columns, choices, i) = NumberOf(document, columns, choices, j) => i = j
<1> DEFINE Z == Made(document, columns, choices)
           Of(i) == Given(document, columns, choices, i)
           No(i) == NumberOf(document, columns, choices, i)
<1>1. /\ Len(taken) \in Nat /\ DOMAIN taken = 1 .. Len(taken)
      /\ \A i \in DOMAIN taken : Of(i) \in {0} \cup IdsOf(mtRows)
      /\ \A i, j \in DOMAIN taken : (Of(i) # 0 /\ Of(i) = Of(j)) => i = j
    BY TakenRows
<1>2. Z \in SUBSET (1 .. Len(taken)) /\ \A i \in DOMAIN taken : Of(i) = 0 <=> i \in Z
    BY <1>1 DEF Made
<1>3. mtNext \in Nat \ {0} /\ \A x \in IdsOf(mtRows) : x \in Nat \ {0} /\ x < mtNext
    <2>1. \A n \in DOMAIN mtRows : mtRows[n].id \in Nat \ {0} /\ mtRows[n].id < mtNext
        BY DEF RecordsRule, RowsFit, IsRecord
    <2> QED BY <2>1 DEF RecordsRule, IdsOf
<1>4. \A i \in DOMAIN taken : No(i) = IF Of(i) = 0 THEN mtNext + PlaceOf(Z, i) - 1 ELSE Of(i)
    BY DEF NumberOf
<1>5. /\ Cardinality(Z) \in Nat /\ Cardinality(Z) <= Len(taken)
      /\ \A i \in Z : PlaceOf(Z, i) \in 1 .. Cardinality(Z)
      /\ \A i, j \in Z : PlaceOf(Z, i) = PlaceOf(Z, j) => i = j
    <2> HIDE DEF Z
    <2>1. Cardinality(Z) <= Len(taken)
        BY <1>1, <1>2, PlacesNumbered
    <2> QED BY <1>1, <1>2, <2>1, PlacesOf
<1> HIDE DEF Z, Of, No
<1>6. ASSUME NEW i \in DOMAIN taken
      PROVE  /\ No(i) \in Nat \ {0} /\ No(i) < mtNext + Len(taken)
             /\ Of(i) = 0 => No(i) >= mtNext
             /\ Of(i) # 0 => No(i) < mtNext
    <2>1. CASE Of(i) = 0
        <3>1. PlaceOf(Z, i) \in Nat \ {0} /\ PlaceOf(Z, i) <= Len(taken)
            BY <1>1, <1>2, <1>5, <2>1
        <3>2. No(i) = mtNext + PlaceOf(Z, i) - 1
            BY <1>4, <2>1
        <3> QED BY <1>1, <1>3, <2>1, <3>1, <3>2
    <2>2. CASE Of(i) # 0
        <3>1. No(i) \in Nat \ {0} /\ No(i) < mtNext
            BY <1>1, <1>3, <1>4, <2>2
        <3> QED BY <1>1, <1>3, <2>2, <3>1
    <2> QED BY <2>1, <2>2
<1>7. ASSUME NEW i \in DOMAIN taken, NEW j \in DOMAIN taken, No(i) = No(j) PROVE i = j
    <2>0. No(i) \in Int /\ No(j) \in Int /\ mtNext \in Int
        BY <1>3, <1>6
    <2>1. (Of(i) = 0) <=> (Of(j) = 0)
        BY <1>6, <1>7, <2>0
    <2>2. CASE Of(i) = 0
        <3>1. i \in Z /\ j \in Z
            BY <1>2, <2>1, <2>2
        <3>2. PlaceOf(Z, i) \in Int /\ PlaceOf(Z, j) \in Int
            BY <1>5, <3>1
        <3>3. mtNext + PlaceOf(Z, i) - 1 = mtNext + PlaceOf(Z, j) - 1
            BY <1>4, <1>7, <2>1, <2>2
        <3>4. PlaceOf(Z, i) = PlaceOf(Z, j)
            BY <2>0, <3>2, <3>3
        <3> QED BY <1>5, <3>1, <3>4
    <2>3. CASE Of(i) # 0
        BY <1>1, <1>4, <1>7, <2>1, <2>3
    <2> QED BY <2>2, <2>3
<1> QED BY <1>6, <1>7 DEF No

LEMMA ProposedIs ==
    ASSUME NEW document, NEW columns, NEW choices, IsList(Taken(document, columns, choices))
    PROVE  Proposed(document, columns, choices) = Renamed(Drawn(document, columns, choices))
<1> PICK taken : taken = Taken(document, columns, choices)
    OBVIOUS
<1> DEFINE Of(n) == Fate(document, columns, choices, n)
           New(i) == Cardinality({j \in 1..i : Of(taken[j]) = 0})
           Id(i) == IF Of(taken[i]) = 0 THEN mtNext + New(i) - 1 ELSE Of(taken[i])
           rows == [i \in DOMAIN taken |-> ProposedRow(document, columns, Of(taken[i]), taken[i], Id(i))]
<1>1. Proposed(document, columns, choices) = Renamed(rows)
    BY Zenon DEF Proposed, Taken, Kept0
<1>2. ASSUME NEW i \in DOMAIN taken PROVE Id(i) = NumberOf(document, columns, choices, i)
    <2>1. Of(taken[i]) = Given(document, columns, choices, i)
        BY DEF Given
    <2>2. ASSUME Of(taken[i]) = 0 PROVE New(i) = PlaceOf(Made(document, columns, choices), i)
        <3>1. DOMAIN taken = 1 .. Len(taken) /\ Len(taken) \in Nat
            BY ListShape
        <3>2. \A j : j \in 1 .. i <=> j \in DOMAIN taken /\ j <= i
            BY <3>1
        <3>3. {j \in 1 .. i : Of(taken[j]) = 0} = {j \in Made(document, columns, choices) : j <= i}
            BY <3>2 DEF Made, Given
        <3> QED BY <3>3 DEF PlaceOf
    <2> HIDE DEF Of, New
    <2> QED BY <2>1, <2>2 DEF NumberOf
<1>3. rows = Drawn(document, columns, choices)
    <2>1. \A i \in DOMAIN taken : Of(taken[i]) = Given(document, columns, choices, i)
        BY DEF Given
    <2> HIDE DEF Of, Id
    <2> QED BY <1>2, <2>1 DEF Drawn
<1> QED BY <1>1, <1>3

(* The records a return proposes fit.                                      *)
LEMMA ProposedFit ==
    ASSUME RecordsRule, NEW document, IsList(document.rows), NEW columns, NEW choices, ChoicesFit(choices, mtRows),
           ~RowsRefused(document, columns, choices),
           NEW new, new = Proposed(document, columns, choices)
    PROVE  Len(new) \in Nat /\ RowsFit(new, FieldsOf(NewFields(columns)), mtNext + Len(new))
<1> PICK taken : taken = Taken(document, columns, choices)
    OBVIOUS
<1> PICK rows : rows = Drawn(document, columns, choices)
    OBVIOUS
<1> PICK fields : fields = FieldsOf(NewFields(columns))
    OBVIOUS
<1>1. IsList(taken) /\ Len(taken) \in Nat /\ DOMAIN taken = 1 .. Len(taken)
    BY TakenRows
<1>2. /\ \A i \in DOMAIN taken : /\ NumberOf(document, columns, choices, i) \in Nat \ {0}
                                 /\ NumberOf(document, columns, choices, i) < mtNext + Len(taken)
      /\ \A i, j \in DOMAIN taken :
             NumberOf(document, columns, choices, i) = NumberOf(document, columns, choices, j) => i = j
    BY Numbers
<1>3. /\ rows = [i \in DOMAIN taken |-> rows[i]]
      /\ \A i \in DOMAIN taken : rows[i] = ProposedRow(document, columns, Given(document, columns, choices, i),
                                                       taken[i], NumberOf(document, columns, choices, i))
    BY DEF Drawn
<1>4. IsList(rows) /\ Len(rows) = Len(taken) /\ DOMAIN rows = DOMAIN taken
    BY <1>1, <1>3, ListSame
<1>5. ASSUME NEW id \in Nat \ {0}, NEW x, NEW n
      PROVE  IsRecord(ProposedRow(document, columns, x, n, id), fields)
             /\ ProposedRow(document, columns, x, n, id).id = id
    <2> PICK r : r = ProposedRow(document, columns, x, n, id)
        OBVIOUS
    <2> DEFINE v == [f \in fields |-> ValueOf(document.rows[n], columns, f)]
               g == [f \in fields |-> document.rows[n].groups[CHOOSE c \in Mapped(columns) :
                                                                TargetOf(columns, c) = f]]
    <2>1. r = [id |-> id, values |-> v, groups |-> g]
        BY DEF ProposedRow
    <2>2. v = [f \in fields |-> v[f]] /\ g = [f \in fields |-> g[f]]
        OBVIOUS
    <2> HIDE DEF v, g
    <2> QED BY <2>1, <2>2 DEF IsRecord
<1>6. \A i \in DOMAIN rows : IsRecord(rows[i], fields) /\ rows[i].id = NumberOf(document, columns, choices, i)
    BY <1>2, <1>3, <1>4, <1>5
<1>7. new = Renamed(rows)
    BY <1>1, ProposedIs
<1>8. /\ IsList(new) /\ Len(new) = Len(rows) /\ DOMAIN new = DOMAIN rows
      /\ AreRecords(new, fields) /\ \A n \in DOMAIN rows : new[n].id = rows[n].id
    <2>1. AreRecords(rows, fields)
        BY <1>6 DEF AreRecords
    <2> QED BY <1>4, <1>7, <2>1, RenamedRows
<1>9. OwnIds(new)
    BY <1>2, <1>4, <1>6, <1>8 DEF OwnIds
<1>10. \A n \in DOMAIN new : IsRecord(new[n], fields) /\ new[n].id < mtNext + Len(new)
    BY <1>2, <1>4, <1>6, <1>8 DEF AreRecords
<1> QED BY <1>1, <1>4, <1>8, <1>9, <1>10 DEF RowsFit

LEMMA StagedFits ==
    ASSUME RecordsRule, NEW document, IsList(document.rows), NEW columns, NEW choices,
           ColumnsFit(columns, mtFields), ChoicesFit(choices, mtRows), ~RowsRefused(document, columns, choices)
    PROVE  FlexibleFit(StagedOf(document, columns, choices), mtFields, mtRows, mtNext)
<1> PICK staged : staged = StagedOf(document, columns, choices)
    OBVIOUS
<1> PICK rows : rows = Proposed(document, columns, choices)
    OBVIOUS
<1>1. /\ "confirmed" \in DOMAIN staged /\ staged.rows = rows /\ staged.fields = NewFields(columns)
      /\ staged.columns = columns /\ staged.structure = Restructured(document, columns, rows)
      /\ staged.changed = ChangedCells(mtRows, rows) /\ staged.missing = IdsOf(mtRows) \ IdsOf(rows)
    <2> DEFINE asked == {n \in DOMAIN document.rows : Fate(document, columns, choices, n) = -1}
    <2>1. staged = [NothingStaged EXCEPT !.rows = rows, !.fields = NewFields(columns), !.columns = columns,
                      !.choices = choices, !.asked = asked, !.structure = Restructured(document, columns, rows),
                      !.changed = ChangedCells(mtRows, rows), !.missing = IdsOf(mtRows) \ IdsOf(rows)]
        BY DEF StagedOf
    <2> HIDE DEF asked
    <2> QED BY <2>1 DEF NothingStaged
<1>2. Len(rows) \in Nat /\ RowsFit(rows, FieldsOf(NewFields(columns)), mtNext + Len(rows))
    BY ProposedFit
<1>3. IsList(NewFields(columns))
    BY NewFieldsList DEF ColumnsFit
<1>4. ~staged.structure => staged.fields = mtFields
    BY <1>1, FieldsStay
<1> QED BY <1>1, <1>2, <1>3, <1>4 DEF FlexibleFit

LEMMA PreviewInv ==
    ASSUME ReturnInv, NEW columns, NEW choices, mtStep \in {"structure", "row_review"},
           ColumnsFit(columns, mtFields), ChoicesFit(choices, mtRows), Preview(columns, choices)
    PROVE  ReturnInv'
<1>1. /\ mtRev = mtBase /\ ~RowsRefused(mtDocument, columns, choices)
      /\ mtStaged' = StagedOf(mtDocument, columns, choices)
      /\ mtStep' \in {"ready", "row_review"}
      /\ UNCHANGED <<mtFields, mtRows, mtRev, mtNext, mtFile, mtNewer, mtDocument, mtBase>>
    BY DEF Preview
<1>2. RecordsRule' /\ RecordsRule /\ mtRev \in Nat
    BY <1>1 DEF ReturnInv, RecordsRule, RowsFit, OwnIds, IsList, FieldsOf
<1>3. FileRule'
    BY <1>1 DEF ReturnInv, FileRule, IsFile, IsList, NoFile
<1>4. DocumentRule' /\ IsList(mtDocument.rows)
    BY <1>1 DEF ReturnInv, DocumentRule, IsList, FieldsOf, NoFile
<1>5. FlexibleFit(mtStaged', mtFields, mtRows, mtNext)
    BY <1>1, <1>2, <1>4, StagedFits
<1>6. FlexibleFit(mtStaged, mtFields, mtRows, mtNext)'
    BY <1>1, <1>5
<1>7. mtStep' # "checked" /\ mtStep' # "none" /\ mtBase' \in Nat /\ mtBase' <= mtRev'
    BY <1>1, <1>2
<1>8. StagedRule'
    BY <1>6, <1>7 DEF StagedRule
<1> QED BY <1>2, <1>3, <1>4, <1>8 DEF ReturnInv

LEMMA ChooseColumnsInv == ReturnInv /\ ChooseColumns => ReturnInv'
<1> SUFFICES ASSUME ReturnInv, ChooseColumns PROVE ReturnInv'
    OBVIOUS
<1>1. PICK columns \in ColumnChoices : Preview(columns, <<>>)
    BY DEF ChooseColumns
<1>2. mtStep = "structure"
    BY DEF ChooseColumns
<1>3. /\ IsList(mtDocument.fields)
      /\ \A c \in DOMAIN mtDocument.fields : mtDocument.fields[c] \in FieldsOf(mtFields) \cup {0}
    BY <1>2 DEF ReturnInv, DocumentRule
<1> DEFINE found == [c \in DOMAIN mtDocument.fields |-> IF mtDocument.fields[c] = 0 THEN -1 ELSE mtDocument.fields[c]]
<1>4. /\ DOMAIN found = DOMAIN mtDocument.fields
      /\ \A c \in DOMAIN found : found[c] \in FieldsOf(mtFields) \cup {-1, -2}
    BY <1>3
<1>5. columns = found \/ \E c \in DOMAIN found, t \in FieldsOf(mtFields) \cup {-1, -2} :
                             columns = [found EXCEPT ![c] = t]
    BY DEF ColumnChoices
<1> HIDE DEF found
<1>6. /\ columns = [c \in DOMAIN mtDocument.fields |-> columns[c]]
      /\ \A c \in DOMAIN columns : columns[c] \in FieldsOf(mtFields) \cup {-1, -2}
    <2>1. CASE columns = found
        BY <1>4, <2>1 DEF found
    <2>2. CASE columns # found
        <3>1. PICK c \in DOMAIN found, t \in FieldsOf(mtFields) \cup {-1, -2} : columns = [found EXCEPT ![c] = t]
            BY <1>5, <2>2
        <3> QED BY <1>4, <3>1
    <2> QED BY <2>1, <2>2
<1>7. ColumnsFit(columns, mtFields)
    BY <1>3, <1>6, AlsoList DEF ColumnsFit
<1>8. ChoicesFit(<<>>, mtRows)
    BY DEF ChoicesFit
<1> QED BY <1>1, <1>2, <1>7, <1>8, PreviewInv

LEMMA ChooseRowsInv == ReturnInv /\ ChooseRows => ReturnInv'
<1> SUFFICES ASSUME ReturnInv, ChooseRows PROVE ReturnInv'
    OBVIOUS
<1>1. PICK choices \in RowChoices : Preview(mtStaged.columns, choices)
    BY DEF ChooseRows
<1>2. mtStep = "row_review" /\ mtRev = mtBase
    BY <1>1 DEF ChooseRows, Preview
<1>3. ColumnsFit(mtStaged.columns, mtFields)
    BY <1>2 DEF ReturnInv, StagedRule, FlexibleFit
<1>4. ChoicesFit(choices, mtRows)
    BY DEF RowChoices, ChoicesFit
<1> QED BY <1>1, <1>2, <1>3, <1>4, PreviewInv

(* Records that are there after what was staged is applied.                *)
LEMMA AppliedKeeps ==
    ASSUME ReturnInv, mtStep' = "applied", mtRev' = mtRev + 1, mtBase' = mtBase, mtBase = mtRev,
           UNCHANGED <<mtFile, mtNewer>>, RecordsRule'
    PROVE  ReturnInv'
<1>1. mtRev \in Nat
    BY DEF ReturnInv, RecordsRule
<1>2. FileRule'
    <2>1. mtFile # NoFile => IsFile(mtFile) /\ mtFile.rev <= mtRev /\ mtFile.rev \in Nat
        BY DEF ReturnInv, FileRule, IsFile
    <2>2. mtFile # NoFile => IsFile(mtFile) /\ mtFile.rev <= mtRev' /\ mtFile.rev < mtRev'
        BY <1>1, <2>1
    <2> QED BY <2>2 DEF ReturnInv, FileRule, IsFile, IsList, NoFile
<1>3. DocumentRule'
    BY DEF DocumentRule
<1>4. StagedRule'
    BY <1>1 DEF StagedRule
<1> QED BY <1>2, <1>3, <1>4 DEF ReturnInv

LEMMA ApplyFlexibleInv ==
    ASSUME ReturnInv, NEW confirmed, ApplyFlexible(confirmed)
    PROVE  ReturnInv'
<1>1. /\ mtStep = "ready" /\ mtBase = mtRev /\ mtRows' = mtStaged.rows /\ mtFields' = mtStaged.fields
      /\ mtRev' = mtRev + 1 /\ mtNext' = mtNext + Len(mtStaged.rows) /\ mtStep' = "applied"
      /\ UNCHANGED <<mtFile, mtNewer, mtBase>>
    BY DEF ApplyFlexible, Saved, BaseOf
<1>2. /\ IsList(mtStaged.fields) /\ Len(mtStaged.rows) \in Nat
      /\ RowsFit(mtStaged.rows, FieldsOf(mtStaged.fields), mtNext + Len(mtStaged.rows))
    BY <1>1 DEF ReturnInv, StagedRule, FlexibleFit
<1>3. mtRev \in Nat /\ mtNext \in Nat \ {0}
    BY DEF ReturnInv, RecordsRule
<1>4. RecordsRule'
    <2>1. mtRev' \in Nat /\ mtNext' \in Nat \ {0}
        BY <1>1, <1>2, <1>3
    <2> QED BY <1>1, <1>2, <2>1 DEF RecordsRule
<1> QED BY <1>1, <1>4, AppliedKeeps

LEMMA ApplyReturnInv ==
    ASSUME ReturnInv, NEW confirmed, ApplyReturn(confirmed)
    PROVE  ReturnInv'
<1> DEFINE deleted == IF "deletions" \in confirmed THEN mtStaged.missing ELSE {}
<1>1. /\ mtStep = "checked" /\ mtBase = mtRev /\ mtStep' = "applied"
      /\ Saved(Edited(mtStaged.changes, deleted, mtStaged.added), Len(mtStaged.added))
      /\ UNCHANGED <<mtFields, mtFile, mtNewer, mtBase>>
    BY DEF ApplyReturn, BaseOf
<1>2. /\ IsList(mtStaged.added)
      /\ \A i \in DOMAIN mtStaged.added :
            mtStaged.added[i] = [f \in FieldsOf(mtFields) |-> mtStaged.added[i][f]]
    BY <1>1 DEF ReturnInv, StagedRule, StrictFit
<1> HIDE DEF deleted
<1>3. RecordsRule' /\ mtRev' = mtRev + 1
    BY <1>1, <1>2, EditKeeps
<1> QED BY <1>1, <1>3, AppliedKeeps

LEMMA EditsInv ==
    ASSUME ReturnInv,
           (\E f \in FieldsOf(mtFields) : EditCells(f)) \/ DeleteRecord \/ AddRecord
    PROVE  \E changes, deleted, added :
              /\ IsList(added) /\ Edit(changes, deleted, added)
              /\ \A i \in DOMAIN added : added[i] = [f \in FieldsOf(mtFields) |-> added[i][f]]
<1>0. IsList(<<>>) /\ DOMAIN <<>> = {}
    BY DEF IsList
<1>1. CASE \E f \in FieldsOf(mtFields) : EditCells(f)
    <2>1. PICK f \in FieldsOf(mtFields), x \in IdsOf(mtRows), y \in IdsOf(mtRows), v \in CellValues, w \in CellValues :
              Edit([c \in {x, y} \X {f} |-> IF c[1] = x THEN v ELSE w], {}, <<>>)
        BY <1>1 DEF EditCells
    <2> QED BY <1>0, <2>1
<1>2. CASE DeleteRecord
    <2>1. PICK x \in IdsOf(mtRows) : Edit(<<>>, {x}, <<>>)
        BY <1>2 DEF DeleteRecord
    <2> QED BY <1>0, <2>1
<1>3. CASE AddRecord
    <2>1. PICK v \in CellValues : Edit(<<>>, {}, <<[f \in FieldsOf(mtFields) |-> v]>>)
        BY <1>3 DEF AddRecord
    <2> PICK values : values = [f \in FieldsOf(mtFields) |-> v]
        OBVIOUS
    <2> PICK added : added = <<values>>
        OBVIOUS
    <2>2. added = [i \in 1 .. 1 |-> added[i]] /\ DOMAIN added = {1} /\ added[1] = values
        OBVIOUS
    <2>3. IsList(added)
        BY <2>2, ListOf
    <2>4. values = [f \in FieldsOf(mtFields) |-> values[f]]
        OBVIOUS
    <2>5. \A i \in DOMAIN added : added[i] = [f \in FieldsOf(mtFields) |-> added[i][f]]
        BY <2>2, <2>4
    <2> QED BY <2>1, <2>3, <2>5
<1> QED BY <1>1, <1>2, <1>3

LEMMA ReturnInvNext == ReturnInv /\ [MtNext]_mtVars => ReturnInv'
<1> SUFFICES ASSUME ReturnInv, [MtNext]_mtVars PROVE ReturnInv'
    OBVIOUS
<1>1. CASE (\E f \in FieldsOf(mtFields) : EditCells(f)) \/ DeleteRecord \/ AddRecord
    <2>1. PICK changes, deleted, added :
              /\ IsList(added) /\ Edit(changes, deleted, added)
              /\ \A i \in DOMAIN added : added[i] = [f \in FieldsOf(mtFields) |-> added[i][f]]
        BY <1>1, EditsInv
    <2> QED BY <2>1, EditInv
<1>2. CASE Download
    BY <1>2, DownloadInv
<1>3. CASE ChangeFile
    BY <1>3, ChangeFileInv
<1>4. CASE InspectReturn
    BY <1>4, InspectInv
<1>5. CASE ChooseColumns
    BY <1>5, ChooseColumnsInv
<1>6. CASE ChooseRows
    BY <1>6, ChooseRowsInv
<1>7. CASE PreviewReturn
    BY <1>7, PreviewReturnInv
<1>8. CASE \E confirmed \in SUBSET {"stale", "structure"} : ApplyFlexible(confirmed)
    BY <1>8, ApplyFlexibleInv
<1>9. CASE \E confirmed \in SUBSET {"identity", "deletions"} : ApplyReturn(confirmed)
    BY <1>9, ApplyReturnInv
<1>10. CASE UNCHANGED mtVars
    BY <1>10 DEF mtVars, ReturnInv, RecordsRule, RowsFit, OwnIds, FieldsOf, IsList, FileRule, IsFile, NoFile,
                 DocumentRule, StagedRule
<1> QED BY <1>1, <1>2, <1>3, <1>4, <1>5, <1>6, <1>7, <1>8, <1>9, <1>10 DEF MtNext

(* However a task is edited, a workbook made of it changed in Excel and    *)
(* returned, its columns and rows chosen, shown and applied: the records   *)
(* keep identifiers of their own, before the next one, and the fields of   *)
(* the task; a file says no later revision than the task; and what is      *)
(* staged was made of the records as they are, for as long as the revision *)
(* is the one the preview was made against.                                *)
THEOREM ReturnsFit == MtSpec => []ReturnInv
<1>1. MtInit => ReturnInv
    BY ReturnInvInit
<1>2. ReturnInv /\ [MtNext]_mtVars => ReturnInv'
    BY ReturnInvNext
<1> QED BY <1>1, <1>2, PTL DEF MtSpec

(* A row whose record a flexible return does not ask for.                  *)
LEMMA FlexibleKnown ==
    ASSUME RecordsRule, NEW document, NEW columns, NEW choices, NEW n \in DOMAIN document.rows \ DOMAIN choices,
           NEW row, row = document.rows[n], NEW known, known = Provided(columns),
           NEW values, values = [f \in known |-> ValueOf(row, columns, f)],
           Carries(values, row.of, known),
           NEW fate, fate = Fate(document, columns, choices, n)
    PROVE  fate = -1 \/ AsAlike(fate, row.of, known)
<1>1. /\ row.of \in IdsOf(mtRows) /\ \A f \in known : ValueOf(row, columns, f) = ById(mtRows, row.of).values[f]
      /\ Cardinality({f \in known : values[f] # NoText}) >= 2
    BY DEF Carries
<1>2. Filled(row, columns) >= 2
    <2>1. {f \in known : values[f] # NoText} = {f \in Provided(columns) : ValueOf(row, columns, f) # NoText}
        OBVIOUS
    <2> QED BY <1>1, <2>1 DEF Filled
<1>3. PICK k \in DOMAIN mtRows : /\ mtRows[k].id = row.of /\ ById(mtRows, row.of) = mtRows[k]
                                 /\ mtRows[k] \in Range(mtRows)
    BY <1>1, RecordById
<1>4. row.of \in ContentOwners(row, columns)
    BY <1>1, <1>3 DEF ContentOwners
<1>5. fate = IF Doubtful(document, columns, row) THEN -1 ELSE row.id
    BY DEF Fate
<1>6. ASSUME ~Doubtful(document, columns, row) PROVE AsAlike(row.id, row.of, known)
    <2>1. row.id # 0 /\ row.id \in ContentOwners(row, columns)
        BY <1>2, <1>4, <1>6 DEF Doubtful
    <2>2. PICK r \in Range(mtRows) : r.id = row.id /\ \A f \in Provided(columns) : r.values[f] = ValueOf(row, columns, f)
        BY <2>1 DEF ContentOwners
    <2>3. PICK m \in DOMAIN mtRows : r = mtRows[m]
        BY DEF Range
    <2>4. row.id \in IdsOf(mtRows) /\ ById(mtRows, row.id) = r
        BY <2>2, <2>3, FoundById DEF RecordsRule, RowsFit
    <2> QED BY <1>1, <2>2, <2>4 DEF AsAlike
<1> QED BY <1>5, <1>6

(* A row with the cells of a record is given to one with those cells.      *)
LEMMA KeptIdentity == ReturnInv => IdentityIsKept
<1> SUFFICES ASSUME ReturnInv PROVE IdentityIsKept
    OBVIOUS
<1>1. RecordsRule
    BY DEF ReturnInv
<1>2. ASSUME NEW n \in DOMAIN mtDocument.rows \ DOMAIN mtStaged.choices
      PROVE  LET row == mtDocument.rows[n] known == Provided(mtStaged.columns)
                 values == [f \in known |-> ValueOf(row, mtStaged.columns, f)]
                 fate == Fate(mtDocument, mtStaged.columns, mtStaged.choices, n)
             IN  Carries(values, row.of, known) => fate = -1 \/ AsAlike(fate, row.of, known)
    <2> PICK row, known : row = mtDocument.rows[n] /\ known = Provided(mtStaged.columns)
        OBVIOUS
    <2> PICK values : values = [f \in known |-> ValueOf(row, mtStaged.columns, f)]
        OBVIOUS
    <2> PICK fate : fate = Fate(mtDocument, mtStaged.columns, mtStaged.choices, n)
        OBVIOUS
    <2>1. Carries(values, row.of, known) => fate = -1 \/ AsAlike(fate, row.of, known)
        BY <1>1, FlexibleKnown
    <2> QED BY <2>1
<1>3. ASSUME mtStep = "checked", mtRev = mtBase, ~mtStaged.warned, NEW row \in Range(mtStaged.rows),
             Carries(StrictValues(row), row.of, FieldsOf(mtFields))
      PROVE  \/ AsAlike(row.id, row.of, FieldsOf(mtFields))
             \/ row.id = 0 /\ \E r \in Range(mtStaged.rows) : r.id = row.of
    <2>1. RowsKnown(mtStaged, mtFields, mtRows)
        BY <1>3 DEF ReturnInv, StagedRule, StrictFit
    <2>2. row.of \in IdsOf(mtRows) /\ \A f \in FieldsOf(mtFields) : CellOf(row, mtFields, f) = ById(mtRows, row.of).values[f]
        BY <1>3, StrictValuesAre DEF Carries
    <2> QED BY <2>1, <2>2 DEF RowsKnown, AsAlike
<1> QED BY <1>2, <1>3 DEF IdentityIsKept

(* Whatever is done to a file in Excel: a returned row that still has the  *)
(* cells of the record it was made of becomes that record or one with the  *)
(* same cells, unless a person chose for it, was asked or warned, or the   *)
(* record has another row (return_import.reconcile,                        *)
(* TaskService.preview_return).                                            *)
THEOREM IdentityKept == MtSpec => []IdentityIsKept
BY ReturnsFit, KeptIdentity, PTL

(* A value is another one only where a change reaches it.                  *)
LEMMA ChangedRecord ==
    ASSUME RecordsRule, NEW changes, NEW deleted, NEW n \in DOMAIN mtRows
    PROVE  /\ IsRecord(Changed(changes, deleted)[n], FieldsOf(mtFields))
           /\ Changed(changes, deleted)[n].id = mtRows[n].id
           /\ Changed(changes, deleted)[n].groups = mtRows[n].groups
           /\ \A f \in FieldsOf(mtFields) :
                 Changed(changes, deleted)[n].values[f] # mtRows[n].values[f]
                 => Reaching(mtRows, changes, mtRows[n].id, f) # {}
<1> PICK W : W = Changed(changes, deleted)
    OBVIOUS
<1>1. W = Rewritten(mtRows, Expanded(mtRows, changes, deleted))
    BY DEF Changed
<1>2. /\ IsRecord(W[n], FieldsOf(mtFields)) /\ W[n].id = mtRows[n].id /\ W[n].groups = mtRows[n].groups
      /\ \A f \in FieldsOf(mtFields) : W[n].values[f] = NewValue(changes, deleted, mtRows[n], f)
    BY <1>1, RewrittenRows
<1> QED BY <1>2 DEF NewValue

(* A cell that an edit changed is one a change reaches; a record that is   *)
(* lost was deleted.                                                       *)
LEMMA EditedCells ==
    ASSUME RecordsRule, NEW changes, NEW deleted, NEW added, IsList(added),
           \A i \in DOMAIN added : added[i] = [f \in FieldsOf(mtFields) |-> added[i][f]]
    PROVE  /\ IdsOf(mtRows) \ IdsOf(Edited(changes, deleted, added)) \subseteq deleted
           /\ \A x \in ChangedCells(mtRows, Edited(changes, deleted, added)) :
                 \E y \in DOMAIN changes : x[2] = y[2] /\ x[1] \in Shared(mtRows, y[1], y[2])
<1> PICK new : new = Edited(changes, deleted, added)
    OBVIOUS
<1>1. /\ \A n \in Left(deleted) : /\ mtRows[n].id \in IdsOf(new)
                                  /\ ById(new, mtRows[n].id) = Changed(changes, deleted)[n]
      /\ \A n \in DOMAIN mtRows : mtRows[n].id \in IdsOf(new) => n \in Left(deleted)
    BY EditedFit
<1>2. IdsOf(mtRows) \ IdsOf(new) \subseteq deleted
    <2> SUFFICES ASSUME NEW x \in IdsOf(mtRows), x \notin IdsOf(new) PROVE x \in deleted
        OBVIOUS
    <2>1. PICK n \in DOMAIN mtRows : mtRows[n].id = x
        BY DEF IdsOf
    <2> QED BY <1>1, <2>1 DEF Left
<1>3. ASSUME NEW x \in ChangedCells(mtRows, new)
      PROVE  \E y \in DOMAIN changes : x[2] = y[2] /\ x[1] \in Shared(mtRows, y[1], y[2])
    <2>1. /\ x[1] \in IdsOf(mtRows) /\ x[1] \in IdsOf(new) /\ x[2] \in DOMAIN ById(new, x[1]).values
          /\ ById(new, x[1]).values[x[2]] # (IF x[2] \in DOMAIN ById(mtRows, x[1]).values
                                             THEN ById(mtRows, x[1]).values[x[2]] ELSE NoText)
        BY DEF ChangedCells
    <2> PICK f : f = x[2]
        OBVIOUS
    <2>2. PICK n \in DOMAIN mtRows : /\ mtRows[n].id = x[1] /\ ById(mtRows, x[1]) = mtRows[n]
                                     /\ IsRecord(mtRows[n], FieldsOf(mtFields))
        BY <2>1, RecordById
    <2>3. n \in Left(deleted) /\ ById(new, x[1]) = Changed(changes, deleted)[n]
        BY <1>1, <2>1, <2>2
    <2> PICK r : r = Changed(changes, deleted)[n]
        OBVIOUS
    <2>4. /\ IsRecord(r, FieldsOf(mtFields))
          /\ \A g \in FieldsOf(mtFields) :
                r.values[g] # mtRows[n].values[g] => Reaching(mtRows, changes, mtRows[n].id, g) # {}
        BY ChangedRecord
    <2>5. f \in FieldsOf(mtFields) /\ f \in DOMAIN mtRows[n].values
        <3>1. DOMAIN r.values = FieldsOf(mtFields) /\ DOMAIN mtRows[n].values = FieldsOf(mtFields)
            BY <2>2, <2>4 DEF IsRecord
        <3> QED BY <2>1, <2>3, <3>1
    <2>6. r.values[f] # mtRows[n].values[f]
        BY <2>1, <2>2, <2>3, <2>5
    <2>7. Reaching(mtRows, changes, mtRows[n].id, f) # {}
        BY <2>4, <2>5, <2>6
    <2>8. PICK c \in DOMAIN changes : c[2] = f /\ mtRows[n].id \in Shared(mtRows, c[1], c[2])
        BY <2>7 DEF Reaching
    <2> QED BY <2>2, <2>8
<1> QED BY <1>2, <1>3

(* What AppliedAsShown says of a step.                                     *)
ShownStep ==
    (mtStep # "applied" /\ mtStep' = "applied") =>
       LET changed == ChangedCells(mtRows, mtRows')
           lost == IdsOf(mtRows) \ IdsOf(mtRows')
           confirmed == mtStaged'.confirmed IN
       /\ lost \subseteq mtStaged.missing
       /\ \A x \in changed : \E y \in mtStaged.changed :
            x = y \/ (mtStep = "checked" /\ x[2] = y[2] /\ x[1] \in Shared(mtRows, y[1], y[2]))
       /\ (mtStep = "checked" /\ lost # {}) => "deletions" \in confirmed
       /\ (changed \cap mtNewer # {}) => "stale" \in confirmed
       /\ mtFields' # mtFields => "structure" \in confirmed

LEMMA FlexibleShown ==
    ASSUME ReturnInv, NEW confirmed, ApplyFlexible(confirmed)
    PROVE  ShownStep
<1>1. /\ mtStep = "ready" /\ mtBase = mtRev /\ mtRows' = mtStaged.rows /\ mtFields' = mtStaged.fields
      /\ mtStaged' = [mtStaged EXCEPT !.confirmed = confirmed]
      /\ mtDocument.stale => "stale" \in confirmed
      /\ mtStaged.structure => "structure" \in confirmed
    BY DEF ApplyFlexible, Saved, BaseOf
<1>2. /\ "confirmed" \in DOMAIN mtStaged
      /\ mtStaged.changed = ChangedCells(mtRows, mtStaged.rows)
      /\ mtStaged.missing = IdsOf(mtRows) \ IdsOf(mtStaged.rows)
      /\ ~mtStaged.structure => mtStaged.fields = mtFields
    BY <1>1 DEF ReturnInv, StagedRule, FlexibleFit
<1>3. mtStaged'.confirmed = confirmed
    BY <1>1, <1>2
<1>4. mtNewer # {} => "stale" \in confirmed
    <2>1. mtNewer # {} => mtFile.rev < mtRev
        BY DEF ReturnInv, FileRule
    <2>2. mtDocument.stale = (mtFile.rev < mtBase)
        BY <1>1 DEF ReturnInv, DocumentRule
    <2> QED BY <1>1, <2>1, <2>2
<1> QED BY <1>1, <1>2, <1>3, <1>4 DEF ShownStep

LEMMA ReturnShown ==
    ASSUME ReturnInv, NEW confirmed, ApplyReturn(confirmed)
    PROVE  ShownStep
<1> DEFINE deleted == IF "deletions" \in confirmed THEN mtStaged.missing ELSE {}
<1>1. /\ mtStep = "checked" /\ mtBase = mtRev /\ mtRows' = Edited(mtStaged.changes, deleted, mtStaged.added)
      /\ mtStaged' = [mtStaged EXCEPT !.confirmed = confirmed] /\ mtFields' = mtFields
    BY DEF ApplyReturn, Saved, BaseOf
<1>2. /\ "confirmed" \in DOMAIN mtStaged /\ DOMAIN mtStaged.changes = mtStaged.changed
      /\ IsList(mtStaged.added)
      /\ \A i \in DOMAIN mtStaged.added :
            mtStaged.added[i] = [f \in FieldsOf(mtFields) |-> mtStaged.added[i][f]]
      /\ mtFile.rev = mtRev /\ RecordsRule
    BY <1>1 DEF ReturnInv, StagedRule, StrictFit
<1>3. mtStaged'.confirmed = confirmed
    BY <1>1, <1>2
<1>4. deleted \subseteq mtStaged.missing /\ (deleted # {} => "deletions" \in confirmed)
    OBVIOUS
<1> HIDE DEF deleted
<1>5. /\ IdsOf(mtRows) \ IdsOf(mtRows') \subseteq deleted
      /\ \A x \in ChangedCells(mtRows, mtRows') :
            \E y \in mtStaged.changed : x[2] = y[2] /\ x[1] \in Shared(mtRows, y[1], y[2])
    <2> PICK changes, added : changes = mtStaged.changes /\ added = mtStaged.added
        OBVIOUS
    <2>0. IsList(added) /\ \A i \in DOMAIN added : added[i] = [f \in FieldsOf(mtFields) |-> added[i][f]]
        BY <1>2
    <2>1. /\ IdsOf(mtRows) \ IdsOf(Edited(changes, deleted, added)) \subseteq deleted
          /\ \A x \in ChangedCells(mtRows, Edited(changes, deleted, added)) :
                \E y \in DOMAIN changes : x[2] = y[2] /\ x[1] \in Shared(mtRows, y[1], y[2])
        BY <1>2, <2>0, EditedCells
    <2> QED BY <1>1, <1>2, <2>1
<1>6. mtNewer = {}
    <2>1. mtNewer # {} => mtFile.rev < mtRev
        BY DEF ReturnInv, FileRule
    <2>2. ~(mtRev < mtRev)
        BY DEF ReturnInv, RecordsRule
    <2> QED BY <1>2, <2>1, <2>2
<1> QED BY <1>1, <1>3, <1>4, <1>5, <1>6 DEF ShownStep

LEMMA StepShown == ReturnInv /\ [MtNext]_mtVars => ShownStep
<1> SUFFICES ASSUME ReturnInv, [MtNext]_mtVars, mtStep # "applied", mtStep' = "applied" PROVE ShownStep
    BY DEF ShownStep
<1>1. \/ \E confirmed \in SUBSET {"stale", "structure"} : ApplyFlexible(confirmed)
      \/ \E confirmed \in SUBSET {"identity", "deletions"} : ApplyReturn(confirmed)
    BY DEF MtNext, mtVars, EditCells, DeleteRecord, AddRecord, Edit, Download, ChangeFile, InspectReturn, Upload,
           ChooseColumns, ChooseRows, Preview, PreviewReturn
<1> QED BY <1>1, FlexibleShown, ReturnShown

(* A confirmed return loses no record and changes no cell but those its    *)
(* preview shows or that share a merged cell with one of them, and it      *)
(* deletes, writes over what was edited since the download or alters the   *)
(* columns only where that was confirmed (TaskService.apply_return,        *)
(* _apply_flexible_return).                                                *)
THEOREM ShownIsApplied == MtSpec => AppliedAsShown
<1>1. ReturnInv /\ [MtNext]_mtVars => [ShownStep]_mtVars
    BY StepShown
<1> QED BY <1>1, ReturnsFit, PTL DEF MtSpec, AppliedAsShown, ShownStep

(* The same cell is one for each that has it.                              *)
LEMMA SameCellSym ==
    ASSUME NEW a, NEW b, NEW f, SameCell(a, b, f)
    PROVE  SameCell(b, a, f)
BY DEF SameCell

LEMMA SameCellTrans ==
    ASSUME NEW a, NEW b, NEW c, NEW f, SameCell(a, b, f), SameCell(b, c, f)
    PROVE  SameCell(a, c, f)
BY DEF SameCell

(* A change that reaches one of the records of a cell reaches the others.  *)
LEMMA SharedByAll ==
    ASSUME RecordsRule, NEW m \in DOMAIN mtRows, NEW n \in DOMAIN mtRows, NEW f,
           SameCell(mtRows[m], mtRows[n], f), NEW x, mtRows[m].id \in Shared(mtRows, x, f)
    PROVE  mtRows[n].id \in Shared(mtRows, x, f)
<1>1. ById(mtRows, mtRows[m].id) = mtRows[m]
    BY FoundById DEF RecordsRule, RowsFit
<1>2. SameCell(ById(mtRows, x), mtRows[n], f)
    <2>1. CASE x = mtRows[m].id
        BY <1>1, <2>1
    <2>2. CASE x # mtRows[m].id
        <3>1. PICK r \in Range(mtRows) : SameCell(ById(mtRows, x), r, f) /\ r.id = mtRows[m].id
            BY <2>2 DEF Shared
        <3>2. PICK k \in DOMAIN mtRows : r = mtRows[k]
            BY DEF Range
        <3>3. k = m
            BY <3>1, <3>2 DEF RecordsRule, RowsFit, OwnIds
        <3>4. SameCell(ById(mtRows, x), mtRows[m], f)
            BY <3>1, <3>2, <3>3
        <3> QED BY <3>4, SameCellTrans
    <2> QED BY <2>1, <2>2
<1>3. mtRows[n] \in Range(mtRows)
    BY DEF Range
<1> QED BY <1>2, <1>3 DEF Shared

LEMMA ReachedAlike ==
    ASSUME RecordsRule, NEW m \in DOMAIN mtRows, NEW n \in DOMAIN mtRows, NEW f,
           SameCell(mtRows[m], mtRows[n], f), NEW changes
    PROVE  Reaching(mtRows, changes, mtRows[m].id, f) = Reaching(mtRows, changes, mtRows[n].id, f)
<1>1. SameCell(mtRows[n], mtRows[m], f)
    BY SameCellSym
<1>2. \A x : mtRows[m].id \in Shared(mtRows, x, f) <=> mtRows[n].id \in Shared(mtRows, x, f)
    BY <1>1, SharedByAll
<1> QED BY <1>2 DEF Reaching

(* Records of one cell that are left are of one cell after an edit.        *)
LEMMA CellStaysOne ==
    ASSUME RecordsRule, NEW changes, NEW deleted, NEW m \in Left(deleted), NEW n \in Left(deleted),
           NEW f \in FieldsOf(mtFields), SameCell(mtRows[m], mtRows[n], f)
    PROVE  SameCell(Changed(changes, deleted)[m], Changed(changes, deleted)[n], f)
<1> PICK W : W = Changed(changes, deleted)
    OBVIOUS
<1>1. W = Rewritten(mtRows, Expanded(mtRows, changes, deleted))
    BY DEF Changed
<1>2. /\ m \in DOMAIN mtRows /\ n \in DOMAIN mtRows
      /\ mtRows[m].id \notin deleted /\ mtRows[n].id \notin deleted
    BY DEF Left
<1>3. /\ W[m].groups = mtRows[m].groups /\ W[n].groups = mtRows[n].groups
      /\ W[m].values[f] = NewValue(changes, deleted, mtRows[m], f)
      /\ W[n].values[f] = NewValue(changes, deleted, mtRows[n], f)
    BY <1>1, <1>2, RewrittenRows
<1>4. Reaching(mtRows, changes, mtRows[m].id, f) = Reaching(mtRows, changes, mtRows[n].id, f)
    BY <1>2, ReachedAlike
<1>5. mtRows[m].values[f] = mtRows[n].values[f] /\ mtRows[m].groups[f] # NoGroup
      /\ mtRows[m].groups[f] = mtRows[n].groups[f]
    BY DEF SameCell
<1>6. NewValue(changes, deleted, mtRows[m], f) = NewValue(changes, deleted, mtRows[n], f)
    BY <1>2, <1>4, <1>5 DEF NewValue
<1> QED BY <1>3, <1>5, <1>6 DEF SameCell

LEMMA GreatestBelow ==
    ASSUME NEW n \in Nat, NEW T \in SUBSET (0 .. n), T # {}
    PROVE  \E x \in T : \A y \in T : y <= x
<1> DEFINE S == {n - x : x \in T}
<1>1. S \in SUBSET Nat /\ S # {}
    <2>1. \A x \in T : n - x \in Nat
        OBVIOUS
    <2> QED BY <2>1
<1>2. PICK y \in S : \A z \in S : y <= z
    <2> HIDE DEF S
    <2> QED BY <1>1, LeastOf
<1>3. PICK x \in T : y = n - x
    BY <1>2
<1>4. \A z \in T : n - x <= n - z /\ z \in Int
    BY <1>2, <1>3
<1>5. x \in Int
    OBVIOUS
<1>6. \A z \in T : z <= x
    BY <1>4, <1>5
<1> QED BY <1>6

(* Adjacent records of one cell are within a span.                         *)
LEMMA WithinSpan ==
    ASSUME NEW rows, IsList(rows), NEW f, NEW a \in DOMAIN rows, NEW b \in DOMAIN rows, a < b,
           \A k \in a .. b : SameCell(rows[a], rows[k], f)
    PROVE  \E q \in Spans(rows, f) : q[1] <= a /\ b <= q[2] /\ q[1] \in Nat /\ q[2] \in Nat
<1> DEFINE n == Len(rows)
<1>1. n \in Nat /\ DOMAIN rows = 1 .. n
    BY ListShape
<1> HIDE DEF n
<1>2. a \in Nat /\ b \in Nat /\ 1 <= a /\ a < b /\ b <= n
    BY <1>1
<1> DEFINE Run(x, y) == \A k \in x .. y : SameCell(rows[a], rows[k], f)
           Lo == {x \in 1 .. a : Run(x, a)}
           Hi == {y \in b .. n : Run(b, y)}
<1>3. SameCell(rows[a], rows[a], f) /\ SameCell(rows[a], rows[b], f)
    BY <1>2
<1>4. a \in Lo /\ b \in Hi
    <2>1. \A k \in a .. a : k = a
        BY <1>2
    <2>2. \A k \in b .. b : k = b
        BY <1>2
    <2> QED BY <1>2, <1>3, <2>1, <2>2
<1>5. PICK x \in Lo : \A y \in Lo : x <= y
    <2>1. Lo \in SUBSET Nat /\ Lo # {}
        BY <1>4
    <2> HIDE DEF Lo
    <2> QED BY <2>1, LeastOf
<1>6. PICK z \in Hi : \A y \in Hi : y <= z
    <2>1. Hi \in SUBSET (0 .. n) /\ Hi # {}
        BY <1>2, <1>4
    <2> HIDE DEF Hi
    <2> QED BY <1>1, <2>1, GreatestBelow
<1>7. /\ x \in Nat /\ 1 <= x /\ x <= a /\ \A k \in x .. a : SameCell(rows[a], rows[k], f)
      /\ z \in Nat /\ b <= z /\ z <= n /\ \A k \in b .. z : SameCell(rows[a], rows[k], f)
    BY <1>2, <1>5, <1>6
<1>8. \A k \in x .. z : SameCell(rows[a], rows[k], f)
    <2> SUFFICES ASSUME NEW k \in x .. z PROVE SameCell(rows[a], rows[k], f)
        OBVIOUS
    <2>1. k \in x .. a \/ k \in a .. b \/ k \in b .. z
        BY <1>2, <1>7
    <2> QED BY <1>7, <2>1
<1>9. ASSUME x > 1, SameCell(rows[x - 1], rows[x], f) PROVE FALSE
    <2>1. SameCell(rows[a], rows[x], f)
        BY <1>2, <1>7, <1>8
    <2>2. SameCell(rows[x], rows[x - 1], f)
        BY <1>9, SameCellSym
    <2>3. SameCell(rows[a], rows[x - 1], f)
        BY <2>1, <2>2, SameCellTrans
    <2>4. \A k \in (x - 1) .. a : k = x - 1 \/ k \in x .. a
        BY <1>2, <1>7
    <2>5. x - 1 \in 1 .. a /\ \A k \in (x - 1) .. a : SameCell(rows[a], rows[k], f)
        BY <1>2, <1>7, <1>9, <2>3, <2>4
    <2>6. x - 1 \in Lo
        BY <2>5
    <2>7. x <= x - 1
        BY <1>5, <2>6
    <2> QED BY <1>7, <2>7
<1>10. ASSUME z < n, SameCell(rows[z + 1], rows[z], f) PROVE FALSE
    <2>1. SameCell(rows[a], rows[z], f)
        BY <1>2, <1>7, <1>8
    <2>2. SameCell(rows[z], rows[z + 1], f)
        BY <1>10, SameCellSym
    <2>3. SameCell(rows[a], rows[z + 1], f)
        BY <2>1, <2>2, SameCellTrans
    <2>4. \A k \in b .. (z + 1) : k = z + 1 \/ k \in b .. z
        BY <1>2, <1>7
    <2>5. z + 1 \in b .. n /\ \A k \in b .. (z + 1) : SameCell(rows[a], rows[k], f)
        BY <1>1, <1>2, <1>7, <1>10, <2>3, <2>4
    <2>6. z + 1 \in Hi
        BY <2>5
    <2>7. z + 1 <= z
        BY <1>6, <2>6
    <2> QED BY <1>7, <2>7
<1> HIDE DEF Lo, Hi, Run
<1>11. \A k \in x .. z : SameCell(rows[x], rows[k], f)
    <2> SUFFICES ASSUME NEW k \in x .. z PROVE SameCell(rows[x], rows[k], f)
        OBVIOUS
    <2>1. SameCell(rows[a], rows[x], f)
        BY <1>2, <1>7, <1>8
    <2>2. SameCell(rows[x], rows[a], f)
        BY <2>1, SameCellSym
    <2> QED BY <1>8, <2>2, SameCellTrans
<1>12. x \in 1 .. n /\ z \in 1 .. n /\ x < z
    BY <1>1, <1>2, <1>7
<1> PICK q : q = <<x, z>>
    OBVIOUS
<1>13. q \in Spans(rows, f) /\ q[1] = x /\ q[2] = z
    BY <1>9, <1>10, <1>11, <1>12 DEF Spans, n
<1> QED BY <1>7, <1>13

(* What MergesSurviveEdits says of a step.                                 *)
MergedStep ==
    mtEdits' # mtEdits =>
       \A f \in FieldsOf(mtFields) : \A p \in Spans(mtRows, f) :
         LET left == {mtRows[i].id : i \in p[1]..p[2]} \cap IdsOf(mtRows') IN
         Cardinality(left) > 1 =>
           \E q \in Spans(mtRows', f) : left \subseteq {mtRows'[i].id : i \in q[1]..q[2]}

LEMMA TwoOf ==
    ASSUME NEW S, Cardinality(S) > 1
    PROVE  \E x, y \in S : x # y
<1>1. S # {}
    <2>1. Cardinality({}) = 0
        BY FS_EmptySet
    <2> QED BY <2>1
<1>2. \A x : S # {x}
    <2>1. \A x : Cardinality({x}) = 1
        BY FS_Singleton
    <2> QED BY <2>1
<1>3. PICK x \in S : TRUE
    BY <1>1
<1>4. PICK y \in S : y # x
    BY <1>2, <1>3
<1> QED BY <1>3, <1>4

LEMMA EveryPlace ==
    \A n \in Nat : \A K \in SUBSET (1 .. n) : \A m \in 1 .. Cardinality(K) : \E i \in K : PlaceOf(K, i) = m
BY PlacesOf

LEMMA SpanStays ==
    ASSUME RecordsRule, NEW changes, NEW deleted, NEW added, IsList(added),
           \A i \in DOMAIN added : added[i] = [f \in FieldsOf(mtFields) |-> added[i][f]],
           NEW new, new = Edited(changes, deleted, added),
           NEW f \in FieldsOf(mtFields), NEW p \in Spans(mtRows, f),
           NEW left, left = {mtRows[i].id : i \in p[1]..p[2]} \cap IdsOf(new), Cardinality(left) > 1
    PROVE  \E q \in Spans(new, f) : left \subseteq {new[i].id : i \in q[1]..q[2]}
<1> PICK K : K = Left(deleted)
    OBVIOUS
<1> PICK W : W = Changed(changes, deleted)
    OBVIOUS
<1>1. /\ IsList(new) /\ Cardinality(K) \in Nat /\ DOMAIN new = 1 .. Len(new)
      /\ \A n \in K : /\ PlaceOf(K, n) \in DOMAIN new /\ PlaceOf(K, n) \in 1 .. Cardinality(K)
                      /\ new[PlaceOf(K, n)] = W[n]
      /\ \A m, n \in K : m < n <=> PlaceOf(K, m) < PlaceOf(K, n)
    BY EditedRows
<1>2. \A n \in DOMAIN mtRows : mtRows[n].id \in IdsOf(new) => n \in K
    BY EditedFit
<1>3. /\ p[1] \in 1 .. Len(mtRows) /\ p[2] \in 1 .. Len(mtRows)
      /\ \A i \in p[1] .. p[2] : SameCell(mtRows[p[1]], mtRows[i], f)
    BY DEF Spans
<1>4. Len(mtRows) \in Nat /\ DOMAIN mtRows = 1 .. Len(mtRows) /\ K \in SUBSET (1 .. Len(mtRows))
    BY ListShape DEF RecordsRule, RowsFit, Left
<1>16. \A m \in 1 .. Cardinality(K) : \E n \in K : PlaceOf(K, n) = m
    BY <1>4, EveryPlace
<1> DEFINE L == {i \in K : i \in p[1] .. p[2]}
<1>5. L \in SUBSET (0 .. Len(mtRows)) /\ L \in SUBSET Nat
    BY <1>4
<1>6. \A x \in left : \E i \in L : x = mtRows[i].id
    <2> SUFFICES ASSUME NEW x \in left PROVE \E i \in L : x = mtRows[i].id
        OBVIOUS
    <2>1. PICK i \in p[1] .. p[2] : x = mtRows[i].id
        OBVIOUS
    <2>2. i \in DOMAIN mtRows
        BY <1>3, <1>4
    <2> QED BY <1>2, <2>1, <2>2
<1>7. \E x, y \in left : x # y
    BY TwoOf
<1>8. PICK i \in L, j \in L : i # j
    BY <1>6, <1>7
<1>9. PICK a \in L : \A k \in L : a <= k
    <2> HIDE DEF L
    <2> QED BY <1>5, <1>8, LeastOf
<1>10. PICK b \in L : \A k \in L : k <= b
    <2> HIDE DEF L
    <2> QED BY <1>4, <1>5, <1>8, GreatestBelow
<1>11. a < b /\ a \in Nat /\ b \in Nat
    <2>1. a <= i /\ a <= j /\ i <= b /\ j <= b
        BY <1>9, <1>10
    <2>2. a \in Nat /\ b \in Nat /\ i \in Nat /\ j \in Nat
        BY <1>5
    <2> HIDE DEF L
    <2> QED BY <1>8, <2>1, <2>2
<1> PICK A, B : A = PlaceOf(K, a) /\ B = PlaceOf(K, b)
    OBVIOUS
<1>12. /\ a \in K /\ b \in K /\ A \in DOMAIN new /\ B \in DOMAIN new /\ A < B
       /\ A \in 1 .. Cardinality(K) /\ B \in 1 .. Cardinality(K)
    BY <1>1, <1>11
<1>13. ASSUME NEW k \in A .. B PROVE SameCell(new[A], new[k], f)
    <2>1. k \in 1 .. Cardinality(K)
        BY <1>1, <1>12
    <2>2. PICK n \in K : PlaceOf(K, n) = k
        BY <1>16, <2>1
    <2>3. ~(n < a) /\ ~(b < n)
        <3>1. ~(k < A) /\ ~(B < k)
            BY <1>1, <1>12
        <3> QED BY <1>1, <1>12, <2>2, <3>1
    <2>4. n \in p[1] .. p[2] /\ a \in p[1] .. p[2]
        <3>1. n \in Nat /\ p[1] \in Nat /\ p[2] \in Nat /\ p[1] <= a /\ b <= p[2] /\ a <= p[2]
            BY <1>3, <1>4, <1>5, <1>11
        <3> QED BY <1>11, <2>3, <3>1
    <2>5. SameCell(mtRows[a], mtRows[n], f)
        <3>1. SameCell(mtRows[p[1]], mtRows[a], f) /\ SameCell(mtRows[p[1]], mtRows[n], f)
            BY <1>3, <2>4
        <3>2. SameCell(mtRows[a], mtRows[p[1]], f)
            BY <3>1, SameCellSym
        <3> QED BY <3>1, <3>2, SameCellTrans
    <2>6. SameCell(W[a], W[n], f)
        BY <1>12, <2>5, CellStaysOne
    <2> QED BY <1>1, <1>12, <2>2, <2>6
<1>14. PICK q \in Spans(new, f) : q[1] <= A /\ B <= q[2] /\ q[1] \in Nat /\ q[2] \in Nat
    BY <1>1, <1>12, <1>13, WithinSpan
<1>15. left \subseteq {new[k].id : k \in q[1]..q[2]}
    <2> SUFFICES ASSUME NEW x \in left PROVE \E k \in q[1] .. q[2] : x = new[k].id
        OBVIOUS
    <2>1. PICK n \in L : x = mtRows[n].id
        BY <1>6
    <2>2. a <= n /\ n <= b /\ n \in Nat /\ n \in K
        BY <1>5, <1>9, <1>10
    <2>3. PlaceOf(K, n) \in Nat /\ A \in Nat /\ B \in Nat
        BY <1>1, <1>12, <2>2
    <2>4. A <= PlaceOf(K, n) /\ PlaceOf(K, n) <= B
        <3>1. ~(PlaceOf(K, n) < A) /\ ~(B < PlaceOf(K, n))
            <4>1. ~(n < a) /\ ~(b < n)
                BY <1>11, <2>2
            <4> QED BY <1>1, <1>12, <2>2, <4>1
        <3> QED BY <2>3, <3>1
    <2>5. PlaceOf(K, n) \in q[1] .. q[2]
        BY <1>14, <2>3, <2>4
    <2>6. new[PlaceOf(K, n)].id = mtRows[n].id
        <3>1. n \in DOMAIN mtRows
            BY <1>4, <2>2
        <3>2. W[n].id = mtRows[n].id
            BY <3>1, ChangedRecord
        <3> QED BY <1>1, <2>2, <3>2
    <2> QED BY <2>1, <2>5, <2>6
<1> QED BY <1>14, <1>15

LEMMA StepMerged == ReturnInv /\ [MtNext]_mtVars => MergedStep
<1> SUFFICES ASSUME ReturnInv, [MtNext]_mtVars, mtEdits' # mtEdits PROVE MergedStep
    BY DEF MergedStep
<1>1. (\E f \in FieldsOf(mtFields) : EditCells(f)) \/ DeleteRecord \/ AddRecord
    BY DEF MtNext, mtVars, Download, ChangeFile, InspectReturn, Upload,
           ChooseColumns, ChooseRows, Preview, PreviewReturn, ApplyFlexible, ApplyReturn
<1>2. PICK changes, deleted, added :
              /\ IsList(added) /\ Edit(changes, deleted, added)
              /\ \A i \in DOMAIN added : added[i] = [f \in FieldsOf(mtFields) |-> added[i][f]]
    BY <1>1, EditsInv
<1> PICK new : new = Edited(changes, deleted, added)
    OBVIOUS
<1>3. mtRows' = new /\ RecordsRule
    BY <1>2 DEF Edit, Saved, ReturnInv
<1>4. ASSUME NEW f \in FieldsOf(mtFields), NEW p \in Spans(mtRows, f),
             NEW left, left = {mtRows[i].id : i \in p[1]..p[2]} \cap IdsOf(new), Cardinality(left) > 1
      PROVE  \E q \in Spans(new, f) : left \subseteq {new[i].id : i \in q[1]..q[2]}
    BY <1>2, <1>3, <1>4, SpanStays
<1> QED BY <1>3, <1>4 DEF MergedStep

(* The records of a merged range that remain after an edit or a deletion   *)
(* in the browser are in one merged range still (TaskService.edit,         *)
(* source_merges.expand_shared_changes).                                   *)
THEOREM MergesSurvive == MtSpec => MergesSurviveEdits
<1>1. ReturnInv /\ [MtNext]_mtVars => [MergedStep]_mtVars
    BY StepMerged
<1> QED BY <1>1, ReturnsFit, PTL DEF MtSpec, MergesSurviveEdits, MergedStep

=============================================================================
