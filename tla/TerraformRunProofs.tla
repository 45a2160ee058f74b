-------------------------- MODULE TerraformRunProofs --------------------------
(***************************************************************************)
(* What a Terraform command may rely on, for any page size and limit, any  *)
(* number of rows, accounts, settings and entries: the call keeps its      *)
(* contract, a published list is complete, and the approved action is the  *)
(* one that is carried out.                                                *)
(***************************************************************************)
EXTENDS TerraformRun, FiniteSetTheorems, SequenceTheorems, TLAPS

-----------------------------------------------------------------------------
\* A traversal: its inductive invariant, and one lemma for each of its steps and
\* for each change of the collection under it.

Listed == {rows[i] : i \in 1 .. Len(rows)}

\* Nothing can have moved towards the pages that have been read: no row has gone, or
\* the total that the first page gave has stayed although none has come.
Undisturbed == \/ Len(rows) = born
               \/ list = "counted" /\ born = before /\ total \in {None, Len(rows)}

\* What has not been collected is still ahead.
Ahead == \A i \in 1 .. Len(rows) :
            rows[i] \in got \/ rows[i] > before \/ i > (page - 1) * PageSize

Numbered ==
    /\ Len(rows) <= born /\ before <= born
    /\ \A i, j \in 1 .. Len(rows) : rows[i] = rows[j] => i = j

Traversal ==
    /\ size = Cardinality(got)
    /\ reading = "off" => page = 1 /\ total = None /\ got = {}
    /\ reading = "reading" =>
        /\ page = 1 => got = {} /\ total = None
        /\ list = "counted" /\ page > 1 => total # None
        /\ list = "counted" /\ born = before /\ total # None => Len(rows) <= total
        /\ Undisturbed => Ahead /\ got \subseteq Listed

Published ==
    reading = "published" =>
        (~SomeRemoved \/ (list = "counted" /\ ~SomeInserted) => Steady \subseteq got)

ListInv == ListTypeOK /\ Numbered /\ Traversal /\ Published

-----------------------------------------------------------------------------
\* A function on 1 .. n is a sequence of length n.
LEMMA FunctionIsSeq ==
    ASSUME NEW S, NEW n \in Nat, NEW f \in [1 .. n -> S]
    PROVE  f \in Seq(S) /\ Len(f) = n
<1>1. f \in Seq(S) BY SeqDef
<1>2. DOMAIN f = 1 .. n OBVIOUS
<1>3. DOMAIN f = 1 .. Len(f) /\ Len(f) \in Nat BY <1>1, LenProperties
<1> QED BY <1>1, <1>2, <1>3

\* The fields of the list's type that the steps need.
LEMMA ListTypes ==
    ASSUME ListTypeOK
    PROVE  /\ Len(rows) \in Nat
           /\ rows \in [1 .. Len(rows) -> 1 .. born]
           /\ IsFiniteSet(got) /\ Cardinality(got) \in Nat
           /\ \A i \in 1 .. Len(rows) : rows[i] \in 1 .. born
<1>1. Len(rows) \in Nat /\ rows \in [1 .. Len(rows) -> 1 .. born]
    BY LenProperties DEF ListTypeOK
<1>2. IsFiniteSet(got)
  <2>1. IsFiniteSet(1 .. born) BY FS_Interval DEF ListTypeOK
  <2>2. got \in SUBSET (1 .. born) BY DEF ListTypeOK
  <2> QED BY <2>1, <2>2, FS_Subset
<1> QED BY <1>1, <1>2, FS_CardinalityType

\* Nothing has been read and the collection is empty.
LEMMA NoListInv == ASSUME NoList PROVE ListInv
<1>1. rows \in Seq(1 .. born) /\ Len(rows) = 0
    BY EmptySeq DEF NoList
<1>2. ListTypeOK
    BY <1>1, PagesPositive DEF NoList, ListTypeOK, Kinds
<1>3. Numbered /\ Traversal /\ Published
    BY <1>1, FS_EmptySet DEF NoList, Numbered, Traversal, Published
<1> QED BY <1>2, <1>3 DEF ListInv

\* What has been read is forgotten.
LEMMA ForgetListInv == ASSUME ForgetList PROVE ListInv'
<1>1. (rows \in Seq(1 .. born))' /\ (Len(rows) = 0)'
    BY EmptySeq DEF ForgetList
<1>2. ListTypeOK'
    BY <1>1, PagesPositive DEF ForgetList, ListTypeOK, Kinds
<1>3. (Numbered /\ Traversal /\ Published)'
    BY <1>1, FS_EmptySet DEF ForgetList, Numbered, Traversal, Published
<1> QED BY <1>2, <1>3 DEF ListInv

\* A traversal begins with the rows that exist, in any number.
LEMMA StartListInv == ASSUME ListInv, StartList PROVE ListInv'
<1> USE DEF ListInv, StartList
<1>1. PICK k \in Kinds, n \in 0 .. MaxRows :
        list' = k /\ born' = n /\ before' = n /\ rows' = [i \in 1 .. n |-> i]
    OBVIOUS
<1>2. n \in Nat BY <1>1, PagesPositive
<1>3. rows' \in [1 .. n -> 1 .. n] BY <1>1
<1>4. rows' \in Seq(1 .. n) /\ Len(rows') = n BY <1>2, <1>3, FunctionIsSeq
<1>5. ListTypeOK' BY <1>1, <1>2, <1>4, FS_EmptySet DEF ListTypeOK, Traversal
<1>6. Numbered' BY <1>1, <1>2, <1>4 DEF Numbered
<1>7. page' = 1 /\ got' = {} /\ total' = None /\ size' = Cardinality(got') /\ reading' = "reading"
    BY DEF Traversal
<1>8. Ahead' /\ (got \subseteq Listed)'
    BY <1>4, <1>7, PagesPositive DEF Ahead
<1>9. Traversal' /\ Published' BY <1>7, <1>8 DEF Traversal, Published
<1> QED BY <1>5, <1>6, <1>9

\* A row that comes moves others away from the pages that have been read.
LEMMA InsertRowInv == ASSUME ListInv, InsertRow PROVE ListInv'
<1> USE DEF ListInv, InsertRow
<1> DEFINE n == Len(rows)
<1>0. n \in Nat /\ (\A i \in 1 .. n : rows[i] \in 1 .. born) /\ born \in Nat /\ before \in Nat
    BY ListTypes DEF ListTypeOK
<1>1. PICK p \in 1 .. n + 1 :
        rows' = [i \in 1 .. n + 1 |->
                    IF i < p THEN rows[i] ELSE IF i = p THEN born + 1 ELSE rows[i - 1]]
    OBVIOUS
<1> HIDE DEF n
<1>2. \A i \in 1 .. n + 1 :
        rows'[i] = IF i < p THEN rows[i] ELSE IF i = p THEN born + 1 ELSE rows[i - 1]
    BY <1>1
<1>3. \A i \in 1 .. n + 1 : rows'[i] \in 1 .. born + 1
    BY <1>0, <1>1, <1>2
<1>4. rows' \in [1 .. n + 1 -> 1 .. born + 1]
    BY <1>1, <1>3
<1>5. rows' \in Seq(1 .. born + 1) /\ Len(rows') = n + 1
    BY <1>0, <1>4, FunctionIsSeq
<1>6. ListTypeOK'
    BY <1>0, <1>5 DEF ListTypeOK
<1>7. Numbered'
  <2>1. Len(rows)' <= born' /\ before' <= born'
    BY <1>0, <1>5 DEF Numbered, n
  <2>2. ASSUME NEW i \in 1 .. n + 1, NEW j \in 1 .. n + 1, rows'[i] = rows'[j]
        PROVE  i = j
    <3>1. \A a, b \in 1 .. n : rows[a] = rows[b] => a = b
        BY DEF Numbered, n
    <3>2. \A a \in 1 .. n : rows[a] \in 1 .. born
        BY <1>0
    <3>3. /\ i < p => i \in 1 .. n
          /\ i > p => i - 1 \in 1 .. n
          /\ j < p => j \in 1 .. n
          /\ j > p => j - 1 \in 1 .. n
        BY <1>0, <1>1
    <3> QED BY <1>0, <1>1, <1>2, <2>2, <3>1, <3>2, <3>3
  <2> QED BY <1>5, <2>1, <2>2 DEF Numbered
<1>8. Undisturbed' => Ahead' /\ (got \subseteq Listed)'
  <2> SUFFICES ASSUME Undisturbed' PROVE Ahead' /\ (got \subseteq Listed)'
    OBVIOUS
  <2>1. Len(rows) = born
    BY <1>0, <1>5 DEF Undisturbed, Numbered, n
  <2>2. Ahead /\ got \subseteq Listed
    BY <2>1 DEF Undisturbed, Traversal
  <2>3. ASSUME NEW i \in 1 .. n + 1
        PROVE  rows'[i] \in got \/ rows'[i] > before \/ i > (page - 1) * PageSize
    <3>1. (page - 1) * PageSize \in Int
        BY PagesPositive DEF ListTypeOK
    <3>2. \A a \in 1 .. n : rows[a] \in got \/ rows[a] > before \/ a > (page - 1) * PageSize
        BY <2>2 DEF Ahead, n
    <3>3. CASE i < p
        BY <1>0, <1>1, <1>2, <3>2, <3>3
    <3>4. CASE i = p
      <4>1. rows'[i] = born + 1
        <5>1. ~(i < p) BY <1>0, <3>4
        <5> QED BY <1>2, <3>4, <5>1
      <4>2. before <= born BY DEF Numbered
      <4> QED BY <1>0, <4>1, <4>2
    <3>5. CASE i > p
      <4>1. i - 1 \in 1 .. n /\ rows'[i] = rows[i - 1]
        BY <1>0, <1>1, <1>2, <3>5
      <4> QED BY <4>1, <3>1, <3>2
    <3> QED BY <1>1, <3>3, <3>4, <3>5
  <2>4. Ahead'
    BY <1>5, <2>3 DEF Ahead
  <2>5. ASSUME NEW i \in 1 .. n PROVE \E j \in 1 .. n + 1 : rows'[j] = rows[i]
    <3>1. CASE i < p
      <4>1. i \in 1 .. n + 1 /\ rows'[i] = rows[i]
        BY <1>0, <1>2, <3>1
      <4> QED BY <4>1
    <3>2. CASE i >= p
      <4>1. i + 1 \in 1 .. n + 1 /\ rows'[i + 1] = rows[i]
        BY <1>0, <1>1, <1>2, <3>2
      <4> QED BY <4>1
    <3>3. i < p \/ i >= p BY <1>0
    <3> QED BY <3>1, <3>2, <3>3
  <2>6. (got \subseteq Listed)'
    <3> SUFFICES ASSUME NEW x \in got PROVE \E j \in 1 .. n + 1 : rows'[j] = x
      BY <1>5 DEF Listed
    <3>1. PICK i \in 1 .. n : rows[i] = x
      BY <2>2 DEF Listed, n
    <3> QED BY <2>5, <3>1
  <2> QED BY <2>4, <2>6
<1>9. Traversal' /\ Published'
  <2>1. born' # before'
    BY <1>0 DEF Numbered
  <2> QED BY <1>8, <2>1 DEF Traversal, Published
<1> QED BY <1>6, <1>7, <1>9

\* A row that goes moves others towards the pages that have been read, unless none
\* has been: in a counted list the total tells.
LEMMA RemoveRowInv == ASSUME ListInv, RemoveRow PROVE ListInv'
<1> USE DEF ListInv, RemoveRow
<1> DEFINE n == Len(rows)
<1>0. n \in Nat /\ (\A i \in 1 .. n : rows[i] \in 1 .. born) /\ born \in Nat /\ before \in Nat
    BY ListTypes DEF ListTypeOK
<1>1. PICK p \in 1 .. n :
        rows' = [i \in 1 .. n - 1 |-> IF i < p THEN rows[i] ELSE rows[i + 1]]
    OBVIOUS
<1> HIDE DEF n
<1>2. \A i \in 1 .. n - 1 : rows'[i] = IF i < p THEN rows[i] ELSE rows[i + 1]
    BY <1>1
<1>3. n - 1 \in Nat /\ \A i \in 1 .. n - 1 : i \in 1 .. n /\ i + 1 \in 1 .. n
    BY <1>0, <1>1
<1>4. \A i \in 1 .. n - 1 : rows'[i] \in 1 .. born
    BY <1>0, <1>2, <1>3
<1>5. rows' \in Seq(1 .. born) /\ Len(rows') = n - 1
  <2>1. rows' \in [1 .. n - 1 -> 1 .. born] BY <1>1, <1>4
  <2> QED BY <1>3, <2>1, FunctionIsSeq
<1>6. ListTypeOK'
    BY <1>5 DEF ListTypeOK
<1>7. Numbered'
  <2>1. Len(rows)' <= born' /\ before' <= born'
    BY <1>0, <1>5 DEF Numbered, n
  <2>2. ASSUME NEW i \in 1 .. n - 1, NEW j \in 1 .. n - 1, rows'[i] = rows'[j]
        PROVE  i = j
    <3>1. \A a, b \in 1 .. n : rows[a] = rows[b] => a = b
        BY DEF Numbered, n
    <3> QED BY <1>0, <1>1, <1>2, <1>3, <2>2, <3>1
  <2> QED BY <1>5, <2>1, <2>2 DEF Numbered
<1>8. Undisturbed' => Ahead' /\ (got \subseteq Listed)'
  <2> SUFFICES ASSUME Undisturbed' PROVE Ahead' /\ (got \subseteq Listed)'
    OBVIOUS
  <2>1. list = "counted" /\ born = before /\ total \in {None, n - 1}
    BY <1>0, <1>5 DEF Undisturbed, Numbered, n
  <2>2. total = None
    <3>1. total # None => n <= total
        BY <2>1 DEF Traversal, n
    <3> QED BY <1>0, <2>1, <3>1
  <2>3. page = 1 /\ got = {}
    BY <2>1, <2>2, PagesPositive DEF Traversal, ListTypeOK
  <2> QED BY <1>3, <1>5, <2>3, PagesPositive DEF Ahead, Listed
<1>9. Traversal' /\ Published'
  <2>1. total # None /\ n <= total => n - 1 <= total
    BY <1>0 DEF ListTypeOK
  <2> QED BY <1>5, <1>8, <2>1 DEF Traversal, Published, n
<1> QED BY <1>6, <1>7, <1>9

-----------------------------------------------------------------------------
\* No row is listed twice: as many rows as positions.
LEMMA RowsOf ==
    ASSUME ListTypeOK, Numbered, NEW I \in SUBSET (1 .. Len(rows))
    PROVE  /\ IsFiniteSet(I) /\ IsFiniteSet({rows[i] : i \in I})
           /\ Cardinality(I) \in Nat
           /\ Cardinality({rows[i] : i \in I}) = Cardinality(I)
<1> DEFINE T == {rows[i] : i \in I}
           f == [i \in I |-> rows[i]]
<1>1. IsFiniteSet(I)
  <2>1. IsFiniteSet(1 .. Len(rows)) BY ListTypes, FS_Interval
  <2> QED BY <2>1, FS_Subset
<1>2. f \in Bijection(I, T)
  <2>1. f \in [I -> T] OBVIOUS
  <2>2. \A a, b \in I : f[a] = f[b] => a = b BY DEF Numbered
  <2>3. \A t \in T : \E s \in I : f[s] = t OBVIOUS
  <2> QED BY <2>1, <2>2, <2>3 DEF Bijection, Injection, Surjection, IsInjective
<1>3. IsFiniteSet(T) /\ Cardinality(T) = Cardinality(I)
  <2>1. ExistsBijection(I, T) BY <1>2 DEF ExistsBijection
  <2> HIDE DEF T, f
  <2> QED BY <1>1, <2>1, FS_Bijection
<1> QED BY <1>1, <1>3, FS_CardinalityType

\* A short page is the last one: no position is behind it.
LEMMA ShortIsLast ==
    ASSUME ListTypeOK, Numbered, Cardinality(Batch) < PageSize
    PROVE  \A i \in 1 .. Len(rows) : i <= page * PageSize
<1> DEFINE a == (page - 1) * PageSize
           b == page * PageSize
           n == Len(rows)
<1>1. n \in Nat /\ a \in Nat /\ b = a + PageSize /\ PageSize \in Nat \ {0}
  <2>1. page - 1 \in Nat /\ page \in Nat BY PagesPositive DEF ListTypeOK
  <2> QED BY <2>1, ListTypes, PagesPositive
<1>2. Batch = {i \in 1 .. n : i > a /\ i <= b} BY DEF Batch
<1> HIDE DEF a, b, n
<1> SUFFICES ASSUME b < n PROVE FALSE BY <1>1 DEF b, n
<1>3. Batch = (a + 1) .. b BY <1>1, <1>2
<1>4. Cardinality((a + 1) .. b) = PageSize
  <2>1. a + 1 \in Int /\ b \in Int /\ ~(a + 1 > b) /\ b - (a + 1) + 1 = PageSize BY <1>1
  <2> QED BY <2>1, FS_Interval
<1> QED BY <1>1, <1>3, <1>4

\* A page that repeats no row adds as many identities as it has rows.
LEMMA PageAdds ==
    ASSUME ListTypeOK, Numbered, ~Repeats, size = Cardinality(got)
    PROVE  /\ Cardinality(Batch) \in Nat
           /\ size + Cardinality(Batch) = Cardinality(got \cup BatchIds)
<1>1. Batch \in SUBSET (1 .. Len(rows)) BY DEF Batch
<1>2. /\ IsFiniteSet(BatchIds) /\ Cardinality(Batch) \in Nat
      /\ Cardinality(BatchIds) = Cardinality(Batch)
    BY <1>1, RowsOf DEF BatchIds
<1>3. IsFiniteSet(got) /\ Cardinality(got) \in Nat BY ListTypes
<1>4. Cardinality(got \cap BatchIds) = 0
  <2>1. got \cap BatchIds = {} BY DEF Repeats
  <2> QED BY <2>1, FS_EmptySet
<1>5. Cardinality(got \cup BatchIds)
        = Cardinality(got) + Cardinality(BatchIds) - Cardinality(got \cap BatchIds)
    BY <1>2, <1>3, FS_Union
<1> QED BY <1>2, <1>3, <1>4, <1>5

\* As many collected identities as there are rows: all of them.
LEMMA AllCollected ==
    ASSUME ListTypeOK, Numbered, NEW G, G \subseteq Listed, Cardinality(G) = Len(rows)
    PROVE  Listed \subseteq G
<1>1. IsFiniteSet(Listed) /\ Cardinality(Listed) = Cardinality(1 .. Len(rows))
    BY RowsOf DEF Listed
<1>2. Cardinality(1 .. Len(rows)) = Len(rows)
  <2>1. Len(rows) \in Nat BY ListTypes
  <2>2. CASE Len(rows) = 0
    BY <2>1, <2>2, FS_Interval
  <2>3. CASE Len(rows) # 0
    <3>1. Cardinality(1 .. Len(rows)) = Len(rows) - 1 + 1
      BY <2>1, <2>3, FS_Interval
    <3> QED BY <2>1, <3>1
  <2> QED BY <2>2, <2>3
<1>3. G \in SUBSET Listed OBVIOUS
<1> QED BY <1>1, <1>2, <1>3, FS_Subset

\* A page is collected, and what is then behind it is still to come.
LEMMA CollectInv == ASSUME ListInv, reading = "reading", Collect PROVE ListInv'
<1> USE DEF ListInv
<1> DEFINE n == Len(rows)
           a == (page - 1) * PageSize
           b == page * PageSize
           G == got \cup BatchIds
<1>0. /\ n \in Nat /\ (\A i \in 1 .. n : rows[i] \in 1 .. born) /\ born \in Nat
      /\ before \in Nat /\ page \in Nat \ {0}
    BY ListTypes, PagesPositive DEF ListTypeOK
<1>1. a \in Nat /\ b \in Nat
    BY <1>0, PagesPositive
<1>2. /\ got' = G /\ size' = size + Cardinality(Batch) /\ rows' = rows /\ born' = born
      /\ before' = before /\ list' = list
      /\ total' = IF list = "counted" THEN Len(rows) ELSE None
      /\ ~Repeats /\ TotalAgrees
    BY DEF Collect, Collection
<1>3. \/ LastPage /\ reading' = "published" /\ page' = page
      \/ ~LastPage /\ page < MaxPages /\ page' = page + 1 /\ reading' = "reading"
      \/ ~LastPage /\ reading' = "failed" /\ page' = page
    BY DEF Collect
<1>4. Cardinality(Batch) \in Nat /\ size' = Cardinality(got')
    BY <1>2, PageAdds DEF Traversal
<1>5. BatchIds \subseteq Listed /\ Listed \subseteq 1 .. born
    BY <1>0 DEF BatchIds, Batch, Listed
<1>6. ListTypeOK'
  <2>1. total' \in Nat \cup {None} BY <1>0, <1>2
  <2>2. page' \in 1 .. MaxPages BY <1>3, PagesPositive DEF ListTypeOK
  <2>3. got' \subseteq 1 .. born BY <1>2, <1>5 DEF ListTypeOK
  <2>4. size' \in Nat BY <1>2, <1>4 DEF ListTypeOK
  <2> QED BY <1>2, <1>3, <2>1, <2>2, <2>3, <2>4 DEF ListTypeOK
<1>7. Numbered' BY <1>2 DEF Numbered
<1>8. ASSUME Len(rows) = born \/ (list = "counted" /\ born = before)
      PROVE  /\ G \subseteq Listed
             /\ \A i \in 1 .. n : rows[i] \in G \/ rows[i] > before \/ i > b
  <2>1. Undisturbed
      BY <1>2, <1>8 DEF Undisturbed, TotalAgrees
  <2>2. Ahead /\ got \subseteq Listed
      BY <2>1 DEF Traversal
  <2>3. ASSUME NEW i \in 1 .. n, i > a, i <= b PROVE rows[i] \in G
    <3>1. i \in Batch BY <2>3 DEF Batch
    <3> QED BY <3>1 DEF BatchIds
  <2>4. \A i \in 1 .. n : rows[i] \in got \/ rows[i] > before \/ i > a
      BY <2>2 DEF Ahead
  <2> HIDE DEF a, b, n
  <2> QED BY <1>0, <1>1, <1>5, <2>2, <2>3, <2>4
<1>9. Traversal'
  <2>1. CASE reading' = "reading"
    <3>1. page' = page + 1 /\ page' # 1 /\ page' > 1 /\ (page' - 1) * PageSize = b
        BY <1>0, <1>3, <2>1
    <3>2. list = "counted" => total' # None /\ Len(rows) <= total'
        BY <1>0, <1>2, NoneIsNone
    <3>3. Undisturbed' => Len(rows) = born \/ (list = "counted" /\ born = before)
        BY <1>2 DEF Undisturbed
    <3>4. Undisturbed' => Ahead' /\ (got \subseteq Listed)'
      <4> SUFFICES ASSUME Undisturbed' PROVE Ahead' /\ (got \subseteq Listed)'
        OBVIOUS
      <4>1. /\ G \subseteq Listed
            /\ \A i \in 1 .. n : rows[i] \in G \/ rows[i] > before \/ i > b
          BY <1>8, <3>3
      <4>2. Listed' = Listed BY <1>2 DEF Listed
      <4> HIDE DEF G, b
      <4> QED BY <1>2, <3>1, <4>1, <4>2 DEF Ahead
    <3> QED BY <1>2, <1>4, <2>1, <3>1, <3>2, <3>4 DEF Traversal
  <2>2. CASE reading' # "reading"
      BY <1>3, <1>4, <2>2 DEF Traversal
  <2> QED BY <2>1, <2>2
<1>10. Published'
  <2> SUFFICES ASSUME reading' = "published",
                      Len(rows) = born \/ (list = "counted" /\ born = before)
               PROVE  Steady \subseteq G
    <3>1. (~SomeRemoved)' => Len(rows) = born
        BY <1>0, <1>2 DEF SomeRemoved, Numbered
    <3>2. (~SomeInserted)' => born = before
        BY <1>0, <1>2 DEF SomeInserted, Numbered
    <3>3. Steady' = Steady BY <1>2 DEF Steady
    <3> QED BY <1>2, <3>1, <3>2, <3>3 DEF Published
  <2>1. LastPage BY <1>3
  <2>2. CASE Cardinality(Batch) < PageSize
    <3>1. \A i \in 1 .. n : i <= b BY <2>2, ShortIsLast
    <3> HIDE DEF b, G
    <3> QED BY <1>0, <1>1, <1>8, <3>1 DEF Steady, n
  <2>3. CASE list = "counted" /\ size + Cardinality(Batch) = Len(rows)
    <3>1. Cardinality(G) = Len(rows) BY <1>2, <1>4, <2>3
    <3>2. Listed \subseteq G BY <1>8, <3>1, AllCollected
    <3> QED BY <3>2 DEF Steady, Listed
  <2> QED BY <2>1, <2>2, <2>3 DEF LastPage
<1> QED BY <1>6, <1>7, <1>9, <1>10

\* A failure publishes nothing.
LEMMA FailListInv == ASSUME ListInv, reading = "reading", FailList PROVE ListInv'
<1> USE DEF FailList, Collection
<1>1. ListTypeOK' BY DEF ListInv, ListTypeOK
<1>2. Numbered' BY DEF ListInv, Numbered
<1>3. Traversal' /\ Published' BY DEF ListInv, Traversal, Published
<1> QED BY <1>1, <1>2, <1>3 DEF ListInv

\* The empty answer of the first page is the whole list: there is no row.
LEMMA EmptyInv ==
    ASSUME ListInv, reading = "reading", Truthful, outcome' = "empty", page = 1,
           reading' = "published", UNCHANGED <<Collection, page, total, got, size>>
    PROVE  ListInv'
<1> USE DEF ListInv, Collection
<1>1. rows = <<>> BY DEF Truthful
<1>2. Len(rows) = 0 BY <1>1, EmptySeq
<1>3. Steady = {} BY <1>2 DEF Steady
<1>4. ListTypeOK' BY DEF ListTypeOK
<1>5. Numbered' BY DEF Numbered
<1>6. Published' BY <1>3 DEF Published, Steady
<1>7. Traversal' BY DEF Traversal
<1> QED BY <1>4, <1>5, <1>6, <1>7

\* Whatever a page answers, the invariant of the traversal stays.
LEMMA TakePageInv ==
    ASSUME ListInv, reading = "reading", Truthful, TakePage PROVE ListInv'
<1>1. CASE outcome' = "ok" /\ Collect BY <1>1, CollectInv
<1>2. CASE /\ outcome' = "empty" /\ list = "bills" /\ page = 1
           /\ reading' = "published" /\ UNCHANGED <<Collection, page, total, got, size>>
    BY <1>2, EmptyInv
<1>3. CASE FailList BY <1>3, FailListInv
<1> QED BY <1>1, <1>2, <1>3 DEF TakePage

\* The invariant is about the list only.
LEMMA ListStutters == ASSUME ListInv, UNCHANGED listVars PROVE ListInv'
<1> USE DEF listVars
<1>1. ListTypeOK' BY DEF ListInv, ListTypeOK
<1>2. Numbered' BY DEF ListInv, Numbered
<1>3. Undisturbed' = Undisturbed /\ Ahead' = Ahead /\ Listed' = Listed
    BY DEF Undisturbed, Ahead, Listed
<1>4. Traversal' BY <1>3 DEF ListInv, Traversal
<1>5. Published' BY DEF ListInv, Published, SomeRemoved, SomeInserted, Steady
<1> QED BY <1>1, <1>2, <1>4, <1>5 DEF ListInv

\* What the invariant says of a published list.
LEMMA PublishedList == ASSUME ListInv PROVE ListComplete /\ CountedComplete
BY DEF ListInv, Traversal, Published, ListComplete, CountedComplete

-----------------------------------------------------------------------------
\* A call that has returned leaves its request where its outcome says.
CallInv ==
    /\ CallTypeOK
    /\ outcome = None <=> stage # "idle"
    /\ stage \in {"prepare", "admission"} => wire = "unsent"
    /\ effect = IF wire = "accepted" THEN 1 ELSE 0
    /\ outcome = "ok" => wire = "accepted"
    /\ outcome = "busy" => wire = "rejected"

\* No call has been made.
LEMMA CallInitInv == ASSUME CallInit PROVE CallInv
BY NoneIsNone DEF CallInit, CallInv, CallTypeOK, Calls, BusyPaths, Stages, Wires

\* The invariant is about the call only.
LEMMA CallStutters == ASSUME CallInv, UNCHANGED callVars PROVE CallInv'
BY DEF callVars, CallInv, CallTypeOK

\* What can happen to a call.
CallSteps == \/ Deliver \/ Cancel \/ Exchange \/ Exit
             \/ \E c \in Calls : Begin(c)

\* "ok" is said of an accepted request only, "busy" of a rejected one.
LEMMA ClassifyKept ==
    ASSUME NEW c, NEW a \in Answers
    PROVE  /\ Classify(c, a) \in {"ok", "busy", "empty", "error"}
           /\ Classify(c, a) = "ok" => a.status = "2xx" /\ a.code = "SUCCESS"
           /\ Classify(c, a) = "busy" => SaysBusy(a) /\ c \in BusyPaths
BY DEF Classify

\* The end of a call that claims nothing it must not claim.
LEMMA AnswerKept ==
    ASSUME CallInv, stage # "idle", NEW o \in {"ok", "busy", "empty", "error"}, Answer(o),
           o = "ok" => wire = "accepted", o = "busy" => wire = "rejected"
    PROVE  CallInv' /\ Contract!Return(o)
BY NoneIsNone DEF CallInv, CallTypeOK, Answer, Stages, Contract!Return

\* Each step of a call keeps the invariant, and is a step of the contract or none.
LEMMA CallStepKept ==
    ASSUME CallInv, CallSteps
    PROVE  CallInv' /\ [Contract!Next]_Contract!vars
<1> USE NoneIsNone
<1>1. CASE Deliver
  <2>1. CallInv'
      BY <1>1 DEF Deliver, CallInv, CallTypeOK, Wires, Stages
  <2>2. Contract!Take \/ UNCHANGED Contract!vars
      BY <1>1 DEF Deliver, CallInv, CallTypeOK, Contract!Take, Contract!Uncertain, Contract!vars
  <2> QED BY <2>1, <2>2 DEF Contract!Next
<1>2. CASE Cancel
    BY <1>2 DEF Cancel, CallInv, CallTypeOK, Contract!vars
<1>3. CASE Exit
    BY <1>3 DEF Exit, CallInv, CallTypeOK, Calls, Wires, Stages, Contract!Exit, Contract!Next
<1>4. ASSUME NEW c \in Calls, Begin(c) PROVE CallInv' /\ Contract!Next
    BY <1>4 DEF Begin, CallInv, CallTypeOK, Wires, Stages, Contract!Begin, Contract!Next
<1>5. CASE Exchange
  <2> USE DEF Contract!Outcomes, Contract!Next
  <2>1. CASE stage # "idle" /\ Answer("error")
      BY <2>1, AnswerKept
  <2>2. CASE Prepare /\ ~Answer("error")
      BY <2>2 DEF Prepare, CallInv, CallTypeOK, Stages, Contract!vars
  <2>3. CASE Send /\ ~Answer("error")
      BY <2>3 DEF Send, CallInv, CallTypeOK, Stages, Wires, Contract!vars
  <2>4. CASE Receive
    <3>1. PICK a \in Answers : Possible(a) /\ Answer(Classify(call, a))
        BY <2>4 DEF Receive
    <3> DEFINE o == Classify(call, a)
    <3>2. /\ o \in {"ok", "busy", "empty", "error"}
          /\ o = "ok" => wire = "accepted"
          /\ o = "busy" => wire = "rejected"
        BY <3>1, ClassifyKept DEF Possible
    <3>3. stage # "idle" /\ Answer(o) BY <2>4, <3>1 DEF Receive
    <3> HIDE DEF o
    <3> QED BY <3>2, <3>3, AnswerKept
  <2> QED BY <1>5, <2>1, <2>2, <2>3, <2>4 DEF Exchange, Prepare, Send, TimeOut
<1> QED BY <1>1, <1>2, <1>3, <1>4, <1>5 DEF CallSteps

\* Every step of a command makes at most one step of its call.
LEMMA CallNext == ASSUME Next PROVE CallSteps \/ UNCHANGED callVars
<1> USE DEF CallSteps, Calls, BusyPaths
<1>1. CASE Provider
  <2>1. CallOf \in Calls BY DEF CallOf
  <2> QED BY <1>1, <2>1 DEF Provider, BeginList, NextPage, AskPage, ListExchange, SendCall, CallExchange
<1>2. CASE Outside BY <1>2 DEF Outside
<1>3. CASE KeepList \/ PlanResource \/ ApproveApply \/ ApplyStep \/ NewCommand
    BY <1>3 DEF KeepList, PlanResource, ApproveApply, ApplyStep, NewCommand
<1> QED BY <1>1, <1>2, <1>3 DEF Next

\* Whatever a command does, its call stays sound.
LEMMA CallInvariant == Spec => []CallInv
<1>1. Init => CallInv BY CallInitInv DEF Init
<1>2. CallInv /\ [Next]_vars => CallInv'
    BY CallNext, CallStepKept, CallStutters DEF vars
<1> QED BY <1>1, <1>2, PTL DEF Spec

\* The calls of a command implement the contract of CallContract: neither a redirect
\* nor a repetition makes the API take one twice, a success was taken, and what was
\* answered as busy was not and will not be.
THEOREM CallsKeepContract == Spec => CallKept
<1>1. Init => Contract!Init BY DEF Init, CallInit, Contract!Init
<1>2. CallInv /\ [Next]_vars => [Contract!Next]_Contract!vars
    BY CallNext, CallStepKept DEF vars, callVars, Contract!vars
<1> QED BY <1>1, <1>2, CallInvariant, PTL DEF Spec, CallKept, Contract!Spec

-----------------------------------------------------------------------------
\* Every step of a command keeps the invariant of the traversal.
LEMMA ListNext == ASSUME ListInv, Next PROVE ListInv'
<1>1. CASE BeginList BY <1>1, StartListInv DEF BeginList
<1>2. CASE NextPage
  <2>1. CASE UNCHANGED listVars BY <2>1, ListStutters
  <2>2. CASE reading = "reading" /\ FailList BY <2>2, FailListInv
  <2> QED BY <1>2, <2>1, <2>2 DEF NextPage, AskPage
<1>3. CASE ListExchange
  <2>1. CASE stage' = "idle" BY <1>3, <2>1, TakePageInv DEF ListExchange
  <2>2. CASE stage' # "idle" BY <1>3, <2>2, ListStutters DEF ListExchange
  <2> QED BY <2>1, <2>2
<1>4. CASE SendCall \/ CallExchange
    BY <1>4, ListStutters DEF SendCall, CallExchange
<1>5. CASE Outside
    BY <1>5, InsertRowInv, RemoveRowInv, ListStutters DEF Outside
<1>6. CASE KeepList \/ NewCommand
    BY <1>6, ForgetListInv DEF KeepList, NewCommand
<1>7. CASE PlanResource \/ ApproveApply \/ ApplyStep
    BY <1>7, ListStutters DEF PlanResource, ApproveApply, ApplyStep
<1> QED BY <1>1, <1>2, <1>3, <1>4, <1>5, <1>6, <1>7 DEF Next, Provider

\* Whatever a command does, its traversal stays sound.
LEMMA ListInvariant == Spec => []ListInv
<1>1. Init => ListInv BY NoListInv DEF Init
<1>2. ListInv /\ [Next]_vars => ListInv' BY ListNext, ListStutters DEF vars
<1> QED BY <1>1, <1>2, PTL DEF Spec

\* A published list has every row that was there all the time, unless one was removed
\* while it was read, and none twice, whatever the page size, the limit and the
\* changes between two pages.
THEOREM ListsComplete == Spec => []ListComplete
<1>1. ListInv => ListComplete BY PublishedList
<1> QED BY <1>1, ListInvariant, PTL

\* In a counted list it has them although rows were removed, unless others came.
THEOREM CountedListsComplete == Spec => []CountedComplete
<1>1. ListInv => CountedComplete BY PublishedList
<1> QED BY <1>1, ListInvariant, PTL

-----------------------------------------------------------------------------
\* A plan that was not refused: what its approval rests on.
Approved ==
    /\ action # "none"
    /\ action = "create" => prior = Null
    /\ action = "update" => prior # Null /\ ~Replaced(kind, prior, config)
    /\ action = "replace" => prior # Null

\* The successor of a deleted service: it has another account, and, if all was known
\* when it was planned, what the handler asks for.
Successor(old) ==
    /\ ~forced /\ kind # "rule" => config.account \notin {Null, Unknown, old.account}
    /\ wholly => /\ Known(config) /\ ~CreateRefused(kind, config)
                 /\ ~Incomplete(kind, config)

Before == {"planned", "approved", "deleting"}
After == {"deleted", "resolved", "creating"}

PlanInv ==
    /\ PlanTypeOK
    /\ step # "conflict"
    /\ step \in {"planned", "approved"} => Approved
    /\ step \in Steps \ {"off"} => config \in Configs
    /\ step \in {"off", "planned", "approved", "deleting", "updating"} => deleted = Null
    /\ step = "deleting" => prior # Null /\ action = "replace"
    /\ step \in {"deleted", "creating"} => prior = Null
    /\ step \in Before /\ action = "replace" => Successor(prior)
    /\ step \in After /\ deleted # Null => Successor(deleted)
    /\ step = "refused" /\ deleted # Null => ~wholly
    /\ step = "resolved" /\ prior # Null => deleted = Null /\ ~Replaced(kind, prior, config)

\* A value that was known stays what it was.
LEMMA ResolvedKeeps ==
    ASSUME NEW c \in Configs, NEW d \in Resolutions(c)
    PROVE  /\ d \in Configs
           /\ c.account # Unknown => d.account = c.account
           /\ c.setting # Unknown => d.setting = c.setting
           /\ c.set # Unknown => d.set = c.set
           /\ c.first # Unknown => d.first = c.first
<1>1. /\ c.account \in Accounts \cup {Null, Unknown} /\ c.setting \in Settings \cup {Unknown}
      /\ c.set \in {Unknown} \cup SUBSET Entries /\ c.first \in {"given", Null, Unknown}
    BY DEF Configs
<1>2. /\ d.account \in Becomes(c.account, Accounts \cup {Null})
      /\ d.setting \in Becomes(c.setting, Settings)
      /\ d.set \in Becomes(c.set, SUBSET Entries)
      /\ d.first \in Becomes(c.first, {"given", Null})
      /\ d = [account |-> d.account, setting |-> d.setting, set |-> d.set, first |-> d.first]
    BY DEF Resolutions
<1> QED BY <1>1, <1>2 DEF Becomes, Configs

\* An approved update stays one when the unknown values are known.
LEMMA UpdateStays ==
    ASSUME NEW k, NEW p \in Priors, NEW c \in Configs, NEW d \in Resolutions(c),
           ~Replaced(k, p, c)
    PROVE  ~Replaced(k, p, d)
<1>1. p.account # Unknown /\ p.setting # Unknown /\ p.set # Unknown
    BY NoValues DEF Priors
<1>2. /\ c.account # Unknown => d.account = c.account
      /\ c.setting # Unknown => d.setting = c.setting
      /\ c.set # Unknown => d.set = c.set
    BY ResolvedKeeps
<1>3. CASE k = "cache"
    BY <1>1, <1>2, <1>3 DEF Replaced, CacheReplaced, HostingReplaced, DBReplaced, NASReplaced,
                            RuleReplaced, Fixed
<1>4. CASE k = "hosting"
    BY <1>1, <1>2, <1>4 DEF Replaced, CacheReplaced, HostingReplaced, DBReplaced, NASReplaced,
                            RuleReplaced, Fixed
<1>5. CASE k \in {"db", "nas"}
    BY <1>1, <1>2, <1>5 DEF Replaced, CacheReplaced, HostingReplaced, DBReplaced, NASReplaced,
                            RuleReplaced, Fixed
<1>6. CASE k = "rule"
    BY <1>1, <1>2, <1>6 DEF Replaced, CacheReplaced, HostingReplaced, DBReplaced, NASReplaced,
                            RuleReplaced, Fixed
<1> QED BY <1>3, <1>4, <1>5, <1>6 DEF Replaced

\* The successor that was approved, with its values known: the one that is created.
LEMMA SuccessorStays ==
    ASSUME NEW old, Successor(old), config \in Configs, config' \in Resolutions(config),
           UNCHANGED <<kind, forced, wholly>>
    PROVE  Successor(old)'
<1>1. /\ config.account # Unknown => config'.account = config.account
      /\ config.setting # Unknown => config'.setting = config.setting
      /\ config.set # Unknown => config'.set = config.set
      /\ config.first # Unknown => config'.first = config.first
    BY ResolvedKeeps
<1>2. ASSUME ~forced, kind # "rule" PROVE config'.account \notin {Null, Unknown, old.account}
    BY <1>1, <1>2 DEF Successor
<1>3. ASSUME wholly
      PROVE  /\ Known(config') /\ ~CreateRefused(kind, config') /\ ~Incomplete(kind, config')
    BY <1>1, <1>3 DEF Successor, Known, CreateRefused, Incomplete, NeverEmpty
<1> QED BY <1>2, <1>3 DEF Successor

\* What a new plan that was not refused knows.
LEMMA MakePlanKept == ASSUME PlanInv, MakePlan PROVE PlanInv'
<1>1. PICK k \in Resources, p \in {Null} \cup Priors, f \in BOOLEAN, c \in Configs :
        /\ p = Null => ~f
        /\ Plan(k, p, f, c)
        /\ c \in ConfigsOf(k)
    BY DEF MakePlan, PriorsOf, ConfigsOf
<1>2. /\ c \in Configs
      /\ k \in {"cache", "hosting"} => c.account # Null
      /\ k \in {"db", "nas"} => c.set # {}
    BY <1>1 DEF ConfigsOf, Imported
<1>3. /\ kind' = k /\ prior' = p /\ forced' = f /\ config' = c /\ wholly' = Known(c)
      /\ deleted' = Null /\ action' \in {"create", "update", "replace"}
      /\ action' = "create" <=> p = Null
      /\ action' = "update" => p # Null /\ ~f /\ ~Replaced(k, p, c)
      /\ action' = "replace" => f \/ Replaced(k, p, c)
      /\ step' \in {"planned", "refused"}
    BY <1>1 DEF Plan
<1>4. ASSUME step' = "planned", action' = "replace" PROVE Successor(p)'
  <2>1. ~CreateRefused(k, c) /\ (~f => ~ReplaceRefused(k, p, c))
      BY <1>1, <1>3, <1>4 DEF Plan
  <2>2. ASSUME ~f, k # "rule" PROVE c.account \notin {Null, Unknown, p.account}
      BY <2>1, <2>2 DEF ReplaceRefused
  <2>3. ~Incomplete(k, c)
      BY <1>1, <1>2, <2>1 DEF Incomplete, NeverEmpty, CreateRefused, Resources
  <2> QED BY <1>3, <2>1, <2>2, <2>3 DEF Successor
<1>5. PlanTypeOK'
    BY <1>1, <1>2, <1>3 DEF PlanTypeOK, Actions, Steps, Known
<1> QED BY <1>2, <1>3, <1>4, <1>5 DEF PlanInv, Approved, Before, After

\* The invariant is about the plan only.
LEMMA PlanStutters == ASSUME PlanInv, UNCHANGED planVars PROVE PlanInv'
BY DEF planVars, PlanInv, PlanTypeOK, Approved, Successor

\* Nothing is planned, at the beginning and after a command.
LEMMA NoPlanInv == (NoPlan => PlanInv) /\ (ForgetPlan => PlanInv')
BY DEF NoPlan, ForgetPlan, PlanInv, PlanTypeOK, Resources, Actions, Steps, Before, After

\* The approval changes nothing but the step.
LEMMA ApproveKept == ASSUME PlanInv, Approve PROVE PlanInv'
BY DEF Approve, Goes, PlanFrame, PlanInv, PlanTypeOK, Steps, Approved, Successor, Before, After

\* The deletion starts with the plan that was approved.
LEMMA BeginReplaceKept == ASSUME PlanInv, BeginReplace PROVE PlanInv'
BY DEF BeginReplace, Goes, PlanFrame, PlanInv, PlanTypeOK, Steps, Approved, Successor,
       Before, After

\* Unknown values become known; the approved ones stay.
LEMMA ResolveKept == ASSUME PlanInv, Resolve PROVE PlanInv'
<1> USE DEF Resolve, PlanFrame
<1>1. config \in Configs /\ config' \in Resolutions(config)
    BY DEF PlanInv, PlanTypeOK, Steps
<1>2. config' \in Configs BY <1>1, ResolvedKeeps
<1>3. PlanTypeOK' BY <1>2 DEF PlanInv, PlanTypeOK, Steps
<1>4. (prior # Null => deleted = Null /\ ~Replaced(kind, prior, config))'
  <2> SUFFICES ASSUME prior # Null PROVE deleted = Null /\ ~Replaced(kind, prior, config')
      OBVIOUS
  <2>1. step = "approved" /\ action = "update"
      BY DEF PlanInv, PlanTypeOK, Approved, Actions
  <2>2. prior \in Priors /\ ~Replaced(kind, prior, config) /\ deleted = Null
      BY <2>1 DEF PlanInv, PlanTypeOK, Approved
  <2> QED BY <1>1, <2>2, UpdateStays
<1>5. (deleted # Null => Successor(deleted))'
    BY <1>1, SuccessorStays DEF PlanInv, After
<1> QED BY <1>2, <1>3, <1>4, <1>5 DEF PlanInv, Before, After

\* The handler creates the successor, or the second plan refuses it.
LEMMA ApplyCreateKept == ASSUME PlanInv, ApplyCreate PROVE PlanInv'
<1> USE DEF ApplyCreate, Goes, PlanFrame
<1>1. step' \in {"refused", "creating"} OBVIOUS
<1>2. PlanTypeOK' BY <1>1 DEF PlanInv, PlanTypeOK, Steps
<1>3. deleted # Null => Successor(deleted) BY DEF PlanInv, After
<1>4. Successor(deleted)' = Successor(deleted) BY DEF Successor
<1>5. step' = "refused" /\ deleted # Null => ~wholly BY <1>3 DEF Successor
<1>6. config \in Configs BY DEF PlanInv, Steps
<1> QED BY <1>1, <1>2, <1>3, <1>4, <1>5, <1>6 DEF PlanInv, Before, After

\* The second plan agrees with the approved update.
LEMMA ApplyUpdateKept == ASSUME PlanInv, ApplyUpdate PROVE PlanInv'
<1> USE DEF ApplyUpdate, Goes, PlanFrame
<1>1. deleted = Null /\ ~Replaced(kind, prior, config) BY DEF PlanInv
<1>2. step' \in {"refused", "applied", "updating"} BY <1>1
<1>3. PlanTypeOK' BY <1>2 DEF PlanInv, PlanTypeOK, Steps
<1>4. config \in Configs BY DEF PlanInv, Steps
<1> QED BY <1>1, <1>2, <1>3, <1>4 DEF PlanInv, Before, After

\* The end of the writing call: only a deletion changes what is stored.
LEMMA CallEndKept == ASSUME PlanInv, Deleted \/ Applied \/ CallFailed PROVE PlanInv'
<1> USE DEF Goes, PlanFrame
<1>0. step \in {"deleting", "creating", "updating"}
    BY DEF Deleted, Applied, CallFailed
<1>1. config \in Configs BY <1>0 DEF PlanInv, Steps
<1>2. CASE Deleted
  <2>1. Successor(prior) /\ prior # Null /\ prior \in Priors /\ action = "replace"
      BY <1>2 DEF Deleted, PlanInv, PlanTypeOK, Before
  <2> QED BY <1>1, <1>2, <2>1 DEF Deleted, PlanInv, PlanTypeOK, Steps, Successor, Before, After
<1>3. CASE Applied \/ CallFailed
    BY <1>0, <1>1, <1>3 DEF Applied, CallFailed, PlanInv, PlanTypeOK, Steps, Before, After
<1> QED BY <1>2, <1>3

\* Every step of a command keeps the invariant of the plan.
LEMMA PlanNext == ASSUME PlanInv, Next PROVE PlanInv'
<1>1. CASE BeginList \/ NextPage \/ ListExchange \/ SendCall
    BY <1>1, PlanStutters DEF BeginList, NextPage, ListExchange, SendCall
<1>2. CASE CallExchange BY <1>2, PlanStutters, CallEndKept DEF CallExchange
<1>3. CASE Outside \/ KeepList BY <1>3, PlanStutters DEF Outside, KeepList
<1>4. CASE PlanResource \/ ApproveApply
    BY <1>4, MakePlanKept, ApproveKept DEF PlanResource, ApproveApply
<1>5. CASE ApplyStep
    BY <1>5, BeginReplaceKept, ResolveKept, ApplyCreateKept, ApplyUpdateKept DEF ApplyStep
<1>6. CASE NewCommand BY <1>6, NoPlanInv DEF NewCommand
<1> QED BY <1>1, <1>2, <1>3, <1>4, <1>5, <1>6 DEF Next, Provider

\* Whatever a command does, its plan stays sound.
LEMMA PlanInvariant == Spec => []PlanInv
<1>1. Init => PlanInv BY NoPlanInv DEF Init
<1>2. PlanInv /\ [Next]_vars => PlanInv' BY PlanNext, PlanStutters DEF vars
<1> QED BY <1>1, <1>2, PTL DEF Spec

-----------------------------------------------------------------------------
\* The types of a call, a traversal and a plan.
THEOREM RunTypeCorrect == Spec => []TypeOK
<1>1. CallInv /\ ListInv /\ PlanInv => TypeOK
    BY DEF CallInv, ListInv, PlanInv, TypeOK
<1> QED BY <1>1, CallInvariant, ListInvariant, PlanInvariant, PTL

\* No unknown value, however it turns out, makes a replacement of an approved update.
THEOREM PlansKept == Spec => []PlanKept
<1>1. PlanInv => PlanKept BY DEF PlanInv, PlanKept
<1> QED BY <1>1, PlanInvariant, PTL

\* A service whose replacement was planned with known values is not deleted for a
\* successor that ModifyPlan or the handler then refuses.
THEOREM NothingStranded == Spec => []NoStranding
<1>1. PlanInv => NoStranding BY DEF PlanInv, NoStranding
<1> QED BY <1>1, PlanInvariant, PTL

\* A replacement that the changed configuration asks for takes an account other than
\* the one it deletes, known or unknown as the values of the plan may be.
THEOREM AccountsFresh == Spec => []FreshAccount
<1>1. PlanInv => FreshAccount BY DEF PlanInv, FreshAccount, After, Successor
<1> QED BY <1>1, PlanInvariant, PTL
=============================================================================
