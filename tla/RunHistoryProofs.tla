-------------------------- MODULE RunHistoryProofs --------------------------
(* Proofs about RunHistory, for any runs, limits and bounds.                *)
EXTENDS RunHistory, FiniteSetTheorems, TLAPS

USE HistoryAssumption

(* Cardinalities are only compared with the limit.                          *)
Many(S) == Cardinality(S) >= Limit
Few(S)  == Cardinality(S) <= Limit

LEMMA ManyGrows ==
    ASSUME NEW T \in SUBSET Runs, NEW S \in SUBSET T, Many(S)
    PROVE  Many(T)
  <1>1. IsFiniteSet(T)
    BY FS_Subset
  <1>2. Cardinality(S) <= Cardinality(T) /\ IsFiniteSet(S)
    BY <1>1, FS_Subset
  <1>3. Cardinality(S) \in Nat /\ Cardinality(T) \in Nat
    BY <1>1, <1>2, FS_CardinalityType
  <1> QED BY <1>2, <1>3 DEF Many

LEMMA FewShrinks ==
    ASSUME NEW T \in SUBSET Runs, NEW S \in SUBSET T, Few(T)
    PROVE  Few(S)
  <1>1. IsFiniteSet(T)
    BY FS_Subset
  <1>2. Cardinality(S) <= Cardinality(T) /\ IsFiniteSet(S)
    BY <1>1, FS_Subset
  <1>3. Cardinality(S) \in Nat /\ Cardinality(T) \in Nat
    BY <1>1, <1>2, FS_CardinalityType
  <1> QED BY <1>2, <1>3 DEF Few

LEMMA NotMany ==
    ASSUME NEW S \in SUBSET Runs
    PROVE  Cardinality(S) < Limit <=> ~Many(S)
  <1>1. Cardinality(S) \in Nat
    BY FS_Subset, FS_CardinalityType
  <1> QED BY <1>1 DEF Many

----------------------------------------------------------------------------
(* Types.                                                                   *)

LEMMA NextTypeOK == TypeOK /\ [Next]_vars => TypeOK'
  <1> SUFFICES ASSUME TypeOK, [Next]_vars PROVE TypeOK'
    OBVIOUS
  <1> USE DEF TypeOK, Pcs
  <1>1. ASSUME NEW r \in Runs, Begin(r) PROVE TypeOK'
    BY <1>1 DEF Begin, Goes, Pruning
  <1>2. ASSUME NEW r \in Runs, Write(r) PROVE TypeOK'
    BY <1>2 DEF Write, Insert, Goes, Pruning
  <1>3. ASSUME NEW r \in Runs, Scan(r) PROVE TypeOK'
    BY <1>3 DEF Scan, Goes, NewestOf
  <1>4. ASSUME NEW r \in Runs, Delete(r) PROVE TypeOK'
    BY <1>4 DEF Delete, DeleteOne, Ends, Goes
  <1>5. ASSUME NEW r \in Runs, Age(r) PROVE TypeOK'
    BY <1>5 DEF Age, Ends, Goes
  <1>6. ASSUME NEW r \in Runs, Fail(r) PROVE TypeOK'
    BY <1>6 DEF Fail, Ends, Goes
  <1>7. CASE Forget
    BY <1>7 DEF Forget, Pruning
  <1>8. CASE Tick
    BY <1>8 DEF Tick, Pruning
  <1>9. CASE Crash
    BY <1>9 DEF Crash
  <1>10. CASE UNCHANGED vars
    BY <1>10 DEF vars
  <1> QED BY <1>1, <1>2, <1>3, <1>4, <1>5, <1>6, <1>7, <1>8, <1>9, <1>10 DEF Next

\* The variables stay in their ranges.
THEOREM TypeCorrect == Spec => []TypeOK
  <1>1. Init => TypeOK
    BY DEF Init, TypeOK, Pcs
  <1> QED BY <1>1, NextTypeOK, PTL DEF Spec

----------------------------------------------------------------------------
(* What is known of rows that are gone, and of those about to go.           *)

NewerRows(q) == {p \in rows : start[p] > start[q]}

\* The table does not owe the user this run: it is too old, or the table holds
\* enough newer ones.
Superseded(q) == Expired(q) \/ Many(NewerRows(q))

\* A run is in the table or a listing only once its Append has written it, ...
Written ==
    /\ \A q \in recorded : pc[q] \notin {"off", "running"}
    /\ \A r \in Runs : \A q \in scanned[r] : pc[q] \notin {"off", "running"}
    /\ \A r \in Runs : victims[r] \subseteq scanned[r]
    /\ \A r \in Runs : pc[r] \in {"off", "running", "scan"} => victims[r] = {}
    /\ \A r \in Runs : pc[r] = "off" => start[r] = 0

\* ... and what has gone or will go is superseded: not only by rows that were
\* there when it was chosen, but by rows that are there now.
GoneSuperseded == \A q \in recorded \ rows : Superseded(q)
GoingSuperseded == \A r \in Runs : \A q \in victims[r] \cap recorded : Superseded(q)

\* A prune leaves the limit of what it has read.
Trimmed ==
    \A r \in Runs :
        /\ At(r, "delete") => Few((rows \cap scanned[r]) \ victims[r])
        /\ At(r, "age") => Few(rows \cap scanned[r])

HistoryInv == TypeOK /\ Written /\ GoneSuperseded /\ GoingSuperseded /\ Trimmed

LEMMA InitHistoryInv == Init => HistoryInv
  BY DEF Init, HistoryInv, TypeOK, Pcs, Written, GoneSuperseded, GoingSuperseded, Trimmed, At

----------------------------------------------------------------------------
(* One lemma for each part.                                                 *)

LEMMA NextWritten == HistoryInv /\ [Next]_vars => Written'
  <1> SUFFICES ASSUME HistoryInv, [Next]_vars PROVE Written'
    OBVIOUS
  <1> USE DEF HistoryInv, TypeOK, Pcs, Written, At
  <1>1. ASSUME NEW r \in Runs, Begin(r) PROVE Written'
    BY <1>1 DEF Begin, Goes, Pruning
  <1>2. ASSUME NEW r \in Runs, Write(r) PROVE Written'
    BY <1>2 DEF Write, Goes, Pruning
  <1>3. ASSUME NEW r \in Runs, Scan(r) PROVE Written'
    <2>1. /\ scanned' = [scanned EXCEPT ![r] = rows]
          /\ recorded' = recorded /\ start' = start
      BY <1>3 DEF Scan
    <2>2. pc[r] = "scan" /\ (Goes(r, "age") \/ Goes(r, "delete"))
      BY <1>3 DEF Scan
    <2>3. \A q \in Runs : pc[q] \notin {"off", "running"} => pc'[q] \notin {"off", "running"}
      BY <2>2 DEF Goes
    <2>4. \A q \in Runs : pc'[q] = "off" => pc[q] = "off"
      BY <2>2 DEF Goes
    <2>5. victims' = victims \/ \E K : victims' = [victims EXCEPT ![r] = rows \ K]
      BY <1>3 DEF Scan
    <2>6. CASE victims' = victims
      <3>1. victims[r] = {}
        BY <2>2
      <3> QED BY <2>1, <2>2, <2>3, <2>4, <2>6, <3>1 DEF Goes
    <2>7. CASE \E K : victims' = [victims EXCEPT ![r] = rows \ K]
      BY <2>1, <2>2, <2>3, <2>4, <2>7 DEF Goes
    <2> QED BY <2>5, <2>6, <2>7
  <1>4. ASSUME NEW r \in Runs, Delete(r) PROVE Written'
    BY <1>4 DEF Delete, DeleteOne, Ends, Goes
  <1>5. ASSUME NEW r \in Runs, Age(r) PROVE Written'
    BY <1>5 DEF Age, Ends, Goes
  <1>6. ASSUME NEW r \in Runs, Fail(r) PROVE Written'
    BY <1>6 DEF Fail, Ends, Goes
  <1>7. CASE Forget
    BY <1>7 DEF Forget, Pruning
  <1>8. CASE Tick
    BY <1>8 DEF Tick, Pruning
  <1>9. CASE Crash
    BY <1>9 DEF Crash
  <1>10. CASE UNCHANGED vars
    BY <1>10 DEF vars
  <1> QED BY <1>1, <1>2, <1>3, <1>4, <1>5, <1>6, <1>7, <1>8, <1>9, <1>10 DEF Next

\* While no row goes and time does not go back, what is superseded stays so.
LEMMA StaysSuperseded ==
    ASSUME TypeOK, TypeOK', clock <= clock', rows \subseteq rows',
           \A p \in rows : start'[p] = start[p],
           NEW q \in Runs, start'[q] = start[q], Superseded(q)
    PROVE  Superseded(q)'
  <1>1. CASE Expired(q)
    BY <1>1 DEF TypeOK, Superseded, Expired
  <1>2. CASE Many(NewerRows(q))
    <2>1. NewerRows(q) \subseteq NewerRows(q)' /\ NewerRows(q)' \subseteq Runs
      BY DEF TypeOK, NewerRows
    <2>2. Many(NewerRows(q)')
      BY <1>2, <2>1, ManyGrows
    <2> QED BY <2>2 DEF Superseded, Many
  <1> QED BY <1>1, <1>2 DEF Superseded

\* Nor does it stop when the row that goes is superseded itself.
LEMMA StaysSupersededWithout ==
    ASSUME TypeOK, NEW v \in rows, Superseded(v),
           rows' = rows \ {v}, clock' = clock, start' = start,
           NEW q \in Runs, Superseded(q)
    PROVE  Superseded(q)'
  <1>1. CASE Expired(q)
    BY <1>1 DEF Superseded, Expired
  <1>2. CASE ~Expired(q) /\ v \notin NewerRows(q)
    <2>1. NewerRows(q)' = NewerRows(q)
      BY <1>2 DEF NewerRows
    <2> QED BY <1>2, <2>1 DEF Superseded, Many
  <1>3. CASE ~Expired(q) /\ v \in NewerRows(q)
    <2>1. ~Expired(v)
      BY <1>3 DEF TypeOK, Expired, NewerRows
    <2>2. NewerRows(v) \subseteq NewerRows(q)' /\ NewerRows(q)' \subseteq Runs
      BY <1>3 DEF TypeOK, NewerRows
    <2>3. Many(NewerRows(q)')
      BY <2>1, <2>2, ManyGrows DEF Superseded
    <2> QED BY <2>3 DEF Superseded, Many
  <1> QED BY <1>1, <1>2, <1>3

LEMMA NextSuperseded == HistoryInv /\ [Next]_vars => (GoneSuperseded /\ GoingSuperseded)'
  <1> SUFFICES ASSUME HistoryInv, [Next]_vars PROVE (GoneSuperseded /\ GoingSuperseded)'
    OBVIOUS
  <1>0. TypeOK /\ TypeOK' /\ Written /\ GoneSuperseded /\ GoingSuperseded
    BY NextTypeOK DEF HistoryInv
  <1>1. ASSUME NEW r \in Runs, Begin(r) PROVE (GoneSuperseded /\ GoingSuperseded)'
    <2>1. \A q \in recorded : start'[q] = start[q]
      BY <1>0, <1>1 DEF Begin, At, Written, TypeOK
    <2>2. \A q \in recorded : Superseded(q) => Superseded(q)'
      BY <1>0, <1>1, <2>1, StaysSuperseded DEF Begin, TypeOK
    <2> QED BY <1>0, <1>1, <2>2 DEF Begin, Pruning, GoneSuperseded, GoingSuperseded
  <1>2. ASSUME NEW r \in Runs, Write(r) PROVE (GoneSuperseded /\ GoingSuperseded)'
    <2>1. \A q \in Runs : Superseded(q) => Superseded(q)'
      BY <1>0, <1>2, StaysSuperseded DEF Write, Insert, TypeOK
    <2>2. \A x \in Runs : r \notin victims[x]
      BY <1>0, <1>2 DEF Write, At, Written
    <2> QED BY <1>0, <1>2, <2>1, <2>2
            DEF Write, Insert, Pruning, GoneSuperseded, GoingSuperseded, TypeOK
  <1>3. ASSUME NEW r \in Runs, Scan(r) PROVE (GoneSuperseded /\ GoingSuperseded)'
    <2>1. \A q \in Runs : Superseded(q) <=> Superseded(q)'
      BY <1>3 DEF Scan, Superseded, Expired, NewerRows, Many
    <2>2. \A q \in victims'[r] : Superseded(q) \/ q \in victims[r]
      <3>1. CASE UNCHANGED victims
        BY <3>1
      <3>2. ASSUME NEW K \in NewestOf(rows), victims' = [victims EXCEPT ![r] = rows \ K],
                   NEW q \in victims'[r]
            PROVE  Superseded(q)
        <4>1. K \subseteq NewerRows(q) /\ NewerRows(q) \subseteq Runs
          BY <1>0, <3>2 DEF NewestOf, NewerRows, TypeOK
        <4>2. Many(K)
          BY <3>2 DEF NewestOf, Many
        <4> QED BY <4>1, <4>2, ManyGrows DEF Superseded
      <3> QED BY <1>3, <3>1, <3>2 DEF Scan
    <2>3. \A x \in Runs : x # r => victims'[x] = victims[x]
      BY <1>0, <1>3 DEF Scan, TypeOK
    <2>4. rows' = rows /\ recorded' = recorded
      BY <1>3 DEF Scan
    <2>5. GoneSuperseded'
      BY <1>0, <2>1, <2>4 DEF GoneSuperseded, TypeOK
    <2>6. ASSUME NEW x \in Runs, NEW q \in (victims'[x] \cap recorded) PROVE Superseded(q)'
      BY <1>0, <2>1, <2>2, <2>3, <2>6 DEF GoingSuperseded, TypeOK
    <2> QED BY <2>4, <2>5, <2>6 DEF GoingSuperseded
  <1>4. ASSUME NEW r \in Runs, Delete(r) PROVE (GoneSuperseded /\ GoingSuperseded)'
    <2>1. PICK v \in victims[r] : DeleteOne(r, v)
      BY <1>4 DEF Delete
    <2>2. UNCHANGED <<clock, start, recorded>>
      BY <1>4 DEF Delete
    <2>3. \A x \in Runs : victims'[x] \subseteq victims[x]
      BY <1>0, <2>1 DEF DeleteOne, Ends, TypeOK
    <2>4. CASE v \in rows
      <3>1. rows' = rows \ {v}
        BY <2>1, <2>4 DEF DeleteOne
      <3>2. Superseded(v)
        BY <1>0, <2>4 DEF GoingSuperseded, TypeOK
      <3>3. \A q \in Runs : Superseded(q) => Superseded(q)'
        BY <1>0, <2>2, <2>4, <3>1, <3>2, StaysSupersededWithout
      <3> QED BY <1>0, <2>2, <2>3, <3>1, <3>2, <3>3 DEF GoneSuperseded, GoingSuperseded, TypeOK
    <2>5. CASE v \notin rows
      <3>1. rows' = rows
        BY <2>1, <2>5 DEF DeleteOne
      <3>2. \A q \in Runs : Superseded(q) <=> Superseded(q)'
        BY <2>2, <3>1 DEF Superseded, Expired, NewerRows, Many
      <3> QED BY <1>0, <2>2, <2>3, <3>1, <3>2 DEF GoneSuperseded, GoingSuperseded, TypeOK
    <2> QED BY <2>4, <2>5
  <1>5. ASSUME NEW r \in Runs, Age(r) PROVE (GoneSuperseded /\ GoingSuperseded)'
    <2>1. UNCHANGED <<clock, start, recorded>> /\ rows' = {q \in rows : ~Expired(q)}
      BY <1>5 DEF Age
    <2>2. \A x \in Runs : victims'[x] \subseteq victims[x]
      BY <1>0, <1>5 DEF Age, Ends, TypeOK
    <2>3. \A q \in Runs : Superseded(q) => Superseded(q)'
      <3> SUFFICES ASSUME NEW q \in Runs, Superseded(q) PROVE Superseded(q)'
        OBVIOUS
      <3>1. CASE Expired(q)
        BY <2>1, <3>1 DEF Superseded, Expired
      <3>2. CASE ~Expired(q)
        <4>1. NewerRows(q)' = NewerRows(q)
          BY <1>0, <2>1, <3>2 DEF NewerRows, Expired, TypeOK
        <4> QED BY <3>2, <4>1 DEF Superseded, Many
      <3> QED BY <3>1, <3>2
    <2>4. \A q \in rows \ rows' : Superseded(q)
      BY <2>1 DEF Superseded
    <2> QED BY <1>0, <2>1, <2>2, <2>3, <2>4 DEF GoneSuperseded, GoingSuperseded, TypeOK
  <1>6. CASE Forget
    BY <1>6 DEF Forget, GoneSuperseded, GoingSuperseded
  <1>7. CASE Tick
    <2>1. \A q \in Runs : Superseded(q) => Superseded(q)'
      BY <1>0, <1>7, StaysSuperseded DEF Tick, TypeOK
    <2> QED BY <1>0, <1>7, <2>1 DEF Tick, Pruning, GoneSuperseded, GoingSuperseded, TypeOK
  <1>8. ASSUME UNCHANGED <<clock, start, recorded, rows>>,
               \A x \in Runs : victims'[x] \subseteq victims[x]
        PROVE  (GoneSuperseded /\ GoingSuperseded)'
    <2>1. \A q \in Runs : Superseded(q) <=> Superseded(q)'
      BY <1>8 DEF Superseded, Expired, NewerRows, Many
    <2> QED BY <1>0, <1>8, <2>1 DEF GoneSuperseded, GoingSuperseded, TypeOK
  <1>9. ASSUME NEW r \in Runs, Fail(r) PROVE (GoneSuperseded /\ GoingSuperseded)'
    BY <1>0, <1>8, <1>9 DEF Fail, Ends, TypeOK
  <1>10. CASE Crash
    BY <1>0, <1>8, <1>10 DEF Crash, TypeOK
  <1>11. CASE UNCHANGED vars
    BY <1>8, <1>11 DEF vars
  <1> QED BY <1>1, <1>2, <1>3, <1>4, <1>5, <1>6, <1>7, <1>9, <1>10, <1>11 DEF Next

LEMMA NextTrimmed == HistoryInv /\ [Next]_vars => Trimmed'
  <1> SUFFICES ASSUME HistoryInv, [Next]_vars, NEW x \in Runs
               PROVE  /\ At(x, "delete")' => Few((rows' \cap scanned'[x]) \ victims'[x])
                      /\ At(x, "age")' => Few(rows' \cap scanned'[x])
    BY DEF Trimmed, Few
  <1>0. TypeOK /\ TypeOK' /\ Written /\ Trimmed
    BY NextTypeOK DEF HistoryInv
  <1>1. /\ scanned[x] \subseteq Runs /\ scanned'[x] \subseteq Runs
        /\ rows \subseteq Runs /\ rows' \subseteq Runs
    BY <1>0 DEF TypeOK
  \* A step that leaves x where it is and brings nothing that x has read.
  <1>2. ASSUME pc'[x] = pc[x], scanned'[x] = scanned[x], victims'[x] = victims[x],
               rows' \cap scanned[x] \subseteq rows
        PROVE  /\ At(x, "delete")' => Few((rows' \cap scanned'[x]) \ victims'[x])
               /\ At(x, "age")' => Few(rows' \cap scanned'[x])
    <2>1. rows' \cap scanned'[x] \subseteq rows \cap scanned[x]
      BY <1>2
    <2>2. (rows' \cap scanned'[x]) \ victims'[x] \subseteq (rows \cap scanned[x]) \ victims[x]
      BY <1>2
    <2>3. At(x, "delete")' => Few((rows' \cap scanned'[x]) \ victims'[x])
      BY <1>0, <1>1, <1>2, <2>2, FewShrinks DEF Trimmed, At
    <2>4. At(x, "age")' => Few(rows' \cap scanned'[x])
      BY <1>0, <1>1, <1>2, <2>1, FewShrinks DEF Trimmed, At
    <2> QED BY <2>3, <2>4
  \* A step that takes x elsewhere.
  <1>3. ASSUME pc'[x] \notin {"delete", "age"}
        PROVE  /\ At(x, "delete")' => Few((rows' \cap scanned'[x]) \ victims'[x])
               /\ At(x, "age")' => Few(rows' \cap scanned'[x])
    BY <1>3 DEF At
  <1>4. ASSUME NEW r \in Runs, Begin(r)
        PROVE  /\ At(x, "delete")' => Few((rows' \cap scanned'[x]) \ victims'[x])
               /\ At(x, "age")' => Few(rows' \cap scanned'[x])
    <2>1. CASE x = r
      BY <1>0, <1>3, <1>4, <2>1 DEF Begin, Goes, TypeOK
    <2>2. CASE x # r
      BY <1>0, <1>2, <1>4, <2>2 DEF Begin, Goes, Pruning, TypeOK
    <2> QED BY <2>1, <2>2
  <1>5. ASSUME NEW r \in Runs, Write(r)
        PROVE  /\ At(x, "delete")' => Few((rows' \cap scanned'[x]) \ victims'[x])
               /\ At(x, "age")' => Few(rows' \cap scanned'[x])
    <2>1. CASE x = r
      BY <1>0, <1>3, <1>5, <2>1 DEF Write, Goes, TypeOK
    <2>2. CASE x # r
      <3>1. r \notin scanned[x]
        BY <1>0, <1>5 DEF Write, At, Written
      <3> QED BY <1>0, <1>2, <1>5, <2>2, <3>1 DEF Write, Insert, Goes, Pruning, TypeOK
    <2> QED BY <2>1, <2>2
  <1>6. ASSUME NEW r \in Runs, Scan(r)
        PROVE  /\ At(x, "delete")' => Few((rows' \cap scanned'[x]) \ victims'[x])
               /\ At(x, "age")' => Few(rows' \cap scanned'[x])
    <2>1. CASE x = r
      <3>1. rows' = rows /\ scanned'[x] = rows
        BY <1>0, <1>6, <2>1 DEF Scan, TypeOK
      <3>2. CASE Cardinality(rows) <= Limit
        BY <1>0, <1>6, <2>1, <3>1, <3>2 DEF Scan, Goes, At, TypeOK, Few
      <3>3. CASE ~(Cardinality(rows) <= Limit)
        <4>1. PICK K \in NewestOf(rows) :
                victims' = [victims EXCEPT ![r] = rows \ K] /\ Goes(r, "delete")
          BY <1>6, <3>3 DEF Scan
        <4>2. (rows' \cap scanned'[x]) \ victims'[x] \subseteq K
          BY <1>0, <2>1, <3>1, <4>1 DEF NewestOf, TypeOK
        <4>3. Few(K) /\ K \subseteq Runs
          <5>1. Cardinality(K) = Limit /\ K \subseteq rows
            BY <4>1 DEF NewestOf
          <5> QED BY <1>1, <5>1 DEF Few
        <4>4. Few((rows' \cap scanned'[x]) \ victims'[x])
          BY <4>2, <4>3, FewShrinks
        <4> QED BY <1>0, <2>1, <4>1, <4>4 DEF Goes, At, TypeOK
      <3> QED BY <3>2, <3>3
    <2>2. CASE x # r
      <3>1. pc'[x] = pc[x] /\ victims'[x] = victims[x] /\ scanned'[x] = scanned[x] /\ rows' = rows
        BY <1>0, <1>6, <2>2 DEF Scan, Goes, TypeOK
      <3> QED BY <1>2, <3>1
    <2> QED BY <2>1, <2>2
  <1>7. ASSUME NEW r \in Runs, Delete(r)
        PROVE  /\ At(x, "delete")' => Few((rows' \cap scanned'[x]) \ victims'[x])
               /\ At(x, "age")' => Few(rows' \cap scanned'[x])
    <2>1. PICK v \in victims[r] : DeleteOne(r, v)
      BY <1>7 DEF Delete
    <2>2. CASE x # r
      <3>1. pc'[x] = pc[x] /\ victims'[x] = victims[x] /\ scanned'[x] = scanned[x] /\ rows' \subseteq rows
        BY <1>0, <2>1, <2>2 DEF DeleteOne, Ends, Goes, TypeOK
      <3> QED BY <1>2, <3>1
    <2>3. CASE x = r /\ v \notin rows
      BY <1>0, <1>3, <2>1, <2>3 DEF DeleteOne, Ends, Goes, TypeOK
    <2>4. CASE x = r /\ v \in rows
      <3>1. Few((rows \cap scanned[x]) \ victims[x])
        BY <1>0, <1>7, <2>4 DEF Delete, Trimmed
      <3>2. /\ rows' = rows \ {v} /\ scanned'[x] = scanned[x]
            /\ victims'[x] = victims[x] \ {v}
            /\ victims[x] = {v} => pc'[x] = "age"
            /\ victims[x] # {v} => pc'[x] = "delete"
        BY <1>0, <1>7, <2>1, <2>4 DEF Delete, At, DeleteOne, Goes, TypeOK
      <3>3. (rows' \cap scanned'[x]) \ victims'[x] \subseteq (rows \cap scanned[x]) \ victims[x]
        BY <3>2
      <3>4. Few((rows' \cap scanned'[x]) \ victims'[x])
        BY <1>1, <3>1, <3>3, FewShrinks
      <3>5. CASE victims[x] = {v}
        <4>1. (rows' \cap scanned'[x]) \ victims'[x] = rows' \cap scanned'[x]
          BY <3>2, <3>5
        <4> QED BY <3>2, <3>4, <3>5, <4>1 DEF At
      <3>6. CASE victims[x] # {v}
        BY <3>2, <3>4, <3>6 DEF At
      <3> QED BY <3>5, <3>6
    <2> QED BY <2>2, <2>3, <2>4
  <1>8. ASSUME NEW r \in Runs, Age(r)
        PROVE  /\ At(x, "delete")' => Few((rows' \cap scanned'[x]) \ victims'[x])
               /\ At(x, "age")' => Few(rows' \cap scanned'[x])
    <2>1. CASE x = r
      BY <1>0, <1>3, <1>8, <2>1 DEF Age, Ends, Goes, TypeOK
    <2>2. CASE x # r
      BY <1>0, <1>2, <1>8, <2>2 DEF Age, Ends, Goes, TypeOK
    <2> QED BY <2>1, <2>2
  <1>9. ASSUME NEW r \in Runs, Fail(r)
        PROVE  /\ At(x, "delete")' => Few((rows' \cap scanned'[x]) \ victims'[x])
               /\ At(x, "age")' => Few(rows' \cap scanned'[x])
    <2>1. CASE x = r
      BY <1>0, <1>3, <1>9, <2>1 DEF Fail, Ends, Goes, TypeOK
    <2>2. CASE x # r
      BY <1>0, <1>2, <1>9, <2>2 DEF Fail, Ends, Goes, TypeOK
    <2> QED BY <2>1, <2>2
  <1>10. CASE Forget
    BY <1>2, <1>10 DEF Forget, Pruning
  <1>11. CASE Tick
    BY <1>2, <1>11 DEF Tick, Pruning
  <1>12. CASE Crash
    BY <1>0, <1>3, <1>12 DEF Crash, At, TypeOK
  <1>13. CASE UNCHANGED vars
    BY <1>2, <1>13 DEF vars
  <1> QED BY <1>4, <1>5, <1>6, <1>7, <1>8, <1>9, <1>10, <1>11, <1>12, <1>13 DEF Next

\* However many prunes overlap, stop half-way or go by rows long gone: whatever is
\* not in the table any more is superseded by what is.
THEOREM HistoryInvariant == Spec => []HistoryInv
  <1>1. HistoryInv /\ [Next]_vars => HistoryInv'
    BY NextTypeOK, NextWritten, NextSuperseded, NextTrimmed DEF HistoryInv
  <1> QED BY <1>1, InitHistoryInv, PTL DEF Spec

\* A prune that reaches its end leaves no more than the limit of what it read.
THEOREM TrimmedToLimitHolds == Spec => []TrimmedToLimit
  <1>1. HistoryInv => TrimmedToLimit
    BY DEF HistoryInv, Trimmed, TrimmedToLimit, Few
  <1> QED BY <1>1, HistoryInvariant, PTL

----------------------------------------------------------------------------
(* How many rows there may be.                                              *)

\* Runs that have read the table and not finished.
Late == {r \in Runs : pc[r] \in {"delete", "age"}}

\* Recorded runs whose prune has not come to its end.
Unkept == {r \in recorded : pc[r] # "kept"}

\* A run reads the table after its row is in it, and so all that was read by one
\* that did not see the row and is still there.
InOrder ==
    \A s \in Late \cap rows :
        /\ s \in scanned[s]
        /\ \A r \in Late : s \notin scanned[r] => rows \cap scanned[r] \subseteq scanned[s]

\* A is what was read by the last prune to finish that read the table: of it, no
\* more than the limit are left, and whoever came later is at work yet, or lost.
Settles(A) ==
    /\ \A q \in A : pc[q] \notin {"off", "running"}
    /\ Few(rows \cap A)
    /\ rows \ A \subseteq Unkept
    /\ \A s \in (Late \cap rows) \ A : rows \cap A \subseteq scanned[s]

Settled == \E A \in SUBSET Runs : Settles(A)

LEMMA InitSettled == Init => InOrder /\ Settled
  <1> SUFFICES ASSUME Init PROVE InOrder /\ Settled
    OBVIOUS
  <1>1. Few({})
    BY FS_EmptySet DEF Few
  <1>2. Settles({})
    BY <1>1 DEF Init, Settles, Few
  <1> QED BY <1>2 DEF Init, InOrder, Settled

\* Nothing is disturbed as long as nobody reads the table and none of the others
\* finishes.
LEMMA StaysInOrder ==
    ASSUME InOrder, rows' \subseteq rows, Late' \subseteq Late,
           \A r \in Late' : scanned'[r] = scanned[r]
    PROVE  InOrder'
  BY DEF InOrder

LEMMA StaysSettled ==
    ASSUME HistoryInv, rows' \subseteq rows, Late' \subseteq Late,
           \A r \in Late' : scanned'[r] = scanned[r],
           \A q \in Runs : pc[q] \notin {"off", "running"} => pc'[q] \notin {"off", "running"},
           NEW A \in SUBSET Runs, Settles(A), rows' \ A \subseteq Unkept'
    PROVE  Settled'
  <1>1. Few(rows' \cap A)
    <2>1. rows \cap A \in SUBSET Runs /\ rows' \cap A \subseteq rows \cap A
      OBVIOUS
    <2> QED BY <2>1, FewShrinks DEF Settles
  <1>2. \A s \in (Late' \cap rows') \ A : rows' \cap A \subseteq scanned'[s]
    BY DEF Settles
  <1>3. Settles(A)'
    BY <1>1, <1>2 DEF Settles, Few
  <1> QED BY <1>3 DEF Settled

LEMMA WriteSettled ==
    ASSUME HistoryInv, InOrder, Settled, NEW r \in Runs, Write(r)
    PROVE  InOrder' /\ Settled'
  <1> USE DEF HistoryInv, TypeOK
  <1>1. /\ pc[r] = "running" /\ rows' = rows \cup {r} /\ recorded' = recorded \cup {r}
        /\ scanned' = scanned /\ pc' = [pc EXCEPT ![r] = "scan"]
    BY DEF Write, At, Insert, Goes, Pruning
  <1>2. Late' = Late /\ r \notin Late /\ Unkept \cup {r} \subseteq Unkept'
    BY <1>1 DEF Late, Unkept
  <1>3. \A x \in Runs : r \notin scanned[x]
    BY <1>1 DEF Written
  <1>4. InOrder'
    <2>1. Late \cap rows' = Late \cap rows
      BY <1>1, <1>2
    <2>2. \A x \in Late : rows' \cap scanned[x] = rows \cap scanned[x]
      BY <1>1, <1>3 DEF Late
    <2>3. \A x, s \in Late : s \in rows /\ s \notin scanned[x] => rows' \cap scanned[x] \subseteq scanned[s]
      BY <2>2 DEF InOrder
    <2>4. \A s \in Late \cap rows : s \in scanned[s]
      BY DEF InOrder
    <2> HIDE DEF HistoryInv, TypeOK
    <2> QED BY <1>1, <1>2, <2>1, <2>3, <2>4 DEF InOrder
  <1>5. PICK A \in SUBSET Runs : Settles(A)
    BY DEF Settled
  <1>6. r \notin A /\ rows' \cap A = rows \cap A
    BY <1>1, <1>5 DEF Settles
  <1>7. Settles(A)'
    <2>1. \A q \in A : pc'[q] \notin {"off", "running"}
      BY <1>1, <1>5 DEF Settles
    <2>2. Few(rows \cap A)
      BY <1>5 DEF Settles
    <2>3. rows' \ A \subseteq Unkept'
      BY <1>1, <1>2, <1>5 DEF Settles
    <2>4. \A s \in (Late' \cap rows') \ A : rows' \cap A \subseteq scanned'[s]
      BY <1>1, <1>2, <1>5, <1>6 DEF Settles
    <2> QED BY <1>6, <2>1, <2>2, <2>3, <2>4 DEF Settles, Few
  <1> QED BY <1>4, <1>7 DEF Settled

LEMMA ScanSettled ==
    ASSUME HistoryInv, InOrder, Settled, NEW r \in Runs, Scan(r)
    PROVE  InOrder' /\ Settled'
  <1> USE DEF HistoryInv, TypeOK
  <1>1. /\ pc[r] = "scan" /\ rows' = rows /\ recorded' = recorded
        /\ scanned' = [scanned EXCEPT ![r] = rows]
        /\ pc' = [pc EXCEPT ![r] = "age"] \/ pc' = [pc EXCEPT ![r] = "delete"]
    BY DEF Scan, At, Goes
  <1>2. Late' = Late \cup {r} /\ Unkept' = Unkept
    BY <1>1 DEF Late, Unkept
  <1>3. scanned'[r] = rows /\ \A x \in Runs \ {r} : scanned'[x] = scanned[x]
    BY <1>1
  <1>4. InOrder'
    BY <1>1, <1>2, <1>3 DEF InOrder, Late
  <1>5. PICK A \in SUBSET Runs : Settles(A)
    BY DEF Settled
  <1>6. Settles(A)'
    BY <1>1, <1>2, <1>3, <1>5 DEF Settles, Few
  <1> QED BY <1>4, <1>6 DEF Settled

\* The prune of r finishes.  Either its row had been read by the last that did, or
\* it read the table after that one.
LEMMA AgeSettled ==
    ASSUME HistoryInv, InOrder, Settled, NEW r \in Runs, Age(r)
    PROVE  InOrder' /\ Settled'
  <1> USE DEF HistoryInv, TypeOK
  <1>1. /\ pc[r] = "age" /\ rows' \subseteq rows /\ recorded' = recorded
        /\ pc' = [pc EXCEPT ![r] = "kept"] /\ scanned' = [scanned EXCEPT ![r] = {}]
    BY DEF Age, At, Ends, Goes
  <1>2. Late' = Late \ {r} /\ r \in Late /\ Unkept' = Unkept \ {r}
    BY <1>1 DEF Late, Unkept
  <1>3. \A x \in Late' : scanned'[x] = scanned[x]
    BY <1>1, <1>2
  <1>4. InOrder'
    BY <1>1, <1>2, <1>3, StaysInOrder
  <1>5. PICK A \in SUBSET Runs : Settles(A)
    BY DEF Settled
  <1>6. \A q \in Runs : pc[q] \notin {"off", "running"} => pc'[q] \notin {"off", "running"}
    BY <1>1
  <1>7. CASE r \notin rows \ A
    <2>1. rows' \ A \subseteq Unkept'
      BY <1>1, <1>2, <1>5, <1>7 DEF Settles
    <2> QED BY <1>1, <1>2, <1>3, <1>4, <1>5, <1>6, <2>1, StaysSettled
  <1>8. CASE r \in rows \ A
    <2> DEFINE B == scanned[r]
    <2>1. B \in SUBSET Runs /\ rows \cap A \subseteq B /\ r \in B
      BY <1>2, <1>5, <1>8 DEF Settles, InOrder
    <2>2. Settles(B)
      <3>1. \A q \in B : pc[q] \notin {"off", "running"}
        BY DEF Written
      <3>2. Few(rows \cap B)
        BY <1>1 DEF Trimmed, At
      <3>3. rows \ B \subseteq Unkept
        BY <1>5, <2>1 DEF Settles
      <3>4. \A s \in (Late \cap rows) \ B : rows \cap B \subseteq scanned[s]
        BY <1>2 DEF InOrder
      <3> QED BY <3>1, <3>2, <3>3, <3>4 DEF Settles
    <2>3. rows' \ B \subseteq Unkept'
      BY <1>1, <1>2, <2>1, <2>2 DEF Settles
    <2> QED BY <1>1, <1>2, <1>3, <1>4, <1>6, <2>1, <2>2, <2>3, StaysSettled
  <1> QED BY <1>7, <1>8

LEMMA NextSettled == HistoryInv /\ InOrder /\ Settled /\ [Next]_vars => InOrder' /\ Settled'
  <1> SUFFICES ASSUME HistoryInv, InOrder, Settled, [Next]_vars PROVE InOrder' /\ Settled'
    OBVIOUS
  <1> USE DEF HistoryInv, TypeOK
  \* A step in which no prune comes to its end.
  <1>1. ASSUME rows' \subseteq rows, recorded' = recorded, Late' \subseteq Late,
               \A r \in Late' : scanned'[r] = scanned[r],
               \A q \in Runs : pc[q] \notin {"off", "running"} => pc'[q] \notin {"off", "running"},
               \A q \in Runs : pc'[q] = "kept" => pc[q] = "kept"
        PROVE  InOrder' /\ Settled'
    <2>1. PICK A \in SUBSET Runs : Settles(A)
      BY DEF Settled
    <2>2. rows' \ A \subseteq Unkept'
      BY <1>1, <2>1 DEF Settles, Unkept
    <2> QED BY <1>1, <2>1, <2>2, StaysInOrder, StaysSettled
  <1>2. ASSUME NEW r \in Runs, Begin(r) PROVE InOrder' /\ Settled'
    <2>1. /\ pc[r] = "off" /\ pc' = [pc EXCEPT ![r] = "running"]
          /\ rows' = rows /\ recorded' = recorded /\ scanned' = scanned
      BY <1>2 DEF Begin, At, Goes, Pruning
    <2>2. Late' \subseteq Late
      BY <2>1 DEF Late
    <2> QED BY <1>1, <2>1, <2>2
  <1>3. ASSUME NEW r \in Runs, Delete(r) PROVE InOrder' /\ Settled'
    <2>1. PICK v \in victims[r] : DeleteOne(r, v)
      BY <1>3 DEF Delete
    <2>2. pc[r] = "delete" /\ recorded' = recorded /\ rows' \subseteq rows
      BY <1>3, <2>1 DEF Delete, At, DeleteOne
    <2>3. CASE v \in rows
      <3>1. scanned' = scanned /\ (pc' = pc \/ pc' = [pc EXCEPT ![r] = "age"])
        BY <2>1, <2>3 DEF DeleteOne, Goes
      <3>2. Late' \subseteq Late
        BY <2>2, <3>1 DEF Late
      <3> QED BY <1>1, <2>2, <3>1, <3>2
    <2>4. CASE v \notin rows
      <3>1. pc' = [pc EXCEPT ![r] = "lost"] /\ scanned' = [scanned EXCEPT ![r] = {}]
        BY <2>1, <2>4 DEF DeleteOne, Ends, Goes
      <3>2. Late' = Late \ {r}
        BY <2>2, <3>1 DEF Late
      <3> QED BY <1>1, <2>2, <3>1, <3>2
    <2> QED BY <2>3, <2>4
  <1>4. ASSUME NEW r \in Runs, Fail(r) PROVE InOrder' /\ Settled'
    <2>1. /\ pc' = [pc EXCEPT ![r] = "lost"] /\ scanned' = [scanned EXCEPT ![r] = {}]
          /\ rows' = rows /\ recorded' = recorded
      BY <1>4 DEF Fail, Ends, Goes
    <2>2. Late' = Late \ {r}
      BY <2>1 DEF Late
    <2> QED BY <1>1, <2>1, <2>2
  <1>5. CASE Forget
    <2>1. rows' = {} /\ scanned' = scanned /\ pc' = pc
      BY <1>5 DEF Forget, Pruning
    <2>2. Late' = Late
      BY <2>1 DEF Late
    <2>3. PICK A \in SUBSET Runs : Settles(A)
      BY DEF Settled
    <2> QED BY <2>1, <2>2, <2>3, StaysInOrder, StaysSettled
  <1>6. CASE Tick
    BY <1>1, <1>6 DEF Tick, Pruning, Late
  <1>7. CASE Crash
    <2>1. Late' = {} /\ rows' = rows /\ recorded' = recorded
      BY <1>7 DEF Crash, Late, At
    <2>2. \A q \in Runs : pc'[q] \in {pc[q], "lost"}
      BY <1>7 DEF Crash
    <2> QED BY <1>1, <2>1, <2>2
  <1>8. CASE UNCHANGED vars
    BY <1>1, <1>8 DEF vars, Late
  <1> QED BY <1>2, <1>3, <1>4, <1>5, <1>6, <1>7, <1>8, WriteSettled, ScanSettled, AgeSettled DEF Next

LEMMA SettledIsAccounted ==
    ASSUME HistoryInv, Settled
    PROVE  ExcessIsAccounted
  <1>1. PICK A \in SUBSET Runs : Settles(A)
    BY DEF Settled
  <1> DEFINE S == rows \cap A
             T == rows \ A
  <1>2. Unkept \in SUBSET Runs /\ S \in SUBSET Runs /\ T \in SUBSET Runs
    BY DEF Unkept, HistoryInv, TypeOK
  <1>3. IsFiniteSet(Unkept) /\ IsFiniteSet(S) /\ IsFiniteSet(T)
    BY <1>2, FS_Subset
  <1>4. Cardinality(T) <= Cardinality(Unkept)
    BY <1>1, <1>3, FS_Subset DEF Settles
  <1>5. Cardinality(S \cup T) = Cardinality(S) + Cardinality(T) - Cardinality(S \cap T)
    BY <1>3, FS_Union
  <1>6. S \cup T = rows /\ S \cap T = {} /\ Cardinality({}) = 0
    BY FS_EmptySet
  <1>7. Cardinality(S) <= Limit
    BY <1>1 DEF Settles, Few
  <1>8. Cardinality(S) \in Nat /\ Cardinality(T) \in Nat /\ Cardinality(Unkept) \in Nat
    BY <1>3, FS_CardinalityType
  <1>9. Cardinality(rows) = Cardinality(S) + Cardinality(T)
    <2>1. Cardinality(rows) = Cardinality(S) + Cardinality(T) - 0
      BY <1>5, <1>6
    <2> HIDE DEF S, T
    <2> QED BY <1>8, <2>1
  <1> HIDE DEF S, T
  <1>10. Cardinality(rows) <= Limit + Cardinality(Unkept)
    BY <1>4, <1>7, <1>8, <1>9
  <1> QED BY <1>10 DEF ExcessIsAccounted, Unkept

\* However many prunes overlap, stop half-way or go by rows long gone, the table
\* has at most one row beyond the limit for each run whose prune has not come to
\* its end.
THEOREM ExcessIsAccountedHolds == Spec => []ExcessIsAccounted
  <1>1. Init => HistoryInv /\ InOrder /\ Settled
    BY InitHistoryInv, InitSettled
  <1>2. HistoryInv /\ InOrder /\ Settled /\ HistoryInv' /\ [Next]_vars => (InOrder /\ Settled)'
    BY NextSettled
  <1>3. HistoryInv /\ Settled => ExcessIsAccounted
    BY SettledIsAccounted
  <1> QED BY <1>1, <1>2, <1>3, HistoryInvariant, PTL DEF Spec

----------------------------------------------------------------------------
(* The refinement.                                                          *)

\* The table shows what all runs ever recorded would show.
LEMMA ShownIsLatest == HistoryInv => Shown = Promise!Latest(recorded, start, clock)
  <1> SUFFICES ASSUME HistoryInv PROVE Shown = Promise!Latest(recorded, start, clock)
    OBVIOUS
  <1> DEFINE Newer(r) == {q \in recorded : start[q] > start[r]}
  <1>0. TypeOK /\ GoneSuperseded
    BY DEF HistoryInv
  <1>1. \A r \in Runs : NewerRows(r) \subseteq Newer(r) /\ Newer(r) \subseteq Runs
    BY <1>0 DEF TypeOK, NewerRows
  \* What is newer than an unexpired row is unexpired itself.
  <1>2. ASSUME NEW r \in rows PROVE r \in Shown <=> ~Superseded(r)
    <2> DEFINE Recent == {q \in rows : ~Expired(q)}
    <2>1. ASSUME ~Expired(r) PROVE {q \in Recent : start[q] > start[r]} = NewerRows(r)
      BY <1>0, <2>1 DEF NewerRows, Expired, TypeOK
    <2>2. Cardinality(NewerRows(r)) < Limit <=> ~Many(NewerRows(r))
      BY <1>0, <1>1, NotMany DEF TypeOK
    <2>3. r \in Shown <=> ~Expired(r) /\ Cardinality({q \in Recent : start[q] > start[r]}) < Limit
      BY Zenon DEF Shown, Queried
    <2> QED BY <2>1, <2>2, <2>3 DEF Superseded
  <1>3. \A r \in recorded :
          r \in Promise!Latest(recorded, start, clock) <=> ~Expired(r) /\ ~Many(Newer(r))
    <2> SUFFICES ASSUME NEW r \in recorded
                 PROVE  r \in Promise!Latest(recorded, start, clock) <=> ~Expired(r) /\ ~Many(Newer(r))
      OBVIOUS
    <2>1. r \in Runs /\ Newer(r) \in SUBSET Runs
      BY <1>0, <1>1 DEF TypeOK
    <2>2. Cardinality(Newer(r)) < Limit <=> ~Many(Newer(r))
      BY <2>1, NotMany
    <2>3. start[r] + Days >= clock <=> ~Expired(r)
      BY <1>0, <2>1 DEF Expired, TypeOK
    <2>4. r \in Promise!Latest(recorded, start, clock) <=>
            start[r] + Days >= clock /\ Cardinality(Newer(r)) < Limit
      BY Zenon DEF Promise!Latest, Promise!Cardinality, Cardinality
    <2> QED BY <2>2, <2>3, <2>4
  <1>4. ASSUME NEW r \in recorded, ~Expired(r), ~Many(Newer(r)) PROVE r \in rows /\ ~Superseded(r)
    <2>1. ~Superseded(r)
      BY <1>0, <1>1, <1>4, ManyGrows DEF Superseded, TypeOK
    <2> QED BY <1>0, <2>1 DEF GoneSuperseded
  <1>5. ASSUME NEW r \in rows, ~Superseded(r) PROVE ~Many(Newer(r))
    <2>1. ASSUME NEW q \in Newer(r) PROVE q \in rows
      <3>1. ~Expired(q)
        BY <1>0, <1>5, <2>1 DEF Superseded, Expired, TypeOK
      <3>2. NewerRows(q) \subseteq NewerRows(r)
        BY <1>0, <2>1 DEF NewerRows, TypeOK
      <3>3. ~Many(NewerRows(q))
        BY <1>0, <1>1, <1>5, <3>2, ManyGrows DEF Superseded, TypeOK
      <3> QED BY <1>0, <3>1, <3>3 DEF GoneSuperseded, Superseded
    <2>2. Newer(r) = NewerRows(r)
      BY <1>0, <2>1 DEF NewerRows, TypeOK
    <2> QED BY <1>5, <2>2 DEF Superseded
  <1>6. Shown \subseteq rows /\ Promise!Latest(recorded, start, clock) \subseteq recorded
    BY DEF Shown, Queried, Promise!Latest
  <1> HIDE DEF Newer
  <1>7. \A r \in rows : r \in Shown <=> r \in Promise!Latest(recorded, start, clock)
    BY <1>0, <1>2, <1>3, <1>4, <1>5 DEF TypeOK, Superseded
  <1>8. Promise!Latest(recorded, start, clock) \subseteq rows
    BY <1>3, <1>4, <1>6
  <1> QED BY <1>6, <1>7, <1>8

LEMMA InitPromise == Init => Promise!Init
  BY DEF Init, Promise!Init, Shown, Queried

LEMMA NextPromise == HistoryInv /\ HistoryInv' /\ [Next]_vars => [Promise!Next]_(Promise!vars)
  <1> SUFFICES ASSUME HistoryInv, HistoryInv', [Next]_vars PROVE [Promise!Next]_(Promise!vars)
    OBVIOUS
  <1>0. TypeOK /\ Written
    BY DEF HistoryInv
  <1>1. Shown = Promise!Latest(recorded, start, clock)
    BY ShownIsLatest
  <1>2. Shown' = Promise!Latest(recorded', start', clock')
    <2>1. (HistoryInv => Shown = Promise!Latest(recorded, start, clock))'
      BY ShownIsLatest, PTL
    <2> QED BY <2>1
  \* A step of a prune shows nothing.
  <1>3. ASSUME UNCHANGED <<clock, start, recorded>> PROVE [Promise!Next]_(Promise!vars)
    <2>1. Shown' = Shown
      BY <1>1, <1>2, <1>3
    <2> QED BY <1>3, <2>1 DEF Promise!vars
  <1>4. ASSUME NEW r \in Runs, Begin(r) PROVE [Promise!Next]_(Promise!vars)
    <2>1. start[r] = 0
      BY <1>0, <1>4 DEF Begin, At, Written
    <2> QED BY <1>2, <1>4, <2>1 DEF Begin, Promise!Next, Promise!Pass
  <1>5. ASSUME NEW r \in Runs, Write(r) PROVE [Promise!Next]_(Promise!vars)
    BY <1>0, <1>2, <1>5 DEF Write, At, Written, Promise!Next, Promise!Record
  <1>6. CASE Forget
    BY <1>2, <1>6 DEF Forget, Promise!Next, Promise!Forget
  <1>7. CASE Tick
    BY <1>2, <1>7 DEF Tick, Promise!Next, Promise!Pass
  <1>8. ASSUME NEW r \in Runs, Scan(r) \/ Delete(r) \/ Age(r) \/ Fail(r)
        PROVE  [Promise!Next]_(Promise!vars)
    BY <1>3, <1>8 DEF Scan, Delete, Age, Fail
  <1>9. CASE Crash
    BY <1>3, <1>9 DEF Crash
  <1>10. CASE UNCHANGED vars
    BY <1>3, <1>10 DEF vars
  <1> QED BY <1>4, <1>5, <1>6, <1>7, <1>8, <1>9, <1>10 DEF Next

\* The history implements HistoryPromise.
THEOREM PromiseKept == Spec => KeepsPromise
  <1> QED BY HistoryInvariant, InitPromise, NextPromise, PTL DEF Spec, KeepsPromise, Promise!Spec
=============================================================================
