---------------------------- MODULE EvoDBProofs ----------------------------
(***************************************************************************)
(* Proofs about EvoDB for every set of keys and values: the inductive      *)
(* invariant of the two layers, the refinement of TxStore, and the         *)
(* accounting of the memory the layers take.                               *)
(***************************************************************************)
EXTENDS EvoDB, FiniteSetTheorems, TLAPS

\* rootBatch is only left over by a WriteBatch that threw.
BatchInv == ~writeFailed => batch = Empty

IInv == TypeOK /\ LayersDisjoint /\ BatchInv /\ (open => up)

----------------------------------------------------------------------------
(* Facts about overlays *)

\* An empty overlay shows its parent.
LEMMA ViewEmpty ==
    ASSUME NEW p \in [AllKey -> MaybeVal]
    PROVE  View(Empty, p) = p
BY DEF View, Read, Empty, AllKey

\* The view of an overlay is a content again.
LEMMA ViewType ==
    ASSUME NEW t \in Overlay, NEW p \in [AllKey -> MaybeVal]
    PROVE  View(t, p) \in [AllKey -> MaybeVal]
BY DEF View, Read, Overlay, MaybeVal

LEMMA EmptyType == Empty \in Overlay /\ Written(Empty) = {}
BY DEF Empty, Overlay, MaybeVal, Written

\* Commit of a layer whose writes and deletes are disjoint keeps the target
\* disjoint.
LEMMA CommitToType ==
    ASSUME NEW t \in Overlay, NEW p \in Overlay
    PROVE  /\ CommitTo(t, p) \in Overlay
           /\ Written(p) \cap p.deletes = {}
                => Written(CommitTo(t, p)) \cap CommitTo(t, p).deletes = {}
BY DEF CommitTo, Overlay, MaybeVal, Written

\* Committing a layer into its parent does not change what is read.
LEMMA ViewCommitTo ==
    ASSUME NEW t \in Overlay, NEW p \in Overlay,
           NEW base \in [AllKey -> MaybeVal],
           Written(t) \cap t.deletes = {},
           Written(p) \cap p.deletes = {}
    PROVE  View(CommitTo(t, p), base) = View(t, View(p, base))
<1> SUFFICES ASSUME NEW k \in AllKey
             PROVE  Read(CommitTo(t, p), base, k) = Read(t, View(p, base), k)
  BY Zenon DEF View
<1>1. CASE k \notin Key
  BY Zenon, <1>1 DEF Read, View
<1>2. CASE k \in Key
  BY Zenon, <1>2 DEF Read, View, CommitTo, Written, Overlay, MaybeVal
<1> QED BY <1>1, <1>2

\* Write and Erase change the view at their key and nowhere else.
LEMMA ViewWrite ==
    ASSUME NEW t \in Overlay, NEW p \in [AllKey -> MaybeVal],
           NEW k \in Key, NEW v \in Val
    PROVE  View(Write(t, k, v), p) = [View(t, p) EXCEPT ![k] = v]
<1>1. v # NoVal /\ k \in AllKey
  BY Zenon, NoValAssumption DEF AllKey
<1>2. ASSUME NEW j \in AllKey
      PROVE  Read(Write(t, k, v), p, j) = IF j = k THEN v ELSE Read(t, p, j)
  BY Zenon, <1>1 DEF Read, Write, Overlay
<1> QED BY Zenon, <1>1, <1>2 DEF View

LEMMA ViewErase ==
    ASSUME NEW t \in Overlay, NEW p \in [AllKey -> MaybeVal], NEW k \in Key
    PROVE  View(Erase(t, k), p) = [View(t, p) EXCEPT ![k] = NoVal]
<1>1. ASSUME NEW j \in AllKey
      PROVE  Read(Erase(t, k), p, j) = IF j = k THEN NoVal ELSE Read(t, p, j)
  BY Zenon DEF Read, Erase, Overlay
<1> QED BY Zenon, <1>1 DEF View, AllKey

----------------------------------------------------------------------------
(* The inductive invariant *)

LEMMA InitIInv == Init => IInv
BY Zenon, EmptyType DEF Init, IInv, TypeOK, LayersDisjoint, BatchInv

LEMMA NextIInv == IInv /\ [Next]_vars => IInv'
<1> SUFFICES ASSUME IInv, [Next]_vars PROVE IInv'
  BY Zenon
<1> USE DEF IInv, TypeOK, LayersDisjoint, BatchInv
<1>1. CASE BeginTransaction
  BY Zenon, <1>1 DEF BeginTransaction
<1>2. ASSUME NEW k \in Key, NEW v \in Val, WriteCur(k, v)
      PROVE  IInv'
  <2>1. cur' \in Overlay /\ Written(cur') \cap cur'.deletes = {}
    BY Zenon, <1>2, NoValAssumption DEF WriteCur, Write, Overlay, MaybeVal, Written
  <2> QED BY Zenon, <1>2, <2>1 DEF WriteCur
<1>3. ASSUME NEW k \in Key, EraseCur(k)
      PROVE  IInv'
  <2>1. cur' \in Overlay /\ Written(cur') \cap cur'.deletes = {}
    BY Zenon, <1>3 DEF EraseCur, Erase, Overlay, MaybeVal, Written
  <2> QED BY Zenon, <1>3, <2>1 DEF EraseCur
<1>4. CASE CommitCurTransaction
  <2>1. root' \in Overlay /\ Written(root') \cap root'.deletes = {}
    BY Zenon, <1>4, CommitToType DEF CommitCurTransaction
  <2> QED BY Zenon, <1>4, <2>1, EmptyType DEF CommitCurTransaction
<1>5. CASE RollbackCurTransaction
  BY Zenon, <1>5, EmptyType DEF RollbackCurTransaction
<1>6. CASE CommitRootTransaction
  <2> DEFINE pending == CommitTo(root, batch)
  <2>1. pending \in Overlay /\ Written(pending) \cap pending.deletes = {}
    BY Zenon, CommitToType
  <2>2. View(pending, db) \in [AllKey -> MaybeVal]
    BY Zenon, <2>1, ViewType
  <2> QED BY Zenon, <1>6, <2>1, <2>2, EmptyType DEF CommitRootTransaction
<1>7. ASSUME NEW k \in AllKey, NEW v \in Val, RawWrite(k, v)
      PROVE  IInv'
  BY Zenon, <1>7 DEF RawWrite, MaybeVal
<1>8. ASSUME NEW k \in RawKey, RawErase(k)
      PROVE  IInv'
  BY Zenon, <1>8 DEF RawErase, MaybeVal
<1>9. CASE Crash
  BY Zenon, <1>9, EmptyType DEF Crash
<1>10. CASE Restart
  BY Zenon, <1>10 DEF Restart
<1>11. CASE UNCHANGED vars
  BY Zenon, <1>11 DEF vars
<1> QED
  BY Zenon, <1>1, <1>2, <1>3, <1>4, <1>5, <1>6, <1>7, <1>8, <1>9, <1>10, <1>11 DEF Next

LEMMA Inductive == Spec => []IInv
BY InitIInv, NextIInv, PTL DEF Spec

\* Types of the layers, whatever the keys and values.
THEOREM TypeCorrect == Spec => []TypeOK
BY Inductive, PTL DEF IInv

\* No layer of CDBTransaction ever holds a key both as written and deleted.
THEOREM DisjointLayers == Spec => []LayersDisjoint
BY Inductive, PTL DEF IInv

\* CEvoDB::Read returns the committed content, or, once WriteBatch has thrown,
\* possibly the older content on disk.
THEOREM CurrentReads == Spec => []ReadsAreCurrent
<1>1. IInv => ReadsAreCurrent
  <2> SUFFICES ASSUME IInv, NEW k \in AllKey, ~(writeFailed /\ Reads[k] = db[k])
               PROVE  Reads[k] = Working[k]
    BY Zenon DEF ReadsAreCurrent
  <2>1. CASE ~writeFailed
    BY Zenon, <2>1, ViewEmpty DEF IInv, TypeOK, BatchInv, Reads, Working, Committed
  <2>2. CASE k \notin Key
    BY Zenon, <2>2 DEF Reads, Working, Committed, View, Read
  <2>3. CASE k \in Key /\ (k \in Touched(cur) \/ k \in Touched(root))
    BY Zenon, <2>3 DEF Reads, Working, Committed, View, Read, Touched, Written
  <2>4. CASE k \in Key /\ k \notin Touched(cur) /\ k \notin Touched(root)
    <3>1. Reads[k] = db[k]
      BY Zenon, <2>4 DEF Reads, View, Read, Touched, Written
    <3> QED
      BY Zenon, <2>1, <3>1 DEF IInv, TypeOK
  <2> QED
    BY Zenon, <2>2, <2>3, <2>4
<1> QED BY <1>1, Inductive, PTL

----------------------------------------------------------------------------
(* Refinement *)

LEMMA InitRefines == Init => Store!Init
<1> SUFFICES ASSUME Init PROVE Store!Init
  BY Zenon
<1>1. Committed = db
  BY Zenon, ViewEmpty DEF Init, Committed
<1>2. Working = db
  BY Zenon, <1>1, ViewEmpty DEF Init, Working
<1> QED BY <1>1, <1>2 DEF Init, Store!Init, Store!Content, MaybeVal

\* A raw write of a key that no layer holds shows through all of them.
LEMMA PutRawRefines ==
    ASSUME IInv, NEW k \in AllKey, NEW v \in MaybeVal,
           k \in Key => k \notin Touched(cur) \cup Touched(root) \cup Touched(batch),
           db' = [db EXCEPT ![k] = v], UNCHANGED <<batch, root, cur, up>>
    PROVE  Store!PutRaw(k, v)
<1> USE DEF IInv, TypeOK
<1> DEFINE Upd(p, q) == \A j \in AllKey : q[j] = IF j = k THEN v ELSE p[j]
<1>1. /\ db' \in [AllKey -> MaybeVal] /\ Upd(db, db')
      /\ batch' = batch /\ root' = root /\ cur' = cur
  BY Zenon
<1>2. /\ View(batch, db) \in [AllKey -> MaybeVal]
      /\ View(batch, db') \in [AllKey -> MaybeVal]
  BY Zenon, <1>1, ViewType
<1>3. Committed \in [AllKey -> MaybeVal] /\ Committed' \in [AllKey -> MaybeVal]
  BY Zenon, <1>1, <1>2, ViewType DEF Committed
<1>4. Working \in [AllKey -> MaybeVal] /\ Working' \in [AllKey -> MaybeVal]
  BY Zenon, <1>1, <1>3, ViewType DEF Working
<1>5. ASSUME NEW t \in {batch, root, cur},
             NEW p \in [AllKey -> MaybeVal], NEW q \in [AllKey -> MaybeVal], Upd(p, q)
      PROVE  Upd(View(t, p), View(t, q)) /\ View(t, p)[k] = p[k]
  BY Zenon, <1>5 DEF View, Read, Touched, Written
<1>6. Upd(View(batch, db), View(batch, db')) /\ View(batch, db)[k] = db[k]
  BY Zenon, <1>1, <1>5
<1>7. Upd(Committed, Committed') /\ Committed[k] = db[k]
  <2>1. Committed = View(root, View(batch, db)) /\ Committed' = View(root, View(batch, db'))
    BY Zenon, <1>1 DEF Committed
  <2>2. /\ Upd(View(root, View(batch, db)), View(root, View(batch, db')))
        /\ View(root, View(batch, db))[k] = View(batch, db)[k]
    BY Zenon, <1>2, <1>5, <1>6
  <2> QED BY Zenon, <1>6, <2>1, <2>2
<1>8. Upd(Working, Working') /\ Working[k] = db[k]
  <2>1. Working = View(cur, Committed) /\ Working' = View(cur, Committed')
    BY Zenon, <1>1 DEF Working
  <2>2. /\ Upd(View(cur, Committed), View(cur, Committed'))
        /\ View(cur, Committed)[k] = Committed[k]
    BY Zenon, <1>3, <1>5, <1>7
  <2> QED BY Zenon, <1>7, <2>1, <2>2
<1>9. /\ Committed' = [Committed EXCEPT ![k] = v]
      /\ Working' = [Working EXCEPT ![k] = v]
  BY Zenon, <1>3, <1>4, <1>7, <1>8
<1> QED BY Zenon, <1>7, <1>8, <1>9 DEF Store!PutRaw

LEMMA NextRefines == IInv /\ [Next]_vars => [Store!Next]_(Store!vars)
<1> SUFFICES ASSUME IInv, [Next]_vars
             PROVE  \/ Store!Next
                    \/ UNCHANGED <<Working, Committed, db, up>>
  BY Zenon DEF Store!vars
<1> USE DEF IInv, TypeOK, LayersDisjoint
<1>a. View(batch, db) \in [AllKey -> MaybeVal]
  BY Zenon, ViewType
<1>b. Committed \in [AllKey -> MaybeVal]
  BY Zenon, <1>a, ViewType DEF Committed
<1>c. Working \in [AllKey -> MaybeVal]
  BY Zenon, <1>b, ViewType DEF Working
<1>1. CASE BeginTransaction
  BY Zenon, <1>1 DEF BeginTransaction, Working, Committed
<1>2. ASSUME NEW k \in Key, NEW v \in Val, WriteCur(k, v)
      PROVE  Store!Next
  <2>1. Committed' = Committed /\ db' = db /\ up' = up
    BY Zenon, <1>2 DEF WriteCur, Committed
  <2>2. View(cur', Committed) = [View(cur, Committed) EXCEPT ![k] = v]
    BY <1>2, <1>b, ViewWrite DEF WriteCur
  <2>3. Store!Put(k, v)
    BY Zenon, <2>1, <2>2 DEF Store!Put, Working
  <2> QED BY Zenon, <2>3 DEF Store!Next, AllKey
<1>3. ASSUME NEW k \in Key, EraseCur(k)
      PROVE  Store!Next
  <2>1. Committed' = Committed /\ db' = db /\ up' = up
    BY Zenon, <1>3 DEF EraseCur, Committed
  <2>2. View(cur', Committed) = [View(cur, Committed) EXCEPT ![k] = NoVal]
    BY Zenon, <1>3, <1>b, ViewErase DEF EraseCur
  <2>3. Store!Put(k, NoVal)
    BY Zenon, <2>1, <2>2 DEF Store!Put, Working
  <2> QED BY Zenon, <2>3 DEF Store!Next, AllKey
<1>4. CASE CommitCurTransaction
  <2>1. Committed' = Working
    BY Zenon, <1>4, <1>a, ViewCommitTo DEF CommitCurTransaction, Committed, Working
  <2>2. Working' = Working
    BY Zenon, <1>4, <2>1, <1>c, ViewEmpty DEF CommitCurTransaction, Working
  <2>3. Store!Commit
    BY Zenon, <1>4, <2>1, <2>2 DEF Store!Commit, CommitCurTransaction
  <2> QED BY Zenon, <2>3 DEF Store!Next
<1>5. CASE RollbackCurTransaction
  <2>1. Committed' = Committed
    BY Zenon, <1>5 DEF RollbackCurTransaction, Committed
  <2>2. Working' = Committed
    BY Zenon, <1>5, <2>1, <1>b, ViewEmpty DEF RollbackCurTransaction, Working
  <2>3. Store!Rollback
    BY Zenon, <1>5, <2>1, <2>2 DEF Store!Rollback, RollbackCurTransaction
  <2> QED BY Zenon, <2>3 DEF Store!Next
<1>6. CASE CommitRootTransaction
  <2> DEFINE pending == CommitTo(root, batch)
  <2>1. View(pending, db) = Committed
    BY Zenon, ViewCommitTo DEF Committed
  <2>2. Working = Committed /\ up' = up
    BY Zenon, <1>6, <1>b, ViewEmpty DEF CommitRootTransaction, Working
  <2>3. CASE db' = View(pending, db) /\ batch' = Empty
    <3>1. Committed' = Committed
      BY Zenon, <1>6, <2>1, <2>3, <1>b, ViewEmpty DEF CommitRootTransaction, Committed
    <3>2. Working' = Committed
      BY Zenon, <1>6, <3>1, <1>b, ViewEmpty DEF CommitRootTransaction, Working
    <3>3. Store!Flush
      BY Zenon, <2>1, <2>2, <2>3, <3>1, <3>2 DEF Store!Flush
    <3> QED BY Zenon, <3>3 DEF Store!Next
  <2>4. CASE batch' = pending /\ db' = db
    <3>1. Committed' = Committed
      BY Zenon, <1>6, <2>1, <2>4, <1>b, ViewEmpty DEF CommitRootTransaction, Committed
    <3>2. Working' = Committed
      BY Zenon, <1>6, <3>1, <1>b, ViewEmpty DEF CommitRootTransaction, Working
    <3> QED BY Zenon, <2>2, <2>4, <3>1, <3>2
  <2> QED BY Zenon, <1>6, <2>3, <2>4 DEF CommitRootTransaction
<1>7. ASSUME NEW k \in AllKey, NEW v \in Val, RawWrite(k, v)
      PROVE  Store!Next
  <2>1. k \in Key => k \notin Touched(cur) \cup Touched(root) \cup Touched(batch)
    <3>1. Touched(Empty) = {}
      BY EmptyType DEF Touched, Empty
    <3> QED BY Zenon, <1>7, <3>1 DEF RawWrite
  <2>2. db' = [db EXCEPT ![k] = v] /\ UNCHANGED <<batch, root, cur, up>>
    BY Zenon, <1>7 DEF RawWrite
  <2>3. Store!PutRaw(k, v)
    BY Zenon, <2>1, <2>2, PutRawRefines DEF MaybeVal
  <2> QED BY Zenon, <2>3 DEF Store!Next, AllKey
<1>8. ASSUME NEW k \in RawKey, RawErase(k)
      PROVE  Store!Next
  <2>1. k \in AllKey /\ k \notin Key
    BY Zenon, KeyAssumption DEF AllKey
  <2>2. db' = [db EXCEPT ![k] = NoVal] /\ UNCHANGED <<batch, root, cur, up>>
    BY Zenon, <1>8 DEF RawErase
  <2>3. Store!PutRaw(k, NoVal)
    BY Zenon, <2>1, <2>2, PutRawRefines DEF MaybeVal
  <2> QED BY Zenon, <2>1, <2>3 DEF Store!Next
<1>9. CASE Crash
  <2>1. Committed' = db
    BY Zenon, <1>9, ViewEmpty DEF Crash, Committed
  <2>2. Working' = db
    BY Zenon, <1>9, <2>1, ViewEmpty DEF Crash, Working
  <2>3. Store!Crash
    BY Zenon, <1>9, <2>1, <2>2 DEF Store!Crash, Crash
  <2> QED BY Zenon, <2>3 DEF Store!Next
<1>10. CASE Restart
  <2>1. Store!Restart
    BY Zenon, <1>10 DEF Store!Restart, Restart, Working, Committed
  <2> QED BY Zenon, <2>1 DEF Store!Next
<1>11. CASE UNCHANGED vars
  BY Zenon, <1>11 DEF vars, Working, Committed
<1> QED
  BY Zenon, <1>1, <1>2, <1>3, <1>4, <1>5, <1>6, <1>7, <1>8, <1>9, <1>10, <1>11 DEF Next

\* The two overlays and the batch implement the transactional store.
THEOREM ImplementsTxStore == Spec => StoreSpec
BY InitRefines, NextRefines, Inductive, PTL DEF Spec, StoreSpec, Store!Spec

----------------------------------------------------------------------------
(* Totals *)

\* The bytes of one element.
LEMMA OneTotal ==
    ASSUME NEW f, NEW x, f[x] \in Nat
    PROVE  IsFiniteSet({x} \X (1 .. f[x])) /\ Cardinality({x} \X (1 .. f[x])) = f[x]
<1>1. IsFiniteSet({x}) /\ Cardinality({x}) = 1
  BY Zenon, FS_Singleton
<1>2. IsFiniteSet(1 .. f[x]) /\ Cardinality(1 .. f[x]) = f[x]
  BY FS_Interval
<1>3. /\ IsFiniteSet({x} \X (1 .. f[x]))
      /\ Cardinality({x} \X (1 .. f[x])) = Cardinality({x}) * Cardinality(1 .. f[x])
  BY Zenon, <1>1, <1>2, FS_Product
<1> QED
  BY ONLY <1>1, <1>2, <1>3, f[x] \in Nat

LEMMA BytesFinite ==
    ASSUME NEW S, IsFiniteSet(S), NEW f, \A x \in S : f[x] \in Nat
    PROVE  IsFiniteSet(Bytes(f, S))
<1> DEFINE rows == {{x} \X (1 .. f[x]) : x \in S}
           row  == [x \in S |-> {x} \X (1 .. f[x])]
<1>1. row \in Surjection(S, rows)
  BY Zenon DEF Surjection
<1>2. IsFiniteSet(rows)
  BY Zenon, <1>1, FS_Surjection
<1>3. \A R \in rows : IsFiniteSet(R)
  BY Zenon, OneTotal
<1> HIDE DEF rows
<1>4. IsFiniteSet(UNION rows)
  BY Zenon, <1>2, <1>3, FS_UNION
<1> QED
  BY Zenon, <1>4 DEF Bytes, rows

LEMMA TotalType ==
    ASSUME NEW S, IsFiniteSet(S), NEW f, \A x \in S : f[x] \in Nat
    PROVE  Total(f, S) \in Nat
  BY Zenon, BytesFinite, FS_CardinalityType DEF Total

LEMMA TotalSplit ==
    ASSUME NEW S, IsFiniteSet(S), NEW T, IsFiniteSet(T), S \cap T = {},
           NEW f, \A x \in S \cup T : f[x] \in Nat
    PROVE  /\ Total(f, S) \in Nat
           /\ Total(f, T) \in Nat
           /\ Total(f, S \cup T) = Total(f, S) + Total(f, T)
<1>1. IsFiniteSet(Bytes(f, S)) /\ IsFiniteSet(Bytes(f, T))
  BY Zenon, BytesFinite
<1>2. Bytes(f, S \cup T) = Bytes(f, S) \cup Bytes(f, T)
  BY Zenon DEF Bytes
<1>3. Bytes(f, S) \cap Bytes(f, T) = {}
  <2>1. \A U : \A p \in Bytes(f, U) : p[1] \in U
    BY DEF Bytes
  <2> QED
    BY Zenon, <2>1
<1>4. /\ Cardinality(Bytes(f, S)) \in Nat
      /\ Cardinality(Bytes(f, T)) \in Nat
      /\ Cardinality({}) = 0
  BY Zenon, <1>1, FS_CardinalityType, FS_EmptySet
<1>5. Cardinality(Bytes(f, S) \cup Bytes(f, T))
        = Cardinality(Bytes(f, S)) + Cardinality(Bytes(f, T)) - Cardinality(Bytes(f, S) \cap Bytes(f, T))
  BY Zenon, <1>1, FS_Union
<1>6. Total(f, S \cup T) = Total(f, S) + Total(f, T) - 0
  BY Zenon, <1>2, <1>3, <1>4, <1>5 DEF Total
<1>7. Total(f, S) \in Nat /\ Total(f, T) \in Nat
  BY Zenon, <1>4 DEF Total
<1> QED
  BY ONLY <1>6, <1>7

LEMMA TotalSame ==
    ASSUME NEW S, NEW f, NEW g, \A x \in S : f[x] = g[x]
    PROVE  Total(f, S) = Total(g, S)
  BY Zenon DEF Total, Bytes

LEMMA TotalZero ==
    ASSUME NEW S, NEW f, \A x \in S : f[x] = 0
    PROVE  Total(f, S) = 0
<1>1. \A x \in S : 1 .. f[x] = {}
  OBVIOUS
<1>2. Bytes(f, S) = {}
  BY Zenon, <1>1 DEF Bytes
<1> QED
  BY Zenon, <1>2, FS_EmptySet DEF Total

\* What one element more, or less, makes.
LEMMA TotalWithout ==
    ASSUME NEW S, IsFiniteSet(S), NEW x \in S, NEW f, \A y \in S : f[y] \in Nat
    PROVE  /\ Total(f, S \ {x}) \in Nat
           /\ Total(f, S) = Total(f, S \ {x}) + f[x]
<1>1. /\ IsFiniteSet(S \ {x}) /\ IsFiniteSet({x})
      /\ (S \ {x}) \cap {x} = {} /\ (S \ {x}) \cup {x} = S
  <2>1. IsFiniteSet(S \ {x}) /\ IsFiniteSet({x})
    BY Zenon, FS_RemoveElement, FS_Singleton
  <2> QED
    BY <2>1
<1>2. Bytes(f, {x}) = {x} \X (1 .. f[x])
  BY Zenon DEF Bytes
<1>3. Total(f, {x}) = f[x]
  BY Zenon, <1>2, OneTotal DEF Total
<1>4. /\ Total(f, S \ {x}) \in Nat
      /\ Total(f, (S \ {x}) \cup {x}) = Total(f, S \ {x}) + Total(f, {x})
  BY Zenon, <1>1, TotalSplit
<1> QED
  BY Zenon, <1>1, <1>3, <1>4

----------------------------------------------------------------------------
(* GetMemoryUsage *)

LEMMA SizeType ==
    ASSUME NEW t \in Overlay, NEW k \in Key
    PROVE  /\ WriteUsage(t, k) \in Nat /\ DeleteUsage(t, k) \in Nat
           /\ Size(t)[k] = WriteUsage(t, k) + DeleteUsage(t, k)
           /\ Size(t)[k] \in Nat
<1>1. KeySize[k] \in Nat /\ (t.writes[k] # NoVal => ValSize[t.writes[k]] \in Nat)
  BY Zenon, SizeAssumption DEF Overlay, MaybeVal
<1>2. WriteUsage(t, k) \in Nat /\ DeleteUsage(t, k) \in Nat
  BY <1>1 DEF WriteUsage, DeleteUsage
<1>3. Size(t)[k] = WriteUsage(t, k) + DeleteUsage(t, k)
  BY Zenon DEF Size
<1> QED
  BY <1>2, <1>3

LEMMA EmptyTotal == Total(Size(Empty), Key) = 0
<1>1. \A k \in Key : Size(Empty)[k] = 0
  BY DEF Size, WriteUsage, DeleteUsage, Empty
<1> QED
  BY Zenon, <1>1, TotalZero

\* A layer that differs from another one at one key.
LEMMA ChangedTotal ==
    ASSUME NEW t \in Overlay, NEW u \in Overlay, NEW k \in Key,
           \A j \in Key \ {k} : Size(u)[j] = Size(t)[j]
    PROVE  Total(Size(u), Key) = Total(Size(t), Key) - Size(t)[k] + Size(u)[k]
<1>1. IsFiniteSet(Key) /\ (\A j \in Key : Size(t)[j] \in Nat) /\ (\A j \in Key : Size(u)[j] \in Nat)
  BY Zenon, KeyAssumption, SizeType
<1>2. /\ Total(Size(t), Key \ {k}) \in Nat
      /\ Total(Size(t), Key) = Total(Size(t), Key \ {k}) + Size(t)[k]
      /\ Total(Size(u), Key) = Total(Size(u), Key \ {k}) + Size(u)[k]
  BY Zenon, <1>1, TotalWithout
<1>3. Total(Size(u), Key \ {k}) = Total(Size(t), Key \ {k})
  BY Zenon, TotalSame
<1>4. Size(t)[k] \in Nat /\ Size(u)[k] \in Nat
  BY Zenon, <1>1
<1> QED
  BY ONLY <1>2, <1>3, <1>4

LEMMA WriteTotal ==
    ASSUME NEW t \in Overlay, NEW k \in Key, NEW v \in Val, Write(t, k, v) \in Overlay
    PROVE  Total(Size(Write(t, k, v)), Key) = Total(Size(t), Key) + WriteDelta(t, k, v)
<1> DEFINE u == Write(t, k, v)
<1>1. ASSUME NEW j \in Key \ {k}
      PROVE  WriteUsage(u, j) = WriteUsage(t, j) /\ DeleteUsage(u, j) = DeleteUsage(t, j)
  BY Zenon DEF Write, Overlay, WriteUsage, DeleteUsage
<1>2. WriteUsage(u, k) = KeySize[k] + ValSize[v] /\ DeleteUsage(u, k) = 0
  BY Zenon, NoValAssumption DEF Write, Overlay, WriteUsage, DeleteUsage
<1>3. KeySize[k] \in Nat /\ ValSize[v] \in Nat
  BY Zenon, SizeAssumption
<1>4. WriteDelta(t, k, v) = KeySize[k] + ValSize[v] - WriteUsage(t, k) - DeleteUsage(t, k)
  BY Zenon DEF WriteDelta
<1> HIDE DEF u
<1>5. u \in Overlay
  BY Zenon DEF u
<1>6. \A j \in Key \ {k} : Size(u)[j] = Size(t)[j]
  BY Zenon, <1>1, <1>5, SizeType
<1>7. Total(Size(u), Key) = Total(Size(t), Key) - Size(t)[k] + Size(u)[k]
  BY Zenon, <1>5, <1>6, ChangedTotal
<1>8. /\ Size(t)[k] = WriteUsage(t, k) + DeleteUsage(t, k)
      /\ WriteUsage(t, k) \in Nat /\ DeleteUsage(t, k) \in Nat
      /\ Size(u)[k] = WriteUsage(u, k) + DeleteUsage(u, k)
  BY Zenon, <1>5, SizeType
<1>9. Total(Size(t), Key) \in Nat
  BY Zenon, KeyAssumption, SizeType, TotalType
<1>10. Total(Size(u), Key) = Total(Size(t), Key) + WriteDelta(t, k, v)
  BY ONLY <1>2, <1>3, <1>4, <1>7, <1>8, <1>9
<1> QED
  BY Zenon, <1>10 DEF u

LEMMA EraseTotal ==
    ASSUME NEW t \in Overlay, NEW k \in Key, Erase(t, k) \in Overlay
    PROVE  Total(Size(Erase(t, k)), Key) = Total(Size(t), Key) + EraseDelta(t, k)
<1> DEFINE u == Erase(t, k)
<1>1. ASSUME NEW j \in Key \ {k}
      PROVE  WriteUsage(u, j) = WriteUsage(t, j) /\ DeleteUsage(u, j) = DeleteUsage(t, j)
  BY Zenon DEF Erase, Overlay, WriteUsage, DeleteUsage
<1>2. WriteUsage(u, k) = 0 /\ DeleteUsage(u, k) = KeySize[k]
  BY Zenon DEF Erase, Overlay, WriteUsage, DeleteUsage
<1>3. KeySize[k] \in Nat
  BY Zenon, SizeAssumption
<1>4. EraseDelta(t, k) = KeySize[k] - DeleteUsage(t, k) - WriteUsage(t, k)
  BY Zenon DEF EraseDelta
<1> HIDE DEF u
<1>5. u \in Overlay
  BY Zenon DEF u
<1>6. \A j \in Key \ {k} : Size(u)[j] = Size(t)[j]
  BY Zenon, <1>1, <1>5, SizeType
<1>7. Total(Size(u), Key) = Total(Size(t), Key) - Size(t)[k] + Size(u)[k]
  BY Zenon, <1>5, <1>6, ChangedTotal
<1>8. /\ Size(t)[k] = WriteUsage(t, k) + DeleteUsage(t, k)
      /\ WriteUsage(t, k) \in Nat /\ DeleteUsage(t, k) \in Nat
      /\ Size(u)[k] = WriteUsage(u, k) + DeleteUsage(u, k)
  BY Zenon, <1>5, SizeType
<1>9. Total(Size(t), Key) \in Nat
  BY Zenon, KeyAssumption, SizeType, TotalType
<1>10. Total(Size(u), Key) = Total(Size(t), Key) + EraseDelta(t, k)
  BY ONLY <1>2, <1>3, <1>4, <1>7, <1>8, <1>9
<1> QED
  BY Zenon, <1>10 DEF u

LEMMA CommitTotal ==
    ASSUME NEW t \in Overlay, NEW p \in Overlay,
           Written(t) \cap t.deletes = {}
    PROVE  Total(Size(CommitTo(t, p)), Key) = Total(Size(p), Key) + CommitDelta(t, p)
<1> DEFINE c == CommitTo(t, p)
           D == Touched(t)
<1>1. ASSUME NEW k \in D
      PROVE  WriteUsage(c, k) = WriteUsage(t, k) /\ DeleteUsage(c, k) = DeleteUsage(t, k)
  BY Zenon DEF CommitTo, Overlay, Touched, Written, WriteUsage, DeleteUsage
<1>2. ASSUME NEW k \in Key \ D
      PROVE  WriteUsage(c, k) = WriteUsage(p, k) /\ DeleteUsage(c, k) = DeleteUsage(p, k)
  BY Zenon DEF CommitTo, Overlay, Touched, Written, WriteUsage, DeleteUsage
<1>3. CommitDelta(t, p) = Total(Size(t), D) - Total(Size(p), D)
  BY Zenon DEF CommitDelta
<1>4. c \in Overlay
  BY Zenon, CommitToType
<1>5. D \in SUBSET Key
  BY Zenon DEF Overlay, Touched, Written
<1> HIDE DEF c, D
<1>6. Total(Size(c), D) = Total(Size(t), D)
  <2>1. \A k \in D : Size(c)[k] = Size(t)[k]
    BY Zenon, <1>1, <1>4, <1>5, SizeType
  <2> QED
    BY Zenon, <2>1, TotalSame
<1>7. Total(Size(c), Key \ D) = Total(Size(p), Key \ D)
  <2>1. \A k \in Key \ D : Size(c)[k] = Size(p)[k]
    BY Zenon, <1>2, <1>4, SizeType
  <2> QED
    BY Zenon, <2>1, TotalSame
<1>8. /\ IsFiniteSet(Key \ D) /\ IsFiniteSet(D)
      /\ (Key \ D) \cap D = {} /\ (Key \ D) \cup D = Key
  <2>1. IsFiniteSet(Key \ D) /\ IsFiniteSet(D)
    BY Zenon, KeyAssumption, <1>5, FS_Difference, FS_Subset
  <2> QED
    BY <1>5, <2>1
<1>9. ASSUME NEW u \in Overlay
      PROVE  /\ Total(Size(u), Key \ D) \in Nat /\ Total(Size(u), D) \in Nat
             /\ Total(Size(u), Key) = Total(Size(u), Key \ D) + Total(Size(u), D)
  <2>1. \A k \in (Key \ D) \cup D : Size(u)[k] \in Nat
    BY Zenon, <1>8, SizeType
  <2>2. /\ Total(Size(u), Key \ D) \in Nat /\ Total(Size(u), D) \in Nat
        /\ Total(Size(u), (Key \ D) \cup D) = Total(Size(u), Key \ D) + Total(Size(u), D)
    BY Zenon, <1>8, <2>1, TotalSplit
  <2> QED
    BY Zenon, <1>8, <2>2
<1>10. /\ Total(Size(c), Key) = Total(Size(p), Key \ D) + Total(Size(t), D)
       /\ Total(Size(p), Key) = Total(Size(p), Key \ D) + Total(Size(p), D)
       /\ Total(Size(p), Key \ D) \in Nat /\ Total(Size(p), D) \in Nat /\ Total(Size(t), D) \in Nat
  BY Zenon, <1>4, <1>6, <1>7, <1>9
<1>11. Total(Size(c), Key) = Total(Size(p), Key) + CommitDelta(t, p)
  BY ONLY <1>3, <1>10
<1> QED
  BY Zenon, <1>11 DEF c

Accounted == mem = [root |-> Total(Size(root), Key), cur |-> Total(Size(cur), Key)]

LEMMA AccountedStep == IInv /\ Accounted /\ [Next]_vars => Accounted'
<1> SUFFICES ASSUME IInv, Accounted, [Next]_vars PROVE Accounted'
  BY Zenon
<1>1. CASE BeginTransaction
  BY Zenon, <1>1 DEF BeginTransaction, Accounted
<1>2. ASSUME NEW k \in Key, NEW v \in Val, WriteCur(k, v)
      PROVE  Accounted'
  <2>1. cur \in Overlay /\ Write(cur, k, v) \in Overlay
    BY Zenon DEF IInv, TypeOK, Write, Overlay, MaybeVal
  <2>2. Total(Size(cur'), Key) = Total(Size(cur), Key) + WriteDelta(cur, k, v)
    BY Zenon, <1>2, <2>1, WriteTotal DEF WriteCur
  <2>3. mem' = [mem EXCEPT !.cur = mem.cur + WriteDelta(cur, k, v)] /\ root' = root
    BY Zenon, <1>2 DEF WriteCur
  <2> QED
    BY Zenon, <2>2, <2>3 DEF Accounted
<1>3. ASSUME NEW k \in Key, EraseCur(k)
      PROVE  Accounted'
  <2>1. cur \in Overlay /\ Erase(cur, k) \in Overlay
    BY Zenon DEF IInv, TypeOK, Erase, Overlay, MaybeVal
  <2>2. Total(Size(cur'), Key) = Total(Size(cur), Key) + EraseDelta(cur, k)
    BY Zenon, <1>3, <2>1, EraseTotal DEF EraseCur
  <2>3. mem' = [mem EXCEPT !.cur = mem.cur + EraseDelta(cur, k)] /\ root' = root
    BY Zenon, <1>3 DEF EraseCur
  <2> QED
    BY Zenon, <2>2, <2>3 DEF Accounted
<1>4. CASE CommitCurTransaction
  <2>1. Total(Size(root'), Key) = Total(Size(root), Key) + CommitDelta(cur, root)
    BY Zenon, <1>4, CommitTotal DEF CommitCurTransaction, IInv, TypeOK, LayersDisjoint
  <2> QED
    BY Zenon, <1>4, <2>1, EmptyTotal DEF CommitCurTransaction, Accounted
<1>5. CASE RollbackCurTransaction
  BY Zenon, <1>5, EmptyTotal DEF RollbackCurTransaction, Accounted
<1>6. CASE CommitRootTransaction
  BY Zenon, <1>6, EmptyTotal DEF CommitRootTransaction, Accounted
<1>7. ASSUME NEW k \in AllKey, NEW v \in Val, RawWrite(k, v)
      PROVE  Accounted'
  BY Zenon, <1>7 DEF RawWrite, Accounted
<1>8. ASSUME NEW k \in RawKey, RawErase(k)
      PROVE  Accounted'
  BY Zenon, <1>8 DEF RawErase, Accounted
<1>9. CASE Crash
  BY Zenon, <1>9, EmptyTotal DEF Crash, Accounted
<1>10. CASE Restart
  BY Zenon, <1>10 DEF Restart, Accounted
<1>11. CASE UNCHANGED vars
  BY Zenon, <1>11 DEF vars, Accounted
<1> QED
  BY Zenon, <1>1, <1>2, <1>3, <1>4, <1>5, <1>6, <1>7, <1>8, <1>9, <1>10, <1>11 DEF Next

\* The memory usage that Write, Erase and Commit keep up to date is the size of
\* what the two transactions hold, for any keys and values of any size.
THEOREM UsageIsExact == Spec => []MemoryUsageExact
<1>1. Init => Accounted
  BY Zenon, EmptyTotal DEF Init, Accounted
<1>2. Accounted => MemoryUsageExact
  BY DEF Accounted, MemoryUsageExact
<1> QED
  BY <1>1, <1>2, AccountedStep, Inductive, PTL DEF Spec

=============================================================================
