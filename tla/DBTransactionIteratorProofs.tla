--------------------- MODULE DBTransactionIteratorProofs ---------------------
(***************************************************************************)
(* CDBTransactionIterator yields the visible keys in order, for every      *)
(* content of the transaction and its parent.                              *)
(***************************************************************************)
EXTENDS DBTransactionIterator, WellFoundedInduction, TLAPS

----------------------------------------------------------------------------
(* Least and greatest keys *)

\* The order of the natural numbers.
Less == {ss \in Nat \X Nat : ss[1] < ss[2]}

LEMMA LessWellFounded == IsWellFoundedOn(Less, Nat)
  BY Zenon, NatLessThanWellFounded DEF OpToRel, Less

\* A set of numbers that is not empty has a least member.
LEMMA LeastNumber ==
    ASSUME NEW T \in SUBSET Nat, T # {}
    PROVE  \E n \in T : \A m \in T : n <= m
<1>1. \E x \in T : \A y \in T : ~ (<<y, x>> \in Less)
  BY Zenon, LessWellFounded, WFMin
<1>2. \A x, y \in Nat : y < x => <<y, x>> \in Less
  BY DEF Less
<1>3. \A x, y \in Nat : <<y, x>> \notin Less => x <= y
  BY <1>2
<1> QED BY Zenon, <1>1, <1>3

\* Min is the least member, and the only one.
LEMMA MinIsLeast ==
    ASSUME NEW T \in SUBSET Nat, T # {}
    PROVE  /\ Min(T) \in T /\ \A y \in T : Min(T) <= y
           /\ \A x \in T : (\A y \in T : x <= y) => x = Min(T)
<1>1. Min(T) \in T /\ \A y \in T : Min(T) <= y
  BY Zenon, LeastNumber DEF Min
<1>2. \A x, y \in Nat : x <= y /\ y <= x => x = y
  OBVIOUS
<1> QED BY Zenon, <1>1, <1>2

\* Keys are numbers, and End is above them.
LEMMA Keys == /\ End \in Nat /\ End \notin Key /\ \A k \in Key : k \in Nat /\ k < End /\ ~(k >= End)
              /\ 0 \in 0 .. MaxKey /\ \A k \in Key : k \in 0 .. MaxKey
  BY MaxKeyAssumption DEF Key, End

\* Max is a member of every set of keys that is not empty, and the greatest one.
LEMMA MaxIsGreatest ==
    ASSUME NEW T \in SUBSET Key, T # {}
    PROVE  Max(T) \in T /\ \A y \in T : y <= Max(T)
<1> DEFINE U == {MaxKey - x : x \in T}
<1>0. \A x \in Key : MaxKey - x \in Nat
  BY MaxKeyAssumption DEF Key
<1>1. U \in SUBSET Nat /\ U # {}
  BY Zenon, <1>0
<1>2. PICK n \in U : \A m \in U : n <= m
  BY ONLY Zenon, <1>1, LeastNumber
<1>3. PICK x \in T : n = MaxKey - x
  BY Zenon, <1>2
<1>4. \A y \in T : MaxKey - x <= MaxKey - y
  BY Zenon, <1>2, <1>3
<1>5. \A y \in T : y <= x
  BY <1>4, MaxKeyAssumption DEF Key
<1> QED BY Zenon, <1>5 DEF Max

\* Where a cursor over S stands after it was moved to k.
LEMMA LowerBoundIs ==
    ASSUME NEW S \in SUBSET Key, NEW k \in Nat
    PROVE  /\ LowerBound(S, k) \in S \cup {End}
           /\ LowerBound(S, k) \in S => LowerBound(S, k) >= k
           /\ \A x \in S : x >= k => LowerBound(S, k) <= x
<1> DEFINE T == {x \in S : x >= k} \cup {End}
<1>1. T \in SUBSET Nat /\ T # {} /\ End \notin S
  BY Zenon, Keys
<1>2. Min(T) \in T /\ \A y \in T : Min(T) <= y
  BY ONLY Zenon, <1>1, MinIsLeast
<1> QED BY Zenon, <1>1, <1>2 DEF LowerBound

----------------------------------------------------------------------------
(* The inductive invariant *)

\* The keys of the parent that the transaction leaves alone.
Untouched == parent \ (writes \cup deletes)

\* it stands on the first key of S that is not behind the reader.
First(it, S) ==
    /\ it \in S => it >= start /\ it > last
    /\ \A x \in S : x >= start /\ x > last => it <= x

\* Both cursors stand on the first key of theirs that was not passed, the copied
\* key is the parent's as long as the parent's cursor is valid, and the chosen
\* cursor is the one with the smaller key.
Positions ==
    /\ First(transactionIt, writes) /\ First(parentIt, Untouched)
    /\ parentIt # End => parentKey = parentIt
    /\ parentIt # End /\ transactionIt = End => curIsParent = TRUE
    /\ parentIt = End /\ transactionIt # End => curIsParent = FALSE
    /\ parentIt # End /\ transactionIt # End =>
         /\ curIsParent = TRUE => parentIt < transactionIt
         /\ curIsParent = FALSE => transactionIt < parentIt

IInv == TypeOK /\ Positions

LEMMA Numbers ==
    ASSUME TypeOK
    PROVE  /\ End \in Nat /\ End \notin Key /\ Key \subseteq Nat /\ \A k \in Key : k < End
           /\ {transactionIt, parentIt, parentKey, start, last} \subseteq Nat
           /\ Untouched \in SUBSET Key /\ writes \in SUBSET Key
           /\ Untouched \cap writes = {}
  BY MaxKeyAssumption DEF TypeOK, Key, End, Untouched

LEMMA InitInv == Init => IInv
<1> SUFFICES ASSUME Init PROVE IInv
  BY Zenon
<1>1. TypeOK
  BY Zenon, Keys DEF Init, TypeOK
<1>2. First(transactionIt, writes) /\ First(parentIt, Untouched)
  BY Zenon, <1>1, Keys, Numbers DEF Init, First
<1> QED BY Zenon, <1>1, <1>2 DEF IInv, Positions, Init

\* Skipping moves the parent's cursor to the first untouched key from k on, and
\* copies that key.
LEMMA SkipIs ==
    ASSUME TypeOK, NEW k \in Nat, SkipDeletedAndOverwritten(k)
    PROVE  /\ parentIt' \in Untouched \cup {End}
           /\ parentIt' \in Untouched => parentIt' >= k
           /\ \A x \in Untouched : x >= k => parentIt' <= x
           /\ parentKey' \in Key \cup {End}
           /\ parentIt' # End => parentKey' = parentIt'
<1> DEFINE stop == LowerBound(Untouched, k)
           seen == {x \in parent : k <= x /\ x <= stop}
<1>1. parentIt' = stop /\ parentKey' = IF seen = {} THEN parentKey ELSE Max(seen)
  BY Zenon DEF SkipDeletedAndOverwritten, Untouched
<1>2. /\ stop \in Untouched \cup {End}
      /\ stop \in Untouched => stop >= k
      /\ \A x \in Untouched : x >= k => stop <= x
  BY Zenon, Numbers, LowerBoundIs
<1>3. seen \in SUBSET Key
  BY Zenon DEF TypeOK
<1> HIDE DEF stop
<1>4. seen # {} => Max(seen) \in seen /\ \A y \in seen : y <= Max(seen)
  BY Zenon, <1>3, MaxIsGreatest
<1>5. stop # End => stop \in seen
  <2> SUFFICES ASSUME stop # End PROVE stop \in seen
    BY Zenon
  <2>1. stop \in Untouched /\ stop >= k /\ stop \in parent
    BY Zenon, <1>2 DEF Untouched
  <2>2. k <= stop /\ stop <= stop
    BY <2>1, Numbers
  <2> QED BY Zenon, <2>1, <2>2
<1>6. stop # End => Max(seen) = stop
  <2> SUFFICES ASSUME stop # End PROVE Max(seen) = stop
    BY Zenon
  <2>1. Max(seen) \in seen /\ stop <= Max(seen)
    BY Zenon, <1>4, <1>5
  <2>2. Max(seen) <= stop /\ Max(seen) \in Key /\ stop \in Key
    BY Zenon, <1>3, <1>5, <2>1
  <2> QED BY <2>1, <2>2, Numbers
<1>7. parentKey' \in Key \cup {End}
  BY Zenon, <1>1, <1>3, <1>4 DEF TypeOK
<1> QED BY Zenon, <1>1, <1>2, <1>5, <1>6, <1>7

\* DecideCur chooses the valid cursor with the smaller key.
LEMMA DecideIs ==
    ASSUME IInv, DecideCur, UNCHANGED content,
           transactionIt' \in writes \cup {End}, parentIt' \in Untouched \cup {End},
           parentIt' # End => parentKey' = parentIt'
    PROVE  /\ curIsParent' \in BOOLEAN
           /\ parentIt' # End /\ transactionIt' = End => curIsParent' = TRUE
           /\ parentIt' = End /\ transactionIt' # End => curIsParent' = FALSE
           /\ parentIt' # End /\ transactionIt' # End =>
                /\ curIsParent' = TRUE => parentIt' < transactionIt'
                /\ curIsParent' = FALSE => transactionIt' < parentIt'
<1>1. curIsParent \in BOOLEAN /\ TypeOK
  BY Zenon DEF IInv, TypeOK
<1>2. CASE parentIt' # End /\ transactionIt' # End
  <2>1. curIsParent' = ~(transactionIt' < parentIt')
    BY Zenon, <1>2 DEF DecideCur
  <2>2. transactionIt' \in Nat /\ parentIt' \in Nat /\ transactionIt' # parentIt'
    BY Zenon, <1>1, <1>2, Numbers
  <2>3. transactionIt' < parentIt' \/ parentIt' < transactionIt'
    BY <2>2
  <2>4. ~(transactionIt' < parentIt' /\ parentIt' < transactionIt')
    BY <2>2
  <2> QED BY Zenon, <1>2, <2>1, <2>3, <2>4
<1>3. CASE ~(parentIt' # End /\ transactionIt' # End)
  BY Zenon, <1>1, <1>3 DEF DecideCur
<1> QED BY Zenon, <1>2, <1>3

\* Seek puts both cursors on their first key that is not below k.
LEMMA SeekInv ==
    ASSUME IInv, NEW k \in Key, Seek(k)
    PROVE  IInv'
<1>1. TypeOK /\ k \in Nat
  BY Zenon, Keys DEF IInv
<1>2. transactionIt' = LowerBound(writes, k) /\ SkipDeletedAndOverwritten(k) /\ DecideCur
      /\ start' = k /\ last' = 0 /\ UNCHANGED content
  BY Zenon DEF Seek
<1>3. UNCHANGED <<parent, writes, deletes>> /\ Untouched' = Untouched
  BY Zenon, <1>2 DEF content, Untouched
<1>4. /\ transactionIt' \in writes \cup {End}
      /\ transactionIt' \in writes => transactionIt' >= k
      /\ \A x \in writes : x >= k => transactionIt' <= x
  BY Zenon, <1>1, <1>2, LowerBoundIs, Numbers
<1>5. /\ parentIt' \in Untouched \cup {End}
      /\ parentIt' \in Untouched => parentIt' >= k
      /\ \A x \in Untouched : x >= k => parentIt' <= x
      /\ parentKey' \in Key \cup {End}
      /\ parentIt' # End => parentKey' = parentIt'
  BY Zenon, <1>1, <1>2, SkipIs
<1>6. \A x \in Key : x > 0
  BY DEF Key
<1>7. First(transactionIt, writes)' /\ First(parentIt, Untouched)'
  BY Zenon, <1>1, <1>2, <1>3, <1>4, <1>5, <1>6, Numbers DEF First
<1>8. /\ curIsParent' \in BOOLEAN
      /\ parentIt' # End /\ transactionIt' = End => curIsParent' = TRUE
      /\ parentIt' = End /\ transactionIt' # End => curIsParent' = FALSE
      /\ parentIt' # End /\ transactionIt' # End =>
           /\ curIsParent' = TRUE => parentIt' < transactionIt'
           /\ curIsParent' = FALSE => transactionIt' < parentIt'
  BY Zenon, <1>2, <1>4, <1>5, DecideIs
<1>9. TypeOK'
  BY Zenon, <1>1, <1>2, <1>3, <1>4, <1>5, <1>8, Keys DEF TypeOK, Untouched
<1> QED BY Zenon, <1>5, <1>7, <1>8, <1>9 DEF IInv, Positions

\* Next leaves the smaller of the two keys, and only its cursor moves.
LEMMA AdvanceInv ==
    ASSUME IInv, Advance
    PROVE  IInv'
<1>1. TypeOK /\ Positions /\ curIsParent \in BOOLEAN
  BY Zenon DEF IInv, TypeOK
<1>2. Valid /\ last' = GetKey /\ DecideCur /\ UNCHANGED <<parent, writes, deletes, start>>
  BY Zenon DEF Advance
<1>3. UNCHANGED content /\ Untouched' = Untouched
  BY Zenon, <1>2 DEF content, Untouched
<1> DEFINE Moved == /\ transactionIt' \in writes \cup {End}
                    /\ First(transactionIt, writes)'
                    /\ parentIt' \in Untouched \cup {End}
                    /\ First(parentIt, Untouched)'
                    /\ parentKey' \in Key \cup {End}
                    /\ parentIt' # End => parentKey' = parentIt'
                    /\ last' \in 0 .. MaxKey
<1>4. ASSUME curIsParent = TRUE PROVE Moved
  <2>1. parentIt # End /\ parentKey = parentIt /\ parentIt \in Untouched
    BY Zenon, <1>1, <1>2, <1>4 DEF Valid, Positions, TypeOK, Untouched
  <2>2. last' = parentIt /\ SkipDeletedAndOverwritten(parentIt + 1) /\ UNCHANGED transactionIt
    BY Zenon, <1>2, <1>4, <2>1 DEF Advance, GetKey
  <2>3. parentIt \in Nat /\ parentIt + 1 \in Nat /\ parentIt \in Key /\ parentIt < End /\ End \in Nat
    BY <1>1, <2>1, Numbers
  <2>4. /\ parentIt' \in Untouched \cup {End}
        /\ parentIt' \in Untouched => parentIt' >= parentIt + 1
        /\ \A x \in Untouched : x >= parentIt + 1 => parentIt' <= x
        /\ parentKey' \in Key \cup {End}
        /\ parentIt' # End => parentKey' = parentIt'
    BY Zenon, <1>1, <2>2, <2>3, SkipIs
  <2>5. parentIt >= start /\ parentIt > last /\ start \in Nat /\ last \in Nat
    BY Zenon, <1>1, <2>1, Numbers DEF Positions, First
  <2>6. \A x \in Nat : /\ x >= parentIt + 1 => x >= start /\ x > parentIt /\ x > last
                       /\ x > parentIt => x >= parentIt + 1 /\ x >= start /\ x > last
    BY ONLY <2>3, <2>5
  <2>7. First(parentIt, Untouched)'
    BY Zenon, <1>1, <1>2, <1>3, <2>2, <2>4, <2>6, Numbers DEF First
  <2>8. transactionIt > parentIt
    <3>1. CASE transactionIt = End
      BY ONLY <2>3, <3>1
    <3>2. CASE transactionIt # End
      <4>1. parentIt < transactionIt
        BY Zenon, <1>1, <1>4, <2>1, <3>2 DEF Positions
      <4> QED BY ONLY <4>1
    <3> QED BY Zenon, <3>1, <3>2
  <2>9. First(transactionIt, writes)'
    BY Zenon, <1>1, <1>2, <2>2, <2>6, <2>8, Numbers DEF First, Positions
  <2>10. last' \in 0 .. MaxKey /\ transactionIt' \in writes \cup {End}
    BY Zenon, <1>1, <2>2, <2>3, Keys DEF TypeOK
  <2> QED BY Zenon, <2>4, <2>7, <2>9, <2>10
<1>5. ASSUME curIsParent = FALSE PROVE Moved
  <2>1. transactionIt # End /\ transactionIt \in writes
    BY Zenon, <1>1, <1>2, <1>5 DEF Valid, Positions, TypeOK
  <2>2. last' = transactionIt /\ transactionIt' = LowerBound(writes, transactionIt + 1)
        /\ UNCHANGED <<parentIt, parentKey>>
    BY Zenon, <1>2, <1>5 DEF Advance, GetKey
  <2>3. transactionIt \in Nat /\ transactionIt + 1 \in Nat /\ transactionIt \in Key
        /\ transactionIt < End /\ End \in Nat
    BY <1>1, <2>1, Numbers
  <2>4. /\ transactionIt' \in writes \cup {End}
        /\ transactionIt' \in writes => transactionIt' >= transactionIt + 1
        /\ \A x \in writes : x >= transactionIt + 1 => transactionIt' <= x
    BY Zenon, <1>1, <2>2, <2>3, LowerBoundIs, Numbers
  <2>5. transactionIt >= start /\ transactionIt > last /\ start \in Nat /\ last \in Nat
    BY Zenon, <1>1, <2>1, Numbers DEF Positions, First
  <2>6. \A x \in Nat : /\ x >= transactionIt + 1 => x >= start /\ x > transactionIt /\ x > last
                       /\ x > transactionIt => x >= transactionIt + 1 /\ x >= start /\ x > last
    BY ONLY <2>3, <2>5
  <2>7. First(transactionIt, writes)'
    BY Zenon, <1>1, <1>2, <2>2, <2>4, <2>6, Numbers DEF First
  <2>8. parentIt > transactionIt
    <3>1. CASE parentIt = End
      BY ONLY <2>3, <3>1
    <3>2. CASE parentIt # End
      <4>1. transactionIt < parentIt
        BY Zenon, <1>1, <1>5, <2>1, <3>2 DEF Positions
      <4> QED BY ONLY <4>1
    <3> QED BY Zenon, <3>1, <3>2
  <2>9. First(parentIt, Untouched)'
    BY Zenon, <1>1, <1>2, <1>3, <2>2, <2>6, <2>8, Numbers DEF First, Positions
  <2>10. last' \in 0 .. MaxKey /\ parentIt' \in Untouched \cup {End}
         /\ parentKey' \in Key \cup {End} /\ (parentIt' # End => parentKey' = parentIt')
    BY Zenon, <1>1, <2>2, <2>3, Keys DEF TypeOK, Untouched, Positions
  <2> QED BY Zenon, <2>4, <2>7, <2>9, <2>10
<1>6. Moved
  BY Zenon, <1>1, <1>4, <1>5
<1>7. /\ curIsParent' \in BOOLEAN
      /\ parentIt' # End /\ transactionIt' = End => curIsParent' = TRUE
      /\ parentIt' = End /\ transactionIt' # End => curIsParent' = FALSE
      /\ parentIt' # End /\ transactionIt' # End =>
           /\ curIsParent' = TRUE => parentIt' < transactionIt'
           /\ curIsParent' = FALSE => transactionIt' < parentIt'
  BY Zenon, <1>2, <1>3, <1>6, DecideIs
<1>8. TypeOK'
  BY Zenon, <1>1, <1>2, <1>3, <1>6, <1>7 DEF TypeOK, Untouched
<1> QED BY Zenon, <1>6, <1>7, <1>8 DEF IInv, Positions

LEMMA StepInv == IInv /\ [Next]_vars => IInv'
<1> SUFFICES ASSUME IInv, [Next]_vars PROVE IInv'
  BY Zenon
<1>1. CASE UNCHANGED vars
  BY Zenon, <1>1 DEF vars, IInv, TypeOK, Positions, First, Untouched
<1> QED BY Zenon, <1>1, SeekInv, AdvanceInv DEF Next

LEMMA Invariant == Spec => []IInv
  BY InitInv, StepInv, PTL DEF Spec

----------------------------------------------------------------------------
(* Theorems *)

\* Type correctness: the cursors stand on keys of their own side, the parent's
\* one never on a deleted or overwritten key.
THEOREM TypeCorrect == Spec => []TypeOK
<1>1. IInv => TypeOK
  BY Zenon DEF IInv
<1> QED BY <1>1, Invariant, PTL

\* The assertions in Next hold: DecideCur chooses a valid cursor.
THEOREM ChosenIsValid == Spec => []ChosenCursorValid
<1>1. IInv => ChosenCursorValid
  BY Zenon DEF IInv, TypeOK, Positions, Valid, ChosenCursorValid
<1> QED BY <1>1, Invariant, PTL

\* A scan yields every visible key once and in ascending order, however many
\* keys there are, and the copied parentKey is never stale when it is returned.
THEOREM YieldsInOrder == Spec => []YieldsVisibleKeysInOrder
<1>1. ASSUME IInv PROVE YieldsVisibleKeysInOrder
  <2>1. TypeOK /\ Positions /\ curIsParent \in BOOLEAN
    BY Zenon, <1>1 DEF IInv, TypeOK
  <2>2. /\ transactionIt \in writes \cup {End} /\ parentIt \in Untouched \cup {End}
        /\ Visible = Untouched \cup writes /\ Remaining \in SUBSET Nat /\ Remaining \subseteq Key
    BY Zenon, <2>1, Numbers DEF TypeOK, Untouched, Visible, Remaining
  <2>3. /\ transactionIt # End => transactionIt \in Remaining
        /\ parentIt # End => parentIt \in Remaining
    BY Zenon, <2>1, <2>2 DEF Positions, First, Remaining
  <2>4. \A x \in Remaining : (x \in writes /\ transactionIt <= x) \/ (x \in Untouched /\ parentIt <= x)
    BY Zenon, <2>1, <2>2 DEF Positions, First, Remaining
  <2>5. \A x \in Remaining : x \in Nat /\ ~(End <= x)
    BY <2>1, <2>2, Numbers
  <2>6. Valid <=> Remaining # {}
    BY Zenon, <2>3, <2>4, <2>5 DEF Valid
  <2>7. ASSUME Valid PROVE GetKey \in Remaining /\ \A x \in Remaining : GetKey <= x
    <3>0. {transactionIt, parentIt} \subseteq Nat
      BY Zenon, <2>1, Numbers
    <3>1. CASE curIsParent = TRUE
      <4>1. GetKey = parentIt /\ parentIt # End /\ (transactionIt # End => parentIt < transactionIt)
        BY Zenon, <2>1, <2>7, <3>1 DEF Valid, Positions, GetKey
      <4>2. \A x \in Remaining : parentIt <= x
        BY <2>4, <2>5, <3>0, <4>1
      <4> QED BY Zenon, <2>3, <4>1, <4>2
    <3>2. CASE curIsParent = FALSE
      <4>1. GetKey = transactionIt /\ transactionIt # End /\ (parentIt # End => transactionIt < parentIt)
        BY Zenon, <2>1, <2>7, <3>2 DEF Valid, Positions, GetKey
      <4>2. \A x \in Remaining : transactionIt <= x
        BY <2>4, <2>5, <3>0, <4>1
      <4> QED BY Zenon, <2>3, <4>1, <4>2
    <3> QED BY Zenon, <2>1, <3>1, <3>2
  <2>8. Valid => GetKey = Min(Remaining)
    BY Zenon, <2>2, <2>6, <2>7, MinIsLeast
  <2> QED BY Zenon, <2>6, <2>8 DEF YieldsVisibleKeysInOrder
<1> QED BY <1>1, Invariant, PTL
=============================================================================
